# TLA+ verification of RTL8821CE-macOS

The repository is a macOS driver for the RTL8821CE PCIe Wi-Fi chip. A kext
(`server/RTW88Server.cpp`, `server/kctl.c` and the linked-in `core/`) owns the
device. A daemon (`client/rtwd.c`) drives it through an IOUserClient and offers a
line protocol on a Unix socket to the menu-bar GUI and the command line.
This directory holds TLA+ models of its parts, TLC configurations that check
them on small instances, and TLAPS proofs for instances of every size.

## 1. Inventory

| Part | State | Operations | Hard because | Correct when |
|---|---|---|---|---|
| control plane, `server/kctl.c` | `g_cur_connected`, `g_scan_active` | connect, scan, scan chunk, disconnect, bring-up, power-on, unload reset | long multi-stage operations of which each stage may fail; statics that outlive the device instance | a reported connection is a live data path; a scan and a connection exclude each other; an idle chip cannot DMA |
| device instance, `RTW88Server` | BAR mapping, DMA pool, `fEth`, `fDataStopClean`, `fCtlLock` | start, stop, the selectors | an RX thread that outlives its stop; callers that wait for the lock while `stop()` runs, and then share the statics with the next instance, which has a lock of its own | memory is released only when neither chip nor thread can reach it; every operation ends |
| TX data path, `RTW88Ethernet` | BE ring indices, `fCcmpPn`, `fTxLock` | `outputPacket`, `txAction`, `stopData` | two producers, the chip as a concurrent consumer, a full ring | the chip never sees a half-written slot; packet numbers never repeat; the lock is given back |
| RX data path, `RTW88Ethernet` | eight reorder windows | `reorderInsert`, ADDBA, DELBA, hole timeout | 12-bit sequence numbers that wrap; losses, retries, re-negotiation | in order, once, nothing buffered is lost, nobody waits for ever |
| daemon, `client/rtwd.c` | `g_user_off`, `g_radio_off`, known networks | commands, auto-connect thread, restart | two threads that share unlocked flags; crashes between stores | the radio switch agrees with its flag file, if that could be written; scans end; armed means connected in the end, paused means at rest |
| config file, `client/config.c` | list of networks, file, temporary file | load, set, forget, save | hand-written files; a crash in the middle of a save | the file is always complete; what was saved is loaded |
| association and WPA2, `core/assoc.c`, `core/wpa.c`, `core/sec.c` | nonces, keys, replay counter, retry budgets | authenticate, associate, 4-way handshake, install keys | lost, late, repeated and foreign frames; a ring whose contents are skipped | both sides end with the same keys, one loss is survived, the join ends |
| RX ring, `core/scan.c`, `core/assoc.c`, `core/wpa.c`, `rxLoop` | `g_nets`, read pointer, `fRxRp`, host index, gain | `scan_networks`, `drain`, the waits of a join, `startData`, `rxLoop`, `stopData` | the chip fills the ring while it is read; each loop takes over from another; a dead device's index | each frame once; the list is what was heard; loops end; the gain stays in its range |
| firmware download, `core/fwdownload.c` | saved registers, DDMA, checksum | download per section and chunk | one damaged page of many; failure at every poll | running firmware is whole; registers are restored |
| firmware commands, `core/h2c.c`, `core/media.c`, `core/phy.c` | shared packet buffer, box number | H2C packets, mailbox commands | one buffer for all packets; a command in two register writes | packets arrive whole and in order; no half-written mailbox is taken |
| power, `core/pwr.c` | `RTW_FLAG_POWERON`, APFM | power-on with its retry, power-off | a chip found on, or that answers a poll after its timeout | success means that the chip came up now |
| efuse, `core/efuse.c` | physical and logical map | dump, decode | packed runs that reach a boundary | decoded to what it says, or refused when it leads outside |
| PHY, channel, coexistence, `core/phy.c`, `core/channel.c`, `core/coex.c` | table flags, `g_ch_param`, grants | table load, `set_channel`, `indirect_write` | conditional tables; a cache that outlives bring-ups; a mailbox that is not ready | one version of each table block; the filter of channels 1 to 13 is the table's; grants stay |
| bring-up rings, `core/trx.c` | cached DMA handles, sizes, ring registers | init, reset, send, free | handles that outlive an instance; one allocation of five that fails | no write without a buffer; else part of the other properties |

How they interact: the daemon calls the kext's selectors, one at a time under
`g_kext_lock`; the selectors run the control plane under the `fCtlLock` of their
instance; a connect
runs bring-up (power, rings, firmware, commands), scan, join, and then starts the
data interface, whose RX thread and transmit producers run concurrently with
every later selector. Scan, join and RX thread read one RX ring, in turn. Shared
state between them is the chip itself, the DMA pool, and the statics of `core/`.

The remaining parts (crypto, the command line, the GUI, scripts) are listed in
`PROJECT.json` with the reason why
they have no module.

## 2. Modules and their correspondence to the code

`PROJECT.json` maps every definition to its lines. Operators keep the names of the
functions they translate where there is one; operators called `X_Something` right
before `X` are mutants, plausible bugs used to show that a property can fail.

* **Kctl** models `server/kctl.c` and the life cycle of an instance. Every instance
  has an `fCtlLock` of its own: `op[i]` is the holder of the lock of instance i and
  `stage[i]` the next thing that operation does; each stage of the code (tear down,
  power, rings, programming, sweep, search, associate, start data, release,
  unpublish, free) is one action with its failure exits. `blocked[i]` is a caller
  that waits for lock i, also across `stop()`: when it gets the lock it works on
  `g_dev`, whatever that is by then, beside `Start`, which takes no lock, and the
  operations of the next instance. `Start` has its failures: before the instance is
  published, and after it. The chip appears as the registers that decide whether it can
  write memory: bus mastering, `REG_CR` and the ring bases. `inst` numbers the probes,
  so that handles of an earlier instance can be told apart. `fEth[i]` stands for an
  interface and its RX thread, `eth[i]` and `from[i]` for the thread that the holder of
  lock i joins, `hung[i]` for those `stopData` stopped waiting for. The device may fall
  off the bus (`Die`); an operation that follows the chip's index at that moment may
  stay in its loop, stage "spin". The history variable `mishaps` remembers three things
  that the properties make exceptions of: that operations of two instances overlapped
  (for good), that a diagnostic selector ran under the present connection, and that
  `hw_data_start` failed (both until the next teardown).
* **TxQueue** is the abstract promise of the BE ring, a bounded FIFO with
  consecutive packet numbers. **TxRing** is `txEthFrame`/`txAction` step by step
  (lock, reserve, fill, BD, publish, doorbell), the chip as consumer, and
  `stopData`. It implements TxQueue under the mapping: the queue is the slots from
  the chip's read index up to the doorbell, the last packet number is `fCcmpPn`
  less the one not yet covered by a doorbell. A null `fTxPoolV` panics the producer.
* **Reorder** is one of the eight independent reorder windows with the access
  point as BlockAck originator: it may lose, repeat, reorder and abandon frames
  within the agreed window. Sequence numbers are modulo `SNSize`; frame numbers
  and `headN` are only for the properties. `out` is what a step hands up, in the
  order in which it visits the slots, `None` for a slot it finds empty. Handlers are atomic because they all
  run on the RX thread.
* **Daemon** is both threads of `rtwd`, each command broken up at the stores that
  the other thread can see, what survives a crash (config file, flag file, kext
  state), and the kext as the results of its calls. Opening or removing the flag file
  may fail like any other call, unnoticed by the code; `unsaved` remembers it. `wish` is
  the last command carried out, used by one property.
* **Config** is `load_file`, the list operations and `config_save` with a crash at
  any point. A file is a sequence of network and password lines; `Trim` is what
  `trim()` does to a value. That a file holds a list is said without recursion, by
  the line at which each entry starts (`StartsAt`).
* **Join** is `associate` and `wpa_handshake` against an access point with its own
  retries and replay counters. A key is named by the ANonce it comes from. `Snap`
  is the code's jump of the read index, which skips what is in the ring.
* **RxRing** is the RX ring and its three readers, one after the other:
  `scan_networks`, the waits of the join, and `rxLoop` between `startData` and
  `stopData`, with its gain control. A frame is its sender, the channel the radio
  was on, and a serial number. A full ring is filled further or not: the chip may lap
  the host's index, which `lapped` remembers until the next loop takes the ring over.
  The device may die: its index is then no slot.
* **Bringup** composes the stages of a bring-up as `rtw_kctl_connect` and
  `rtw_kctl_scan` run them, on one chip and with the statics that outlive them. A
  connect stops at the first failing stage; a scan goes on whatever fails. Its
  stages are modules of their own, of which it INSTANCEs the actions:
  * **Power**: `rtw_mac_power_on` with the real sequences of `pwr.c`, entry by entry
    and those of other interfaces skipped; of the registers APFM is state.
  * **FwImage**, **FwDownload**: the sections of the image, and `download_firmware`
    with the chip's TX buffer, DDMA engine and checksum, page by page; `mem` is what
    arrived in the chip's memory.
  * **Efuse**: `efuse_read`; the decoder is a recursive function over the bytes, the
    property a definition over the set of runs. `Fits` is what a word should satisfy,
    `Straddles` what the guard lets pass beyond it.
  * **Phy**, **PhyTables**: the `phy_cond` interpreter, over the blocks of the real
    tables (number of settings and conditions of each; the values are data), entry by
    entry within a block, with `is_matched` and `is_skipped` as 0 or 1.
  * **Channel**: `set_channel` with its filter snapshot, `coex_wifi_antenna` field by
    field.
  * **H2C**: the H2C packet path and the mailboxes. The sleep after a packet ends
    whether the chip has fetched it or not; `overslept` remembers that it had not.
* **KctlProofs**, **TxRingProofs**, **ReorderProofs**, **RxRingProofs**,
  **JoinProofs**, **BringupProofs**, **DaemonProofs** and **ConfigProofs** hold the
  theorems. **MC_x** instantiates x.

Kctl has the outcomes of bring-up, scan, join and data start as nondeterministic
results of its stages, Daemon those of the kext's calls; they include what the
detailed modules do, and that a sweep, search or association does not come back from
a device that died (`ScanEnds` of RxRing has the same exception). A control lock keeps
the readers of RxRing apart, but for an RX thread that `stopData` gave up on and for
operations of two instances that overlap; these are in Kctl, and RxRing's results are
for one operation at a time and data paths whose thread exited. Join has a device that
answers: a device that dies under a join is in RxRing and Kctl.

## 3. Runs

| Run | Checks | Bounds | Distinct states |
|---|---|---|---|
| `kctl` | `TypeOK`, `NoUseAfterFree`, `ScanExcludesConnection`, `ConnectedIsLive`, `ChipIsQuiet`, `FreeOnlyWhenQuiet`, `OpsFinish` | 2 instances, 1 abandoned thread at a connect; connect, scan begin, chunk, disconnect, stop, diagnostic power-on; faults: stages, allocations, data start, hanging RX thread, dying device | 534 671 |
| `kctl_reprobe` | `RingsAreCurrent`, violated | 2 instances, connect and stop, hang | |
| `reorder` | `BufferInWindow`, `DeliversInOrder`, `NothingIsLost`, `SlideKeepsInFlight`, `HolesTimeOut` | 16 sequence numbers, 4 slots, 8 frames across the wrap, requests below, at and above the window | 24 832 |
| `txring` | `TypeOK`, `QueuedIsWhole`, `ImplementsQueue`, `LockIsReleased` | 3 slots, 5 data frames, any number of action frames | 78 918 |
| `daemon` | `RadioSwitch`, `ScanQuiesced`, `PausedComesToRest`, `ArmedConnects` | 2 networks, list of 1, 2 chunks, 3 commands, 1 crash, 2 failing calls | 235 965 |
| `daemon_sticks` | `DisconnectSticks`, violated | 1 network, 1 command | |
| `config` | `FileIsWhole`, `RoundTrip` | every file of up to 3 lines, list of 2, 3 changes or crashes | 71 388 |
| `join` | `KeysAgree`, `SurvivesLoss`, `JoinEnds` | retry budgets of 2 to 5, 1 loss, 2 sessions, three fault modes: none; rejections, bare M3s and foreign frames; these with any delay | 162 180 |
| `rx` | `FoundWhereHeard`, `ListIsWhatWasHeard`, `EachFrameOnce`, `GainInRange`, `ScanEnds`, `RxStops` | 3 access points, 2 overlapping channels, ring of 3, list of 2, 4 frames, 2 scans, joins of 2 waits, gains below and above the range | 943 761 |
| `rx_takeover` | `RingIsReleased`, violated | the same, 1 scan | |
| `bringup` | `PowerOnIsFresh`, `RunningIsWhole`, `RegistersRestored`, `EfuseDecodes`, `TablesOneVersion`, `FilterIsTable`, `PacketsIntact`, `MailboxWhole`, `GrantStays` | 2 operations, sections of 3, 2 and 1 units in chunks of 2, 1 damaged page, 24 efuse maps of 8 bytes, channels 1, 14 and 36, 2 tunes | 588 122 |
| `bringup_null` | `NoNullPage`, violated | 1 operation, no damage | |

Why the bounds are enough. Two instances show everything a re-probe can inherit,
for the statics know only "this one" and "an earlier one", and an operation of each
are all that can overlap. The run leaves out the one-call scan (a BEGIN with its sweep
and release in one), the diagnostic bring-up and the bare data stop to keep the states
few; the theorems have them all. A ring of three slots
has an empty, a partly filled and a full state and wraps within the five frames
sent; the theorems cover every length. The reorder window keeps the ratios that
matter (the slot count divides the sequence space and is less than half of it),
the frames pass the wrap, and requests are zero, smaller and larger than the
window. The sizes of the firmware sections include a short last chunk, a whole
number of chunks and a single short chunk. The efuse maps have short and long
headers, runs that are cut off by the protected bytes, end in the first of them or lie
outside of the logical map, repeated and erased ones. Two operations show what one leaves to the next, which is all that
the statics can carry. The RX ring of three slots is empty, full and wraps; four
frames fill it, and overwrite it, during a scan, between scan and join, or at the
takeover. The lists
of networks are smaller than the number of names, so they fill up. In the daemon
every pair of commands interleaves with a whole round of auto-connect, a crash and
two failures. The retry budgets of the join are smaller than the code's (6, 6, 4, 8,
30, 3), which makes `SurvivesLoss` the harder to meet.
`CHECK_DEADLOCK FALSE` is used where a bound on commands, frames or tries lets
the model stop; TxRing, RxRing and Bringup are also checked for deadlock.

### What is assumed

* Fairness. Kctl: the thread that runs an operation is scheduled (`WF(Step)`);
  nothing is assumed of the RX thread, which is why the ceiling of `stopData`
  matters for `OpsFinish`. Reorder: time passes and `rxLoop`, which calls
  `reorderTimeoutAll` on every pass, keeps running; nothing is assumed of the
  access point. TxRing: each producer thread is scheduled; a full ring and a
  silent chip are allowed. Daemon: both threads are scheduled, and only finitely
  many calls fail, a bound of the model. Join: the station's loops run on a clock,
  and a frame in the air arrives or is lost. RxRing: the thread of the scan and the
  RX thread are scheduled; nothing is assumed of the chip. Bringup states no fairness.
* Time. In Join a silence stands for 500 ms; unless "untimed" is allowed a prompt
  access point answers within a deadline, which `SurvivesLoss` needs.
  `PacketsIntact` is about packets that the chip fetches within the 2 ms the host
  sleeps; a later fetch is in the model, and breaks it.
* The chip (marked external in the map): it consumes the TX ring in order, fills
  the RX ring up to the host's index and then drops frames or overwrites them, takes
  mailboxes at any time, powers up or down at any time after it was asked to, and not the one after
  it did the other: when it has gone down a request to come up that was pending is
  gone as well. Without that the chip could come up a second time during a download,
  with empty memories and unnoticed, and `RunningIsWhole` would be false; the driver
  relies on it. Without power or with the base band in reset it loses writes and
  reads zero; off the bus it reads all ones. The bits of `REG_MCUFW_CTRL` are at load
  the worst ones. Waking the firmware (`rpwm`) always works.
* Overlapping instances. Nothing in the code keeps a caller that waited across `stop()`
  from running beside the next instance, so the model has it. `NoUseAfterFree`,
  `FreeOnlyWhenQuiet`, `ScanExcludesConnection`, `ConnectedIsLive` and `ChipIsQuiet` are
  stated for as long as it has not happened (`Serial`): with `Serial` replaced by `TRUE`
  TLC finds every one of them violated (section 5). `OpsFinish` and `TypeOK` hold with
  it. Likewise `ConnectedIsLive` makes an exception of a connection under which a
  diagnostic selector ran, and `ChipIsQuiet` of the diagnostic selectors themselves and
  of a failed `hw_data_start`, until the next teardown.

## 4. Proofs

All theorems are checked by TLAPS with Z3, Zenon and LS4, for every value of the
constants that satisfies the named assumptions in the modules (`KctlConstants`,
`TxRingConstants` and so on). These ask for natural numbers, a ring of at least two
slots, and what the code's own constants satisfy, such as a reorder window that
divides the sequence space and is less than half of it. Bounds like `MaxOps` or
the number of frames are constants too, so the theorems hold for behaviours of any
length. Every safety property of the passing runs of section 3, invariant or action
property, is a theorem; only liveness is left to TLC.

None of the properties is inductive. Each proof module states its inductive
invariant (`IInv`, `JInv`, `RxInv`) as a conjunction of named parts, has a lemma per
part or per action that says that steps keep it, and ends with the theorems; TLC
checked the parts on the instances of section 3 first.

| Module | Theorem | States |
|---|---|---|
| KctlProofs | `TypeCorrect`, `MemorySafety`, `ScanExclusion` | `[]TypeOK`, `[]NoUseAfterFree`, `[]ScanExcludesConnection` |
| | `QuietRelease` | `FreeOnlyWhenQuiet` |
| | `ConnectionLives`, `ChipQuiesces` | `[]ConnectedIsLive`, `[]ChipIsQuiet` |
| TxRingProofs | `RingTypes`, `WholeFrames` | `[]TypeOK`, `[]QueuedIsWhole` |
| | `RingImplementsQueue` | the refinement `ImplementsQueue` |
| ReorderProofs | `WindowIsSound` | `[]BufferInWindow` |
| | `InOrder`, `NoFrameLost`, `SlideIsSafe` | `DeliversInOrder`, `NothingIsLost`, `SlideKeepsInFlight` |
| RxRingProofs | `FramesOnce`, `GainBounded` | `EachFrameOnce`, `GainInRange` |
| | `FoundIsHeard`, `ListIsHeard` | `[]FoundWhereHeard`, `[]ListIsWhatWasHeard` |
| JoinProofs | `BothHaveTheKey` | `[]KeysAgree` |
| | `LossesSurvived` | `[]SurvivesLoss`, if `Survivable` |
| BringupProofs | `PowerOnFresh`, `FirmwareWhole`, `RegistersBack` | `[]PowerOnIsFresh`, `[]RunningIsWhole`, `[]RegistersRestored` |
| | `FilterStays`, `GrantsKept` | `[]FilterIsTable`, `GrantStays` |
| | `PacketsWhole`, `MailboxesWhole` | `[]PacketsIntact`, `[]MailboxWhole` |
| | `TablesAreOneVersion`, `EfuseIsDecoded` | `[]TablesOneVersion`, `[]EfuseDecodes` |
| DaemonProofs | `SwitchSurvives`, `ScanEnds` | `[]RadioSwitch`, `[]ScanQuiesced` |
| ConfigProofs | `FileStaysWhole`, `SaveThenLoad` | `[]FileIsWhole`, `[]RoundTrip` |

**KctlProofs**, for any number of instances and abandoned threads and all sets of
operations and faults; the theorems have no further hypotheses. `IInv` is `TypeOK`, and
`SerialInv` as long as operations of two instances have not overlapped: at most one
operation is in progress (`OneOp`); a started instance holds its memory and is
published until the end of `stop()`, an instance that failed to start has nobody to
work on it, and later ones are untouched (`InstanceInv`); which operations can be at
which stage, and the RX threads there, in particular that none is left once the
teardown reached "halt" (`ControlInv`, `PathInv`); abandoned threads keep the memory of
their instance held, and a stop that counts as clean left none (`HungInv`, which is
what makes `fDataStopClean` a sufficient test in `stop()`); between its teardown and its
end a connect has no active scan and a scan no connection (`ScanInv`). `OffInv`,
`ConnInv`, `LiveInv`, `AssocInv`, `FreshInv` and `QuietInv` say which stages leave the
chip's engines on, and for whom. That the mishaps cannot be forgotten too early is
part of this: only a teardown, which halts the chip and clears `g_cur_connected`,
takes "diagnostic" and "datastart" back.

**TxRingProofs**, for every ring of at least two slots. `IInv` adds: whoever is past
`IOLockLock` holds `fTxLock` (`LockInv`); the doorbell index lags `fBeWp` only by the
slot in hand, and that slot is the one after the queue and not the last free one
(`IndexInv`); the chip reads only what it was told of (`BusyInv`); frames in the
queue and in hand are whole (`WholeInv`). `RangeGrows` and `RangeShrinks` are the
facts about cyclic ranges that the doorbell and the chip's advance need. The
refinement adds which packet number the slot in hand holds (`PnInv`), and shows that a
doorbell is the queue's enqueue, the chip's advance its dequeue, and every other step
a stutter.

**ReorderProofs**, for every size of window and sequence space. The modular
comparisons say what they should only while every frame is less than half the
sequence space from `head`; `ApInv` shows that the access point's window keeps it so.
Below it are lemmas about remainders (`ModUnique` and those that follow it), on which
`WindowInv` rests: slot i holds a frame that belongs there, strictly beyond `head`
and inside the window. That the count `stored` is the number of occupied slots
(`StoredInv`) is what makes the fast path (D) safe.

**RxRingProofs**, for rings of every length. `OrderInv`: going round the ring from
the host's index one meets the read pointer, the snapshot and the chip's index in
this order (`PlaceInv`), and the slots from the read pointer on hold the frames after
the last one read (`PendingInv`), until the chip laps the host; lapped or not, they
were received on the channel the radio is on, because a retune finds no frame of the
earlier channel in the ring. `DeadInv` covers a device that stops answering.

**JoinProofs**, for any retry budgets, losses, delays and sessions. Queues have no
association request after an M2 or M4 (`OrderInv`); a MIC proves the passphrase and
the session (`MicInv`); once somebody has seen such a proof no association request is
under way, so the ANonce is settled (`ProvenInv`); hence the keys of a station that
sent M4 are the access point's (`KeyInv`).

`LossesSurvived` is about a join with the right passphrase at a prompt access point
that accepts us. `LossInv` follows the exchange phase by phase (`AuthInv`, `AssocInv`,
`PmkInv`, `M1Inv`, `M3Inv`). In each it says which frames can be on their way, who has
to act next, and what the losses so far can have cost: one try per loss of a request
or of its response, one repetition of the access point per loss in the handshake, and
two silent pauses per repetition. `JInv` supplies what the frames can be. The
hypothesis `Survivable` names the limits this needs for `MaxLoss` losses:
`MaxLoss < AuthTries`, `AssocTries`, `ApRetries`; `2 * MaxLoss < M1Wait`, `MaxTimeouts`;
`3 * MaxLoss < MaxIters`. The code's limits satisfy it for one loss, and those of the
run do so exactly or nearly. TLC finds a violation when `AuthTries`, `AssocTries`,
`ApRetries` or `M1Wait` is one less; the conditions on `MaxTimeouts` and `MaxIters` are
sufficient but not necessary. `LossInv` was checked with one to three losses.

**BringupProofs**, for any firmware image, efuse and number of operations. The parts
about the download (`RegInv`, `LoopInv`, `MemInv`) rest on those about power: after
a power-on that succeeded the chip has come up in this call and has no request
pending to go down (`PowerInv`), and a chip that may still come up late has seen
nothing but the first chunk of the download (`LateInv`). The others are
`FilterInv`, `GrantInv`, `PacketInv` (at most one descriptor is under way, and its
packet is still in the buffer, unless the host has overslept) and `BoxInv` (a full mailbox is whole, and a command
finds its box empty). The attempt to prove `RunningIsWhole` for any number of
operations showed that with three of them the earlier model of the chip broke it; see
"the chip" in section 3. Before the chip could fetch late, the run `bringup` passed with
`MaxOps = 3` as well (720 202 states); that takes too long to be the default.

The table interpreter and the efuse decoder are loops, in the model recursive
functions. Induction is not available as a rule with a predicate as its parameter, but
for a given set it follows from that a nonempty set of naturals has a least element
(`LeastExists`, from the library's `WFMin`): `IterationExists` shows that a function
defined by iterating a step exists, `UpTo` that a set which holds 0 and with i - 1
also i is all of `0 .. N`. With these the theorems hold for every input:

* `TablesAreOneVersion`: from the flags a block is entered with (matched, not
  skipped), `BlockParsed` finds after branch i that the first branch whose condition
  holds has been applied if it is among the first i, and nothing otherwise; ELSE takes
  what is left, ENDIF restores the flags. So the blocks of a table are independent
  (`TableApplied`). It holds for every sequence of blocks, whence for the tables of
  the file (`TablesAre`) and every RFE type.
* `EfuseIsDecoded`: the state of the decoder is related to the set of runs it has
  visited (`DecodeInv`): a chain of headers from 0 to where it stands (`Chain`), with
  every byte of the logical map that of the last word placed there (`LogIs`). A round
  that does not stop moves on by a byte at least (`DumpEnds`), so after `Limit` rounds
  the chain is closed and is the least set of headers. The words that pass the guard
  (`Accepted`) are those that fit or straddle (`AcceptedIs`). `EfuseConstants` asks only
  that there is a protected byte, since the decoder reads the byte after a header, and
  that the logical map has an even size, since it writes two at a time.

**DaemonProofs**: `SwitchInv` says what holds between any two of the three stores of
`cmd_power`, the last of which may fail; `ScanInv` how far a streamed scan is and which faults are spent.

**ConfigProofs**, for any strings and lengths. `TmpInv`: the temporary file holds the
entries written so far, and all of them before `rename`. `LoadInv`: a load of the
saved file has taken its first k entries, the k-th perhaps without its password yet;
that each name is new and that there is room for it is why `add_network` never
drops one.

Only model-checked: liveness under fairness (`OpsFinish`, `HolesTimeOut`,
`LockIsReleased`, `PausedComesToRest`, `ArmedConnects`, `JoinEnds`, `ScanEnds`,
`RxStops`), which is out of the prover's reach. The properties of the four runs that
expect a violation are false, and so no theorems.

## 5. Where the code and its comments disagree

Shown by a run each:

* `kctl_reprobe`: `stop()` skips `trx_unload_reset()` after an unclean data stop,
  so the next instance reuses handles that its own table does not know, which
  `RTW88Server.cpp:489` says the reset prevents.
* `daemon_sticks`: auto-connect tests `g_user_off` before it waits for the kext
  lock, so a disconnect that holds the lock is undone right afterwards
  (`rtwd.c:326`: "don't let auto-connect undo it").
* `rx_takeover`: `startData` takes the chip's RX index and releases nothing. A ring
  that is full by then stays full, for `rxLoop` releases only after it read a slot
  (`RTW88Server.cpp:1336`). If the chip drops frames while the ring is full, as `trx.c:27`
  has it ("silent drop"), nothing is received any more; if it overwrites, as the comment
  at `RTW88Server.cpp:1315` has it, the next frame moves its index on and the loop
  recovers.
* `bringup_null`: after a failed allocation of the packet buffer a scan, which
  ignores `trx_init`'s result, writes the first firmware page through a null pointer
  (`trx.c:234`); the other writers of `trx.c` return when the "rings not allocated".

Where the sources disagree with each other: on a full RX ring the comments of the RX
thread say that the chip laps the host and overwrites frames (`RTW88Server.cpp:216`,
`:1315`), `trx.c:27` that it drops them. RxRing allows both, and `EachFrameOnce` is about
the time before.

Found by dropping a condition of a property of section 3, and kept by the model:

* Operations of two instances overlap. `fCtlLock` is a member of the instance
  (`RTW88Server.cpp:399`, `:445`), `start()` takes no lock (`:417-460`), and the
  dispatchers look at their owner only before they wait (`:1828-1900`). A caller that
  waited across `stop()` finds `g_dev` null or, after a re-probe, the new instance (`:440`,
  `:482`), and both work on the statics of `kctl.c` and `trx.c`. The new instance's
  `stop()` can then release memory under the RX thread that the old caller is joining; a
  BEGIN of one and a connect of the other set both flags; a scan of one resets the chip
  under the connection of the other.
* `start()` fails at `:446` with `g_dev` and `g_kmmio` published.
* `open` and `unlink` of the flag file may fail unnoticed (`rtwd.c:360`, `:364`): the
  daemon runs with the new setting and restarts with the old one.
* The guard of the efuse decoder asks for one byte where two are copied
  (`efuse.c:111`): a word at the last unprotected byte takes its second byte from the
  protected part. One byte later it is refused, and nothing outside of a map is touched.
* A chip that does not fetch an H2C packet within 2 ms reads the next one in its
  place (`h2c.c:49`, `trx.c:367`).

Met while modelling, the first ones recorded as notes of the hazards in
`PROJECT.json`: a disconnect between two scan chunks leaves `g_scan_active` set
(`kctl.c:383`); the diagnostic power-on and bring-up run under a live connection
(`kctl.c:100`, `:140`); a failing `hw_data_start` leaves DMA running (`kctl.c:347`);
`stopData` clears `fTxPoolV` under a producer (`RTW88Server.cpp:1499`); the ADDBA
response is sent before the window is allocated (`RTW88Server.cpp:979`); a
deauthentication by the access point is not noticed, so auto-connect does not
rejoin; a restarted daemon with the radio off does not disconnect (`rtwd.c:602`); a
later M1's ANonce is not taken (`wpa.c:340`); the channel of a scan entry is the
tuned one (`scan.c:60`); a device that dies during a scan or a join keeps `drain`,
`wait_mgmt_resp` or `recv_eapol` in its loop, with the control lock held (`scan.c:105`,
`assoc.c:140`, `wpa.c:176`); a password after a repeated network line
goes to the last entry (`config.c:99`). Further: the MAC counts as powered after a
power-on that failed, and `fMacOn` is never cleared; two concurrent calls of
`irqEnable` may each create an event source; the statistics are reset without
regard to the RX thread; at the gain's upper limit a high false-alarm count lowers
the gain by one instead of holding it (`RTW88Server.cpp:1367`).

## 6. Plan

Done: all the modules of section 2, their runs, and the theorems of section 4. Left, in
this order:

1. The power, download and filter theorems for Power, FwDownload and Channel alone, so
   that the steps of Bringup need only cite them.
2. *Bridge*: the raw selectors (registers, DMA slots, IRQ enable/wait/disable), which
   no lock serialises and which only the diagnostic commands use, against `stop()`.

## 7. Not modelled, and why

Two thirds of the repository's lines are the bytes of the firmware image
(`fw_blob.c`, 11 600) and the radio tables (7 500): data. Of the image the model has
the sections, of the tables the blocks and conditions. Register numbers and the
values of straight-line programming in `macinit.c`, `phy.c`, `channel.c` and `coex.c`,
largely copied from Linux rtw88, are left out; what other code can see of it (DMA
engines enabled, base band in or out of reset, filter, grants, tuned channel) is
not. Cryptographic primitives are taken as injective functions: that they compute
what the standards say is a matter of test vectors. The raw selectors of the user
client carry single register accesses of diagnostic tools. Frame headers,
information elements, the text protocol of the daemon, logging, the GUI, the command
line and the scripts carry no state that the properties depend on.

------------------------------ MODULE Reorder -------------------------------
(***************************************************************************)
(* The receive reorder window of one TID (RTW88Ethernet), the BlockAck     *)
(* negotiation that opens and closes it, and the access point that sends   *)
(* into it.  The eight windows fBa[0..7] share nothing, and all of this    *)
(* code runs on the RX thread, so one window and atomic handlers are       *)
(* enough.                                                                 *)
(*                                                                         *)
(* The access point numbers its frames 0, 1, 2, ...; on the air a frame    *)
(* carries only its number modulo SNSize.  The window works on sequence    *)
(* numbers; frame numbers and headN exist to state what it should achieve. *)
(***************************************************************************)
EXTENDS Integers, Sequences, FiniteSets, FiniteSetsExt

CONSTANTS
  SNSize,      \* size of the sequence number space (4096)
  WinMax,      \* RTW_BA_WIN_MAX, the number of slots (64)
  Requests,    \* buffer sizes that ADDBA requests ask for, 0: our choice
  FirstFrame,  \* bound: the numbers of the frames the access point sends
  LastFrame,
  Faults       \* "alloc": IOMalloc may fail; "respLost": the ADDBA response
               \* may get lost (txAction drops it when the ring is full)

ASSUME ReorderConstants ==
  /\ WinMax \in Nat \ {0} /\ SNSize \in Nat
  /\ SNSize % WinMax = 0 /\ 2 * WinMax < SNSize
  /\ FirstFrame \in Nat /\ LastFrame \in Nat /\ Requests \subseteq Nat

Frames == FirstFrame .. LastFrame
None == -1
Slots == 0 .. WinMax - 1

VARIABLES
  active, started, head, win, stored,   \* the fields of ReorderTid
  store,       \* the slot memory is allocated
  buf,         \* buf[i]: the frame in slot i, None when occ[i] is false
  old,         \* the occupied slots whose timestamp is over 100 ms old
  base,        \* access point: oldest frame it may still send
  next,        \* access point: first frame it has not sent yet
  apWin,       \* access point: the agreed buffer size, 0 without a session
  ssn,         \* first frame of the session
  headN,       \* number of the frame that head stands for
  out          \* what the latest step handed up, in order; None: an empty slot

tidVars == <<active, started, head, win, stored, store, buf, old>>
apVars  == <<base, next, apWin, ssn>>
vars == <<tidVars, apVars, headN, out>>

Init ==
  /\ active = FALSE /\ started = FALSE /\ store = FALSE
  /\ head = 0 /\ win = 0 /\ stored = 0
  /\ buf = [i \in Slots |-> None] /\ old = {}
  /\ base = FirstFrame /\ next = FirstFrame /\ apWin = 0 /\ ssn = FirstFrame
  /\ headN = FirstFrame /\ out = <<>>
-----------------------------------------------------------------------------
rtw_sn_less(a, b) == (a - b) % SNSize > SNSize \div 2

rtw_sn_inc(a) == (a + 1) % SNSize

rtw_sn_sub(a, b) == (a - b) % SNSize

(* RTW_REORDER_IDX.                                                        *)
Slot(sn) == sn % WinMax

(* The contents of the first len slots of b from h on, in that order; an   *)
(* empty slot hands nothing up.                                            *)
Window(b, h, len) == [k \in 1 .. len |-> b[Slot(h + k - 1)]]

(* deliverSlot for those slots: b without their frames.                    *)
Clear(b, h, len) ==
  [i \in Slots |-> IF \E k \in 0 .. len - 1 : i = Slot(h + k) THEN None ELSE b[i]]

(* reorderDrainReady: how far head moves, the length of the occupied run   *)
(* that starts at it.                                                      *)
Ready(b, h) ==
  Min({k \in 0 .. WinMax : k = WinMax \/ b[Slot(h + k)] = None})

Occupied(b) == {i \in Slots : b[i] # None}

(* deliverSlot takes one off stored for each slot that it empties.         *)
Released(b, c) == Cardinality(Occupied(b) \ Occupied(c))

MoveHead(h) == head' = h /\ headN' = headN + rtw_sn_sub(h, head)

SetBuf(b) == buf' = b /\ old' = old \cap Occupied(b)
-----------------------------------------------------------------------------
\* Mutant: the slide stops one slot short.
Steps_Short(newhead) == Min({rtw_sn_sub(newhead, head), win - 1})

(* The number of slots a slide to newhead visits.                          *)
Steps(newhead) == Min({rtw_sn_sub(newhead, head), win})

(* Branch (B): where a frame beyond the window moves head, and how many    *)
(* slots that visits.                                                      *)
Beyond(sn) == ~rtw_sn_less(sn, (head + win) % SNSize)
NewHead(sn) == IF Beyond(sn) THEN rtw_sn_inc(rtw_sn_sub(sn, win)) ELSE head
Visited(sn) == IF Beyond(sn) THEN Steps(NewHead(sn)) ELSE 0

(* reorderInsert for frame n, once it is not behind the window.  Branch    *)
(* (E), a frame larger than a slot, cannot happen: rxLoop passes at most   *)
(* fRxBufSz < RTW_REORDER_SLOT_SZ bytes.                                   *)
Accept(n) ==
  LET sn == n % SNSize
      h == NewHead(sn)
      slid == Window(buf, head, Visited(sn))
      b == Clear(buf, head, Visited(sn))
      put == [b EXCEPT ![Slot(sn)] = n]
      run == Ready(put, h)
      rest == Clear(put, h, run)
      left == stored - Released(buf, b)
  IN /\ started' = TRUE
     /\ \/ /\ b[Slot(sn)] # None                            \* duplicate
           /\ SetBuf(b) /\ MoveHead(h)
           /\ out' = slid /\ stored' = left
        \/ /\ b[Slot(sn)] = None /\ sn = h /\ left = 0      \* fast path
           /\ SetBuf(b) /\ MoveHead(rtw_sn_inc(h))
           /\ out' = Append(slid, n) /\ stored' = left
        \/ /\ b[Slot(sn)] = None /\ ~(sn = h /\ left = 0)   \* buffer and drain
           /\ SetBuf(rest) /\ MoveHead((h + run) % SNSize)
           /\ out' = slid \o Window(put, h, run)
           /\ stored' = (left + 1) - Released(put, rest)
     /\ UNCHANGED <<active, store, win>>

(* deliverMpdu: handed to the stack.  A frame it cannot parse is dropped   *)
(* there, after the window has passed it.                                  *)
Deliver(n) == out' = <<n>> /\ UNCHANGED <<tidVars, headN>>
Drop == out' = <<>> /\ UNCHANGED <<tidVars, headN>>

\* Mutant: a frame behind the head is delivered, not dropped.
Insert_Late(n) ==
  LET behind == rtw_sn_less(n % SNSize, head)
  IN \/ ~active /\ Deliver(n)
     \/ active /\ behind /\ Deliver(n)
     \/ active /\ ~behind /\ Accept(n)

(* rxFrame on a QoS unicast data frame, and reorderInsert.                 *)
Insert(n) ==
  LET behind == rtw_sn_less(n % SNSize, head)
  IN \/ ~active /\ Deliver(n)
     \/ active /\ ~started /\ behind /\ Deliver(n)
     \/ active /\ started /\ behind /\ Drop                 \* stale
     \/ active /\ ~behind /\ Accept(n)

(* The access point sends frame n, perhaps again, and it is received.      *)
Arrive(n) ==
  /\ n >= base
  /\ n < (IF base < ssn THEN ssn ELSE base) + (IF apWin = 0 THEN 1 ELSE apWin)
  /\ Insert(n)
  /\ next' = IF n >= next THEN n + 1 ELSE next
  /\ UNCHANGED <<base, apWin, ssn>>

(* The access point is done with its oldest frame: acknowledged, or given  *)
(* up.  It never gets half the sequence space ahead of the window.         *)
Abandon ==
  /\ base < LastFrame
  /\ active => base + 1 + win - headN < SNSize \div 2
  /\ base' = base + 1
  /\ next' = IF base = next THEN next + 1 ELSE next
  /\ out' = <<>>
  /\ UNCHANGED <<apWin, ssn, tidVars, headN>>
-----------------------------------------------------------------------------
\* Mutant: a repeated ADDBA abandons the frames still buffered.
Flush_Nothing == <<>>

(* What a repeated ADDBA delivers of the old window.                       *)
Flush == IF active /\ store /\ stored > 0 THEN Window(buf, head, win) ELSE <<>>

(* reorderActivate: flush the old window, then restart from sequence       *)
(* number s.  A failed allocation leaves the TID inactive.                 *)
reorderActivate(s, w, ok) ==
  /\ store \/ ok \/ "alloc" \in Faults
  /\ out' = Flush
  /\ \/ /\ store \/ ok
        /\ store' = TRUE /\ active' = TRUE /\ started' = FALSE
        /\ head' = s % SNSize /\ headN' = s
        /\ win' = (IF w > WinMax THEN WinMax ELSE w) /\ stored' = 0
        /\ buf' = [i \in Slots |-> None] /\ old' = {}
     \/ /\ ~store /\ ~ok
        /\ active' = FALSE
        /\ UNCHANGED <<started, head, win, stored, store, buf, old, headN>>

\* Mutant: the response echoes the requested buffer size.
Granted_Echo(req) == IF req = 0 THEN WinMax ELSE req

(* The buffer size the ADDBA response advertises.                          *)
Granted(req) == IF req = 0 \/ req > WinMax THEN WinMax ELSE req

(* handleAddbaReq: the response goes out before the window is set up.  The *)
(* request starts at the first frame not sent; earlier ones that are still *)
(* being retried are well within half the sequence space.                  *)
handleAddbaReq(req, ok, resp) ==
  /\ resp \/ "respLost" \in Faults
  /\ next <= LastFrame /\ next - base + WinMax < SNSize \div 2
  /\ ssn' = next
  /\ apWin' = IF resp THEN Granted(req) ELSE 0
  /\ reorderActivate(next, Granted(req), ok)
  /\ UNCHANGED <<base, next>>

(* reorderDeactivate: flush, then free the window.                         *)
reorderDeactivate ==
  \/ ~active /\ Drop
  \/ /\ active
     /\ out' = IF store THEN Window(buf, head, win) ELSE <<>>
     /\ active' = FALSE /\ started' = FALSE /\ store' = FALSE /\ stored' = 0
     /\ SetBuf(Clear(buf, head, win))
     /\ UNCHANGED <<head, win, headN>>

(* handleDelba: the access point ends the session.                         *)
handleDelba ==
  /\ apWin' = 0
  /\ reorderDeactivate
  /\ UNCHANGED <<base, next, ssn>>

(* reorderFreeAll: stopData took the link away and the windows with it.    *)
reorderFreeAll ==
  /\ active' = FALSE /\ started' = FALSE /\ store' = FALSE /\ stored' = 0
  /\ buf' = [i \in Slots |-> None] /\ old' = {}
  /\ apWin' = 0 /\ out' = <<>>
  /\ UNCHANGED <<head, win, base, next, ssn, headN>>
-----------------------------------------------------------------------------
(* 100 ms pass.                                                            *)
Tick ==
  /\ old' = Occupied(buf)
  /\ old' # old
  /\ out' = <<>>
  /\ UNCHANGED <<active, started, head, win, stored, store, buf, apVars, headN>>

(* Where a sweep of reorderTimeoutAll leaves head, counted from where it   *)
(* was: it skips each hole whose next frame is old and releases the run    *)
(* behind it, up to the first hole whose next frame is young.              *)
SweepEnd ==
  LET waiting == {k \in 1 .. win - 1 : buf[Slot(head + k)] # None}
      young == {k \in waiting : k - 1 \notin waiting /\ Slot(head + k) \notin old}
      before == {k \in waiting : \A y \in young : k < y}
  IN IF before = {} THEN 0 ELSE Max(before) + 1

\* Mutant: a window with a single buffered frame is skipped.
Sweep_MoreThanOne ==
  LET end == IF buf[Slot(head)] # None THEN Ready(buf, head) ELSE SweepEnd
  IN /\ active /\ stored > 1 /\ end > 0
     /\ out' = Window(buf, head, end)
     /\ SetBuf(Clear(buf, head, end))
     /\ stored' = stored - Released(buf, buf')
     /\ MoveHead((head + end) % SNSize)
     /\ UNCHANGED <<active, started, win, store, apVars>>

(* reorderTimeoutAll, for this TID: a window whose head is occupied is     *)
(* only drained.                                                           *)
Sweep ==
  LET end == IF buf[Slot(head)] # None THEN Ready(buf, head) ELSE SweepEnd
  IN /\ active /\ stored > 0 /\ end > 0
     /\ out' = Window(buf, head, end)
     /\ SetBuf(Clear(buf, head, end))
     /\ stored' = stored - Released(buf, buf')
     /\ MoveHead((head + end) % SNSize)
     /\ UNCHANGED <<active, started, win, store, apVars>>

Next ==
  \/ \E n \in Frames : Arrive(n)
  \/ Abandon
  \/ \E req \in Requests, ok \in BOOLEAN, resp \in BOOLEAN : handleAddbaReq(req, ok, resp)
  \/ handleDelba
  \/ reorderFreeAll
  \/ Tick
  \/ Sweep

Spec == Init /\ [][Next]_vars

(* Time passes, and rxLoop sweeps on every pass, also when nothing is      *)
(* received.  Nothing is assumed of the access point.                      *)
FairSpec == Spec /\ WF_vars(Tick) /\ WF_vars(Sweep)
-----------------------------------------------------------------------------
(* What makes the slot arithmetic right: a buffered frame sits in the slot *)
(* of its number and strictly inside the window, so no two frames of the   *)
(* window share a slot, also across the wrap of the sequence numbers; the  *)
(* head itself is never left buffered; stored counts the occupied slots.   *)
BufferInWindow ==
  /\ head = headN % SNSize \/ ~active
  /\ stored = Cardinality(Occupied(buf))
  /\ \A i \in Occupied(buf) :
       /\ active
       /\ Slot(buf[i]) = i
       /\ headN < buf[i] /\ buf[i] < headN + win

(* While a session lasts, the frames that belong to it are delivered in    *)
(* order and once: each step delivers an increasing run of frames that the *)
(* head had not passed, and passes them.                                   *)
DeliversInOrder ==
  [][active =>
       \A i \in DOMAIN out' : out'[i] # None /\ out'[i] >= ssn =>
         /\ headN <= out'[i]
         /\ active' /\ ssn' = ssn => out'[i] < headN'
         /\ \A j \in DOMAIN out' : i < j /\ out'[j] # None => out'[i] < out'[j]]_vars

HandsUp(n) == \E j \in DOMAIN out' : out'[j] = n

(* A buffered frame leaves the window only by being delivered: a slide, a  *)
(* hole timeout, a DELBA and a repeated ADDBA lose nothing.  What stopData *)
(* throws away with the link, through its call of reorderFreeAll, is       *)
(* excepted: that it is called only there is read off the code.            *)
NothingIsLost ==
  [][~reorderFreeAll =>
       \A i \in Occupied(buf) : HandsUp(buf[i]) \/ buf'[i] = buf[i]]_vars

(* An arriving frame slides the window only past frames that the access    *)
(* point has given up: none that is still in flight becomes stale.         *)
SlideKeepsInFlight ==
  [][\A n \in Frames : Arrive(n) =>
       \A m \in headN .. headN' - 1 : HandsUp(m) \/ m < base \/ m < ssn]_vars

(* No buffered frame waits for ever behind a hole, even if the access      *)
(* point falls silent.                                                     *)
HolesTimeOut ==
  \A n \in Frames : (\E i \in Slots : buf[i] = n) ~> (\A i \in Slots : buf[i] # n)
=============================================================================

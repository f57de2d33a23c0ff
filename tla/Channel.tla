------------------------------ MODULE Channel -------------------------------
(***************************************************************************)
(* set_channel (core/channel.c), with its snapshot of the CCK transmit     *)
(* filter that outlives the bring-ups, and coex_wifi_antenna (core/coex.c),*)
(* which reads, modifies and writes the antenna grants through a mailbox   *)
(* that may not be ready.                                                  *)
(***************************************************************************)
EXTENDS Integers, Sequences

VARIABLES
  chip,      \* the power state of the chip (Power)
  bb,        \* the state of the base band (Phy)
  filter,    \* REG_TXSF2, TXSF6, TXFILTER: "table", "ch14", "zero", "ones"
  tuned,     \* RF register 0x18: the channel, 0 after the table load
  g_ch_param, g_ch_param_valid,
  gnt,       \* the grant fields of LTE_COEX_CTRL: [wlbb, wlrf, btbb, btrf]
  cxPc       \* the next field to set; 5: done

chanVars == <<filter, tuned, g_ch_param, g_ch_param_valid>>
coexVars == <<gnt, cxPc>>

Implausible == {"zero", "ones"}
NoGrant == [wlbb |-> "pta", wlrf |-> "pta", btbb |-> "pta", btrf |-> "pta"]

\* What the filter registers read: a base band in reset or without power reads zero.
Live == CASE chip = "dead" -> "ones"
          [] chip = "act" /\ bb = "loaded" -> filter
          [] OTHER -> "zero"

ChannelInit ==
  /\ filter = "zero" /\ tuned = 0 /\ g_ch_param = "zero" /\ g_ch_param_valid = 0
  /\ gnt = NoGrant /\ cxPc = 5

\* Mutant: the filter is read again on every call.
Snapshot_Every == g_ch_param' = Live /\ g_ch_param_valid' = g_ch_param_valid

(* The snapshot is taken once, when the registers read something           *)
(* plausible; before that each call uses what it reads.                    *)
Snapshot ==
  IF g_ch_param_valid = 1 THEN UNCHANGED <<g_ch_param, g_ch_param_valid>>
  ELSE /\ g_ch_param' = Live
       /\ g_ch_param_valid' = IF Live \in Implausible THEN 0 ELSE 1

(* set_channel: the filter by band; the switches of the front end are      *)
(* data, and 80 MHz is refused before.                                     *)
set_channel(c) ==
  /\ Snapshot
  /\ IF chip = "act" /\ bb = "loaded"
     THEN /\ filter' = CASE c = 14 -> "ch14"
                         [] c < 14 -> g_ch_param'
                         [] OTHER  -> filter
          /\ tuned' = c
     ELSE UNCHANGED <<filter, tuned>>

(* The table load brings the filter's defaults back.                       *)
ChannelLoaded ==
  IF chip = "act" THEN /\ filter' = "table" /\ tuned' = 0
                       /\ UNCHANGED <<g_ch_param, g_ch_param_valid>>
                  ELSE UNCHANGED chanVars

(* BB and RF off, and power that comes or goes.                            *)
ChannelOff == filter' = "zero" /\ tuned' = 0 /\ UNCHANGED <<g_ch_param, g_ch_param_valid>>
ChannelReset == ChannelOff /\ gnt' = NoGrant /\ UNCHANGED cxPc
-----------------------------------------------------------------------------
Fields == <<"wlbb", "wlrf", "btbb", "btrf">>
Wanted == <<"high", "high", "pta", "pta">>

\* Mutant: a read that failed goes on with 0.
Indirect_Zero(i, ready) ==
  gnt' = [IF ready = 1 THEN gnt ELSE NoGrant EXCEPT ![Fields[i]] = Wanted[i]]

(* indirect_write: a field is set only on top of what was read.            *)
indirect_write(i, ready) ==
  gnt' = IF ready = 1 THEN [gnt EXCEPT ![Fields[i]] = Wanted[i]] ELSE gnt

(* coex_wifi_antenna, field by field; the mailbox may not be ready.        *)
coex_wifi_antenna ==
  /\ cxPc \in 1 .. 4 /\ cxPc' = cxPc + 1
  /\ \E ready \in {0, 1} :
       /\ ready = 1 => chip = "act"
       /\ indirect_write(cxPc, ready)
-----------------------------------------------------------------------------
(* On channels 1 to 13 the transmit filter is the one of the BB table,     *)
(* whatever was tuned or failed before: a tune of channel 14, a scan on a  *)
(* chip that did not come up, in this bring-up or in an earlier one.       *)
FilterIsTable ==
  chip = "act" /\ bb = "loaded" /\ tuned \in 1 .. 13 => filter = "table"
=============================================================================

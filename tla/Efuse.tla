------------------------------- MODULE Efuse --------------------------------
(***************************************************************************)
(* efuse_read (core/efuse.c): the physical map is read byte by byte and    *)
(* decoded, run by run, into the logical map the fields are taken from.    *)
(* A run is a header of one or two bytes, which names a block of four      *)
(* words and which of them follow, and these words.  A word programmed     *)
(* again later in the map replaces the earlier value.                      *)
(***************************************************************************)
EXTENDS Integers, Sequences, FiniteSets

CONSTANTS
  PhySize, PtctSize, LogSize,   \* phy_efuse_size, ptct_efuse_size, log_efuse_size
  RfeOffset,                    \* EF_OFF_RFE_OPTION
  Maps                          \* the physical maps a chip may hold

VARIABLES
  chip,      \* the power state of the chip (Power)
  efPc,      \* "idle", "dump", "done"
  phy_map,   \* the physical map as read
  log_map,   \* the logical map
  efRet,     \* 0, or 1 for any error
  rfe        \* efuse.rfe_option

efuseVars == <<efPc, phy_map, log_map, efRet, rfe>>

Erased == 255
Blank == [i \in 0 .. LogSize - 1 |-> Erased]
NoMap == <<>>
Limit == PhySize - PtctSize
-----------------------------------------------------------------------------
(* Headers.                                                                *)
TwoBytes(h1) == h1 % 32 = 15
invalid_efuse_header(h1, h2) == h1 = Erased \/ (TwoBytes(h1) /\ h2 = Erased)
HdrLen(h1) == IF TwoBytes(h1) THEN 2 ELSE 1
blk_idx(h1, h2) == IF TwoBytes(h1) THEN (h2 \div 16) * 8 + h1 \div 32 ELSE h1 \div 16
word_en(h1, h2) == IF TwoBytes(h1) THEN h2 % 16 ELSE h1 % 16

\* A clear bit of word_en: the word follows.
Present(en, i) == (en \div 2 ^ i) % 2 = 0
block_idx_to_logical_idx(blk, i) == blk * 8 + i * 2

(* One word of a run: st is [phy, log, err].  An index outside of a map    *)
(* is an error to TLC.                                                     *)
Word(m, st, blk, en, i) ==
  LET li == block_idx_to_logical_idx(blk, i) IN
  IF st.err = 1 \/ ~Present(en, i) THEN st
  ELSE IF st.phy + 1 > Limit \/ li + 1 > LogSize THEN [st EXCEPT !.err = 1]
  ELSE [st EXCEPT !.log = [@ EXCEPT ![li] = m[st.phy], ![li + 1] = m[st.phy + 1]],
                  !.phy = @ + 2]

\* Mutant: the second header byte is not skipped.
Run_OneByte(m, st) ==
  LET h1 == m[st.phy]   h2 == m[st.phy + 1]
      w[i \in 0 .. 4] ==
        IF i = 0 THEN [st EXCEPT !.phy = @ + 1]
        ELSE Word(m, w[i - 1], blk_idx(h1, h2), word_en(h1, h2), i - 1)
  IN w[4]

(* One run: the header and its four words.                                 *)
Run(m, st) ==
  LET h1 == m[st.phy]   h2 == m[st.phy + 1]
      w[i \in 0 .. 4] ==
        IF i = 0 THEN [st EXCEPT !.phy = @ + HdrLen(h1)]
        ELSE Word(m, w[i - 1], blk_idx(h1, h2), word_en(h1, h2), i - 1)
  IN w[4]

(* One round of the loop: it ends on an error, at the end of the map and   *)
(* on an erased header.                                                    *)
NextRun(m, st) ==
  IF st.err = 1 \/ st.phy >= Limit \/ invalid_efuse_header(m[st.phy], m[st.phy + 1])
    THEN st ELSE Run(m, st)

(* dump_logical_efuse_map: at most Limit runs.                             *)
dump_logical_efuse_map(m) ==
  LET d[n \in 0 .. Limit] ==
        IF n = 0 THEN [phy |-> 0, log |-> Blank, err |-> 0] ELSE NextRun(m, d[n - 1])
  IN d[Limit]
-----------------------------------------------------------------------------
EfuseInit == efPc = "idle" /\ phy_map = NoMap /\ log_map = NoMap /\ efRet = 0 /\ rfe = 0

(* dump_physical_efuse_map: a chip that is gone answers every byte at once *)
(* with ones; one that is off does not answer.                             *)
dump_physical_efuse_map ==
  CASE chip = "act"  -> Maps
    [] chip = "dead" -> {[i \in 0 .. PhySize - 1 |-> Erased]}
    [] OTHER         -> {}

(* The dump, the decoding, and the field the radio depends on; or no       *)
(* memory for the maps, or no answer to a byte.                            *)
efuse_read ==
  /\ efPc = "dump" /\ efPc' = "done"
  /\ \/ \E m \in dump_physical_efuse_map :
          LET d == dump_logical_efuse_map(m) IN
          /\ phy_map' = m /\ log_map' = d.log /\ efRet' = d.err
          /\ rfe' = IF d.err = 1 THEN rfe ELSE d.log[RfeOffset] % 32
     \/ efRet' = 1 /\ UNCHANGED <<phy_map, log_map, rfe>>

(* A zeroed rtw_dev.                                                       *)
EfuseBegin == efPc' = "dump" /\ efRet' = 0 /\ rfe' = 0 /\ UNCHANGED <<phy_map, log_map>>

(* The maps are freed.                                                     *)
EfuseFree == efPc' = "idle" /\ phy_map' = NoMap /\ log_map' = NoMap /\ efRet' = 0 /\ UNCHANGED rfe
-----------------------------------------------------------------------------
(* What the map means, without decoding it step by step: of the positions  *)
(* that could be a header, the headers are the least set that holds 0 and, *)
(* with a header, the position after its run.                              *)
Words(m, p) == {i \in 0 .. 3 : Present(word_en(m[p], m[p + 1]), i)}
RunEnd(m, p) == p + HdrLen(m[p]) + 2 * Cardinality(Words(m, p))
Headers(m) ==
  LET V == {p \in 0 .. Limit - 1 : ~invalid_efuse_header(m[p], m[p + 1])}
      next == [p \in V |-> RunEnd(m, p)]
      Closed(S) == \A q \in {0} \cup {next[p] : p \in S} : q \in V => q \in S
  IN {p \in V : \A S \in SUBSET V : Closed(S) => p \in S}

\* Where word i of the run at p lies, and where it goes.
DataAt(m, p, i) == p + HdrLen(m[p]) + 2 * Cardinality({j \in Words(m, p) : j < i})
Target(m, p, i) == 8 * blk_idx(m[p], m[p + 1]) + 2 * i
Placed(m) == UNION {{[from |-> DataAt(m, p, i), to |-> Target(m, p, i)] : i \in Words(m, p)} : p \in Headers(m)}
\* Both bytes of a word lie below the protected part, and inside the logical map.
Fits(w) == w.from + 1 < Limit /\ w.to + 1 < LogSize

\* A word whose second byte is the first protected one: the guard lets it pass.
Straddles(w) == w.from + 1 = Limit /\ w.to + 1 < LogSize

(* The decoded map gives every byte the value of the last run that         *)
(* programs it and 0xff where none does: short headers, long ones, absent  *)
(* words and overwritten blocks alike.  A read of words that all fit       *)
(* succeeds.  A read fails when a word lies further out, but not when only *)
(* its second byte is protected: `phy_idx + 1 > physical_size -            *)
(* protect_size` asks for one byte and two are copied, so a decoded map    *)
(* may hold the first protected byte and none after it.                    *)
EfuseDecodes ==
  efPc = "done" /\ phy_map # NoMap =>
    LET W == Placed(phy_map)
        last == {w \in W : \A v \in W : v.to = w.to => v.from <= w.from}
    IN /\ efRet = 0 <=> \A w \in W : Fits(w) \/ Straddles(w)
       /\ efRet = 0 => log_map = [k \in 0 .. LogSize - 1 |->
            IF \E w \in last : w.to = k - (k % 2)
              THEN phy_map[(CHOOSE w \in last : w.to = k - (k % 2)).from + (k % 2)]
              ELSE Erased]
=============================================================================

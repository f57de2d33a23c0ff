-------------------------------- MODULE Phy ---------------------------------
(***************************************************************************)
(* phy_set_param (core/phy.c): the base band comes out of reset, and the   *)
(* conditional tables of rtw8821c_table.c (PhyTables) are loaded by the    *)
(* phy_cond engine.                                                        *)
(***************************************************************************)
EXTENDS PhyTables

VARIABLES
  chip,      \* the power state of the chip (Power)
  rfe,       \* efuse.rfe_option (Efuse)
  bb,        \* "reset", or "loaded": out of reset and with its table
  phy_cond,  \* hal.phy_cond: what the conditions are compared with
  applied    \* applied[t]: the branch applied of each block of table t

phyVars == <<bb, phy_cond, applied>>

-----------------------------------------------------------------------------
(* The entries of a block as the file has them: per condition a positive   *)
(* entry, with the condition, a negative one, where it is tested, and the  *)
(* settings; at the end ELSE with its settings and ENDIF.                  *)
Entry(k, br, c) == [k |-> k, br |-> br, cond |-> c]
None == Cond(0, 0, 0, 0)
Branch(b, i) ==
  IF i <= Len(b.conds)
    THEN <<Entry(IF i = 1 THEN "if" ELSE "elif", i, b.conds[i]), Entry("neg", i, None), Entry("cfg", i, None)>>
    ELSE <<Entry("else", i, None), Entry("cfg", i, None), Entry("endif", i, None)>>
Entries(b) ==
  LET n == Len(b.conds) IN
  IF n = 0 THEN <<Entry("cfg", 1, None)>>
  ELSE [k \in 1 .. 3 * (n + 1) |-> Branch(b, (k + 2) \div 3)[1 + ((k + 2) % 3)]]
-----------------------------------------------------------------------------
(* rtw_phy_setup_phy_cond: neither the cut nor the package of the chip is  *)
(* known to the tables (kdev_init zeroes both, the cut is read later).     *)
rtw_phy_setup_phy_cond == Cond(15, 15, 1, rfe)

check_positive(c, drv) ==
  /\ c.cut \in {0, drv.cut} /\ c.pkg \in {0, drv.pkg} /\ c.intf \in {0, drv.intf}
  /\ c.rfe = drv.rfe

\* Mutant: the ELSE is taken after a branch that was, and not otherwise.
ElseMatches_Inverted(st) == st.skipped

ElseMatches(st) == 1 - st.skipped

(* One entry through rtw_parse_tbl_phy_cond; is_matched and is_skipped are *)
(* 0 or 1.                                                                 *)
ParseEntry(st, e, drv) ==
  CASE e.k = "endif" -> [st EXCEPT !.matched = 1, !.skipped = 0]
    [] e.k = "else"  -> [st EXCEPT !.matched = ElseMatches(st)]
    [] e.k \in {"if", "elif"} -> [st EXCEPT !.pos = e.cond]
    [] e.k = "neg"   -> IF st.skipped = 1 THEN [st EXCEPT !.matched = 0]
                        ELSE LET p == IF check_positive(st.pos, drv) THEN 1 ELSE 0
                             IN [st EXCEPT !.matched = p, !.skipped = p]
    [] e.k = "cfg"   -> IF st.matched = 1 THEN [st EXCEPT !.done = Append(@, e.br)] ELSE st

(* A block takes the flags it is entered with to those it is left with;    *)
(* done collects the branches that were applied.                           *)
ParseBlock(b, drv) ==
  LET es == Entries(b) IN
  [m \in {0, 1} |-> [s \in {0, 1} |->
     LET r[i \in 0 .. Len(es)] ==
           IF i = 0 THEN [matched |-> m, skipped |-> s, pos |-> None, done |-> <<>>]
           ELSE ParseEntry(r[i - 1], es[i], drv)
     IN r[Len(es)]]]

(* One block of a table: its branches and the number of settings.          *)
NextBlock(st, b, drv) ==
  LET r == ParseBlock(b, drv)[st.matched][st.skipped] IN
  [matched |-> r.matched, skipped |-> r.skipped,
   all |-> Append(st.all, r.done), n |-> st.n + Len(r.done) * b.n]

(* rtw_parse_tbl_phy_cond on table t.                                      *)
rtw_parse_tbl_phy_cond(t, drv) ==
  LET b[i \in 0 .. Len(t)] ==
        IF i = 0 THEN [matched |-> 1, skipped |-> 0, all |-> <<>>, n |-> 0]
        ELSE NextBlock(b[i - 1], t[i], drv)
  IN b[Len(t)]

(* The tables phy_set_param loads: the BTG gain table for RFE 2 and 4.     *)
Loaded(r) == [mac |-> rtw8821c_mac, bb |-> rtw8821c_bb, agc |-> rtw8821c_agc,
              agcB |-> IF r \in {2, 4} THEN rtw8821c_agc_btg_type2 ELSE <<>>, rf |-> rtw8821c_rf_a]
NotLoaded == [t \in {"mac", "bb", "agc", "agcB", "rf"} |-> <<>>]

PhyInit ==
  /\ bb = "reset" /\ phy_cond = None
  /\ applied = NotLoaded

(* phy_set_param always runs to its end.  ok, its result: it fails when a  *)
(* table came out short or when the RF, read through a chip that may be    *)
(* gone, does not answer.                                                  *)
phy_set_param(ok) ==
  LET p == [t \in DOMAIN NotLoaded |-> rtw_parse_tbl_phy_cond(Loaded(rfe)[t], rtw_phy_setup_phy_cond)] IN
  /\ ok => chip = "act" /\ p["bb"].n > 100 /\ p["agc"].n + p["agcB"].n > 100 /\ p["rf"].n > 100
  /\ phy_cond' = rtw_phy_setup_phy_cond
  /\ applied' = [t \in DOMAIN p |-> p[t].all]
  /\ bb' = IF chip = "act" THEN "loaded" ELSE bb

(* BB and RF off: rtw_mac_pre_system_cfg on a chip that is up, or a        *)
(* power-up.                                                               *)
PhyReset == bb' = "reset" /\ UNCHANGED <<phy_cond, applied>>
-----------------------------------------------------------------------------
(* Every block of every table is applied once: the first branch whose      *)
(* condition holds of this chip, or else the ELSE.  A block skipped or     *)
(* applied twice leaves the radio with the gains of another module.        *)
FirstBranch(b) ==
  LET ok == {i \in 1 .. Len(b.conds) : check_positive(b.conds[i], phy_cond)} IN
  IF ok = {} THEN Len(b.conds) + 1 ELSE CHOOSE i \in ok : \A j \in ok : i <= j

TablesOneVersion ==
  bb = "loaded" =>
    LET tbl == Loaded(phy_cond.rfe) IN
    \A t \in DOMAIN tbl : applied[t] = [i \in 1 .. Len(tbl[t]) |-> <<FirstBranch(tbl[t][i])>>]
=============================================================================

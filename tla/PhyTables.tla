------------------------------ MODULE PhyTables ------------------------------
(***************************************************************************)
(* The structure of the radio tables of core/upstream/rtw8821c_table.c,    *)
(* block by block in the order of the file: how many register settings,    *)
(* plain or in which branch of which condition.  The settings themselves   *)
(* are data.                                                               *)
(***************************************************************************)
EXTENDS Integers, Sequences

(* A block is a sequence of branches, of the same length n, each with its  *)
(* condition (0: any); the last is the ELSE.  A plain run of settings is a *)
(* block with an ELSE only.                                                *)
Cond(cut, pkg, intf, r) == [cut |-> cut, pkg |-> pkg, intf |-> intf, rfe |-> r]
Block(conds, n) == [conds |-> conds, n |-> n]
Plain(n) == Block(<<>>, n)

(* The conditions of the gain tables and of the RF table.                  *)
Rfe45 == <<Cond(0, 1, 0, 4), Cond(0, 1, 0, 5)>>
Rfe54 == <<Cond(0, 1, 0, 5), Cond(0, 1, 0, 4), Cond(0, 0, 4, 0)>>
Split(sizes) == [i \in DOMAIN sizes |-> Block(Rfe54, sizes[i])]

(* MAC; gain control, by gain range; BB, by register page; RF.             *)
rtw8821c_mac == <<Plain(138)>>

agc_1 == Block(Rfe45, 64)
agc_2 == Block(Rfe45, 64)
agc_3 == Block(Rfe45, 64)
agc_4 == Block(Rfe45, 64)
agc_5 == Block(Rfe45, 64)
agc_6 == Block(Rfe45, 64)
agc_7 == Block(Rfe45, 2)
rtw8821c_agc == <<agc_1, agc_2, agc_3, agc_4, agc_5, agc_6, agc_7>>
rtw8821c_agc_btg_type2 == <<Block(Rfe45, 128)>>

bb_800 == Plain(51)
bb_8cc == Block(<<Cond(2, 0, 4, 0)>>, 1)
bb_8d0 == Plain(76)
bb_a00 == Plain(65)
bb_c00 == Plain(41)
bb_cb0 == Block(<<Cond(0, 1, 0, 5)>>, 2)
bb_cb8 == Plain(14)
bb_e00 == Plain(57)
bb_1900 == Plain(64)
bb_1c00 == Plain(64)
bb_c60 == Plain(52)
bb_1b00 == Plain(48)
bb_1bdc == Plain(162)
bb_1b80 == Plain(972)
rtw8821c_bb == <<bb_800, bb_8cc, bb_8d0, bb_a00, bb_c00, bb_cb0, bb_cb8, bb_e00,
                 bb_1900, bb_1c00, bb_c60, bb_1b00, bb_1bdc, bb_1b80>>

rf_1 == Split(<<2, 7, 4, 4>>)
rf_2 == Split(<<33>>)
rf_3 == Split(<<4, 9, 1, 1>>)
rf_4 == Split(<<24>>)
rf_5 == Split(<<24>>)
rf_6 == Split(<<25, 8>>)
rf_7 == Split(<<6>>)
rf_8 == Split(<<34>>)
rf_9 == Split(<<40>>)
rf_10 == Split(<<5, 19, 2>>) \o <<Plain(1)>> \o Split(<<2>>) \o <<Plain(1)>> \o Split(<<1>>)
rf_11 == Split(<<1>>) \o <<Plain(6)>> \o Split(<<1, 1, 3>>)
rf_12 == Split(<<26>>)
rf_13 == Split(<<40>>)
rf_14 == Split(<<8, 1, 22>>)
rf_15 == Split(<<22>>)
rf_16 == Split(<<23, 10>>)
rf_17 == Split(<<10, 18>>)
rf_18 == Split(<<9, 24>>)
rf_19 == Split(<<10, 10>>)
rf_20 == Split(<<18, 9>>)
rf_21 == Split(<<24, 6>>)
rf_22 == Split(<<5, 5, 5, 4, 4, 4>>)
rtw8821c_rf_a == rf_1 \o rf_2 \o rf_3 \o rf_4 \o rf_5 \o rf_6 \o rf_7 \o rf_8 \o rf_9 \o rf_10 \o rf_11
                 \o rf_12 \o rf_13 \o rf_14 \o rf_15 \o rf_16 \o rf_17 \o rf_18 \o rf_19 \o rf_20 \o rf_21 \o rf_22
=============================================================================

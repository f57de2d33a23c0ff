----------------------------- MODULE MC_Bringup ------------------------------
(* Sections that end in a short chunk, in a whole one and of a single short *)
(* chunk.  Efuse maps of two runs, cut off or padded to eight bytes, the    *)
(* last of them protected; the runs are:                                    *)
EXTENDS Bringup

Sizes == <<3, 2, 1>>

First ==
  {<<14, 7, 8>>,               \* block 0, word 0
   <<28, 1, 2, 255, 3>>,       \* block 1, words 0 and 1, RFE among them
   <<47, 13, 4, 9>>,           \* a long header, block 1, word 1: RFE 4; twice: the second straddles
   <<47, 29, 5, 6>>,           \* a long header, block 9: outside of the logical map
   <<47, 15>>,                 \* a long header without words
   <<47, 255>>}                \* an erased long header
Second ==
  {<<28, 1, 2, 255, 3>>, <<47, 13, 4, 9>>,
   <<4, 5>>,                   \* block 0, words 0, 1 and 3: may not fit
   <<255>>}
Padded(s) == [i \in 0 .. 7 |-> IF i < Len(s) THEN s[i + 1] ELSE 255]
AllMaps == {Padded(r \o s) : r \in First, s \in Second}
=============================================================================

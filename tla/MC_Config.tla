------------------------------ MODULE MC_Config ------------------------------
(* Bounded instances of Config: every name comes with white space at its   *)
(* end as well as without.                                                 *)
EXTENDS Config

Names == {"home", "home_", "cafe"}
Keys == {"key1", "key2"}
StripEnd == [v \in Names \cup Keys |-> IF v = "home_" THEN "home" ELSE v]
=============================================================================

------------------------------ MODULE MC_RxRing ------------------------------
(* Three access points on two channels, the first two with the same SSID,   *)
(* the third hidden.                                                        *)
EXTENDS RxRing, TLC

CONSTANTS a1, a2, a3, home

MC_AP == {a1, a2, a3}
MC_SsidOf == (a1 :> home) @@ (a2 :> home) @@ (a3 :> Hidden)

(* The channels overlap for the second one.                                 *)
MC_Hears == {<<a1, 1>>, <<a2, 1>>, <<a2, 2>>, <<a3, 2>>}

(* A scan visits both, in this order.                                       *)
MC_Requests == {<<1, 2>>}
=============================================================================

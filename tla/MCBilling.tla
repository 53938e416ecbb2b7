------------------------------- MODULE MCBilling -------------------------------
(***************************************************************************)
(* Two instances with an income each, one income billed at first;      *)
(* or the second income is free.                                           *)
(***************************************************************************)
EXTENDS BillingProperties, TLC

CONSTANTS i1, i2, v1, v2, p1, p2, n1, n2, t1, t2

mcInstanceOf == i1 :> n1 @@ i2 :> n2
mcFree       == i1 :> n1 @@ i2 :> i2
mcExisting   == v1 :> {i1} @@ v2 :> {}
mcNone       == v1 :> {} @@ v2 :> {}
=============================================================================

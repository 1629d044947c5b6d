----------------------------- MODULE MCTakeover -----------------------------
(* Reader processes p1 and p2, started by people or by the supervisor s1.   *)
EXTENDS Takeover
=============================================================================

----------------------------- MODULE MCCardRead -----------------------------
(* The four cards of MCCards, one reader, any number of calls.             *)
EXTENDS CardRead, MCCards
=============================================================================

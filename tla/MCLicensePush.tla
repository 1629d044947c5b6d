--------------------------- MODULE MCLicensePush ----------------------------
(* Two calls of clients, which are alike, and queries with and without      *)
(* filter, limit and end.                                                   *)
EXTENDS LicensePush, TLC

MCSymmetry == Permutations(Call)
MCUnimplemented == LicenseUnimplemented(Own)
MCQueries ==
  {[NoQuery EXCEPT !.tag = "INFO"],
   [NoQuery EXCEPT !.table = "read_history", !.reader = "r1", !.start = 1],
   [NoQuery EXCEPT !.limit = 1],
   [NoQuery EXCEPT !.end = 1]}

(* Of the servers with a logger, whose tables make most of the states, one  *)
(* per stack, one of them with a callback; without a logger, all of them.   *)
MCInit ==
  Init /\ (hasLogger => cstack = sstack /\ (hasCallback <=> sstack = "connect"))
MCSpec == MCInit /\ [][Next]_vars
=============================================================================

---------------------------- MODULE ReadCardSpec ----------------------------
(***************************************************************************)
(* What a caller of LicenseReader.ReadCard may rely on.  A call looks at   *)
(* ONE card, the one in the slot when the call connects, whatever is put   *)
(* there or taken away before it returns, and what it returns is an error  *)
(* or data of that card.  CardRead implements this; CardMonitor uses it.   *)
(***************************************************************************)
EXTENDS Cards

VARIABLES
  slot,     \* the card in the reader, or NoCard
  busy,     \* a call is running
  held,     \* the card the running call looks at, or NoCard
  result    \* what the last call returned

vars == <<slot, busy, held, result>>

Init ==
  /\ slot \in Card \cup {NoCard}
  /\ busy = FALSE
  /\ held = NoCard
  /\ result = ReadError

Insert(c) ==
  /\ slot = NoCard
  /\ slot' = c
  /\ UNCHANGED <<busy, held, result>>

Remove ==
  /\ slot # NoCard
  /\ slot' = NoCard
  /\ UNCHANGED <<busy, held, result>>

(* The call connects to the card in the slot, or returns an error at once.  *)
Begin ==
  /\ ~busy
  /\ slot # NoCard
  /\ busy' = TRUE
  /\ held' = slot
  /\ UNCHANGED <<slot, result>>

Refuse ==
  /\ ~busy
  /\ result' = ReadError
  /\ UNCHANGED <<slot, busy, held>>

Finish ==
  /\ busy
  /\ result' \in ReadResults(held)
  /\ busy' = FALSE
  /\ held' = NoCard
  /\ UNCHANGED slot

Next ==
  \/ \E c \in Card : Insert(c)
  \/ Remove
  \/ Begin
  \/ Refuse
  \/ Finish

Spec == Init /\ [][Next]_vars
=============================================================================

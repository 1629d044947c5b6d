-------------------------------- MODULE Taps --------------------------------
(***************************************************************************)
(* What MonitorCards promises the callback about the cards of one reader.  *)
(* A stay of a card on the reader is seen at most once in the life of a    *)
(* process; each stay seen is reported once, and a report without error    *)
(* carries what was read of the card on the reader by then, of which the   *)
(* loop may not have heard yet.  CardMonitor shows how this comes about    *)
(* from snapshots, retries and flags by ATR; ReaderApp builds on it.       *)
(***************************************************************************)
EXTENDS Naturals

CONSTANT MaxVisits    \* bound: stays of a card on the reader

ASSUME TapAssumption == MaxVisits \in Nat

Visit == 1 .. MaxVisits

VARIABLES
  visit,    \* the stay of the card on the reader, 0 if there is none
  visits,   \* how many there have been
  seen,     \* the stay to be reported, 0 if none
  told,     \* the stays reported
  data      \* the stay the callback's data is of, 0 if it gets an error

taps == <<visit, visits, seen, told, data>>

TapTypeOK ==
  /\ visit \in 0 .. MaxVisits /\ visits \in 0 .. MaxVisits
  /\ seen \in 0 .. MaxVisits
  /\ told \subseteq Visit
  /\ data \in 0 .. MaxVisits

TapInit == visit = 0 /\ visits = 0 /\ seen = 0 /\ told = {} /\ data = 0

(* People at the reader.                                                    *)
PutCard ==
  /\ visit = 0
  /\ visits < MaxVisits
  /\ visits' = visits + 1
  /\ visit' = visits'
  /\ UNCHANGED <<seen, told, data>>

TakeCard ==
  /\ visit # 0
  /\ visit' = 0
  /\ UNCHANGED <<visits, seen, told, data>>

(* A card is on the reader that has not been reported.                      *)
Look ==
  /\ seen = 0
  /\ visit \notin told \cup {0}
  /\ seen' = visit
  /\ data' = 0
  /\ UNCHANGED <<visit, visits, told>>

(* It is reported, read or not; it may have left, and another come.         *)
Unmarked == told
Marked == told \cup {seen}

Tell(read) ==
  /\ seen # 0
  /\ read => visit # 0
  /\ told' = Marked
  /\ data' = IF read THEN visit ELSE 0
  /\ seen' = 0
  /\ UNCHANGED <<visit, visits>>

(* A process that ends forgets; the next one starts a new life.             *)
Forget ==
  /\ seen' = 0 /\ told' = {} /\ data' = 0
  /\ UNCHANGED <<visit, visits>>

(* One life.                                                                *)
TapNext == PutCard \/ TakeCard \/ Look \/ \E read \in BOOLEAN : Tell(read)

TapSpec == TapInit /\ [][TapNext]_taps
=============================================================================

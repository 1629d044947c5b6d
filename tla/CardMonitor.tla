---------------------------- MODULE CardMonitor ----------------------------
(***************************************************************************)
(* LicenseReader.MonitorCards: one loop that waits for the smart card      *)
(* service, scans the snapshot it got of every reader, reads a card it has *)
(* not processed (up to three times) and calls back with the outcome.      *)
(* People put cards on the readers and take them away between any two      *)
(* steps, so the snapshot the loop works on is often out of date.          *)
(*                                                                         *)
(* A visit is one stay of one card on one reader; visits are numbered in   *)
(* the order the cards arrive.  The code has no such number: it knows a    *)
(* card by its ATR before it is read and by its CardID after.              *)
(***************************************************************************)
EXTENDS Cards, Integers

CONSTANTS
  NumReaders,   \* readers ListReaders returned at the start
  MaxVisits     \* bound: cards put on a reader during a run

ASSUME MonitorAssumption ==
  /\ NumReaders \in Nat \ {0}
  /\ MaxVisits \in Nat

Reader == 1 .. NumReaders
Visit == 1 .. MaxVisits

(* The state of a reader: a visit (SCARD_STATE_PRESENT), Empty              *)
(* (SCARD_STATE_EMPTY) or Gone (neither bit: the reader was unplugged).     *)
Empty == 0
Gone == -1
SlotState == {Gone, Empty} \cup Visit

MaxRetries == 3

VARIABLES
  slot,        \* what is on each reader now
  visits,      \* how many visits there have been
  cardAt,      \* the card of each visit
  ev,          \* EventState and Atr of each reader, as the last wait left them
  cur,         \* CurrentState of each reader: what the next wait compares with
  pc,          \* where the loop is
  i,           \* the reader being scanned
  retry,       \* attempts made on it
  data,        \* what the last attempt returned
  readErr,     \* its error
  success,     \* successRead
  from,        \* the visit data was read from
  processed,   \* cardProcessed: the ATRs not to read again
  lastCardID,  \* CardID of the last card that was read
  told,        \* observed: callbacks made for each visit
  recorded     \* observed: callbacks without error that carried its data

world == <<slot, visits, cardAt>>
attempt == <<retry, data, readErr, success, from>>
memory == <<processed, lastCardID>>
calls == <<told, recorded>>
vars == <<world, ev, cur, pc, i, attempt, memory, calls>>

PCs == {"wait", "backoff", "scan", "read", "retryCheck", "report"}

(* Bound: the observations stop counting here, past what any property asks. *)
CountCap == 3
Count(n) == IF n < CountCap THEN n + 1 ELSE n

TypeOK ==
  /\ slot \in [Reader -> SlotState]
  /\ visits \in 0 .. MaxVisits
  /\ cardAt \in [Visit -> Card \cup {NoCard}]
  /\ ev \in [Reader -> SlotState]
  /\ cur \in [Reader -> SlotState]
  /\ pc \in PCs
  /\ i \in Reader
  /\ retry \in 0 .. MaxRetries
  /\ data \in LicenseData \cup {NoData}
  /\ readErr \in BOOLEAN
  /\ success \in BOOLEAN
  /\ from \in 0 .. MaxVisits
  /\ processed \subseteq Atr
  /\ lastCardID \in Text
  /\ told \in [Visit -> 0 .. CountCap]
  /\ recorded \in [Visit -> 0 .. CountCap]

Init ==
  /\ slot \in [Reader -> {Gone, Empty}]
  /\ visits = 0
  /\ cardAt = [v \in Visit |-> NoCard]
  /\ ev = [r \in Reader |-> Gone]
  /\ cur = [r \in Reader |-> Gone]          \* SCARD_STATE_UNAWARE
  /\ pc = "wait"
  /\ i = 1
  /\ retry = 0
  /\ data = NoData
  /\ readErr = FALSE
  /\ success = FALSE
  /\ from = 0
  /\ processed = {}
  /\ lastCardID = NoText
  /\ told = [v \in Visit |-> 0]
  /\ recorded = [v \in Visit |-> 0]

-----------------------------------------------------------------------------
(* The people at the readers.                                              *)

Insert(r, c) ==
  /\ slot[r] = Empty
  /\ visits < MaxVisits
  /\ visits' = visits + 1
  /\ cardAt' = [cardAt EXCEPT ![visits + 1] = c]
  /\ slot' = [slot EXCEPT ![r] = visits + 1]
  /\ UNCHANGED <<ev, cur, pc, i, attempt, memory, calls>>

Remove(r) ==
  /\ slot[r] \in Visit
  /\ slot' = [slot EXCEPT ![r] = Empty]
  /\ UNCHANGED <<visits, cardAt, ev, cur, pc, i, attempt, memory, calls>>

Unplug(r) ==
  /\ slot[r] # Gone
  /\ slot' = [slot EXCEPT ![r] = Gone]
  /\ UNCHANGED <<visits, cardAt, ev, cur, pc, i, attempt, memory, calls>>

Replug(r) ==
  /\ slot[r] = Gone
  /\ slot' = [slot EXCEPT ![r] = Empty]
  /\ UNCHANGED <<visits, cardAt, ev, cur, pc, i, attempt, memory, calls>>

People ==
  \E r \in Reader :
    \/ \E c \in Card : Insert(r, c)
    \/ Remove(r)
    \/ Unplug(r)
    \/ Replug(r)

-----------------------------------------------------------------------------
(* The loop.                                                                *)

(* WaitForCardChangeWithStates returns at once when a reader differs from   *)
(* cur, after a second otherwise; a timeout is no error.  Either way ev is  *)
(* what the readers are at that moment.                                     *)
WaitReturns ==
  /\ pc = "wait"
  /\ ev' = slot
  /\ pc' = "scan"
  /\ i' = 1
  /\ UNCHANGED <<world, cur, attempt, memory, calls>>

WaitFails ==
  /\ pc = "wait"
  /\ pc' = "backoff"
  /\ UNCHANGED <<world, ev, cur, i, attempt, memory, calls>>

BackOff ==
  /\ pc = "backoff"
  /\ pc' = "wait"
  /\ UNCHANGED <<world, ev, cur, i, attempt, memory, calls>>

(* On to the next reader of the snapshot, or back to waiting.               *)
NextReader ==
  IF i < NumReaders THEN pc' = "scan" /\ i' = i + 1
                    ELSE pc' = "wait" /\ i' = i

SeenAtr == AtrOf[cardAt[ev[i]]]

(* A card whose ATR was processed is passed over.                           *)
SkipProcessed ==
  /\ pc = "scan"
  /\ ev[i] \in Visit
  /\ SeenAtr \in processed
  /\ cur' = [cur EXCEPT ![i] = ev[i]]
  /\ NextReader
  /\ UNCHANGED <<world, ev, attempt, memory, calls>>

BeginRead ==
  /\ pc = "scan"
  /\ ev[i] \in Visit
  /\ SeenAtr \notin processed
  /\ pc' = "read"
  /\ retry' = 0
  /\ data' = NoData
  /\ readErr' = FALSE
  /\ success' = FALSE
  /\ from' = 0
  /\ UNCHANGED <<world, ev, cur, i, memory, calls>>

NeverForgets == FALSE

(* The processed flags are forgotten when a reader is seen empty, but only  *)
(* if the last card read gave a CardID.                                     *)
Forget == lastCardID # NoText

SeeEmpty ==
  /\ pc = "scan"
  /\ ev[i] = Empty
  /\ lastCardID' = NoText
  /\ processed' = IF Forget THEN {} ELSE processed
  /\ cur' = [cur EXCEPT ![i] = Empty]
  /\ NextReader
  /\ UNCHANGED <<world, ev, attempt, calls>>

SeeGone ==
  /\ pc = "scan"
  /\ ev[i] = Gone
  /\ NextReader
  /\ UNCHANGED <<world, ev, cur, attempt, memory, calls>>

(* One call of ReadCard.  The card it connects to is the one on the reader  *)
(* now (ReadCardSpec), which need not be the one of the snapshot.           *)
FirstReader == slot[1]
Connected == slot[i]

Outcomes ==
  IF Connected \in Visit THEN ReadResults(cardAt[Connected]) ELSE {ReadError}

(* A licence counts as read only with its expiry date.                      *)
Complete(d) == d.type = "driver_license" => d.expiry # NoText

ReadFrom(res) == IF res.err THEN 0 ELSE Connected

(* The attempt is counted before the loop decides on another.               *)
NotCounted == retry
Tried == retry + 1

OneMore(n) == n <= MaxRetries
AttemptsLeft(n) == n < MaxRetries

ReadCard ==
  /\ pc = "read"
  /\ \E res \in Outcomes :
       /\ data' = res.data
       /\ from' = ReadFrom(res)
       /\ readErr' = res.err
       /\ success' = (~res.err /\ Complete(res.data))
  /\ retry' = Tried
  /\ pc' = IF ~success' /\ AttemptsLeft(retry') THEN "retryCheck" ELSE "report"
  /\ UNCHANGED <<world, ev, cur, i, memory, calls>>

(* After half a second, before another attempt: is there still a card?      *)
RetryCheckFails ==
  /\ pc = "retryCheck"
  /\ pc' = "read"
  /\ UNCHANGED <<world, ev, cur, i, attempt, memory, calls>>

RetryCheckEmpty ==
  /\ pc = "retryCheck"
  /\ slot[i] = Empty
  /\ readErr' = TRUE
  /\ pc' = "report"
  /\ UNCHANGED <<world, ev, cur, i, retry, data, success, from, memory, calls>>

RetryCheckGoesOn ==
  /\ pc = "retryCheck"
  /\ slot[i] # Empty
  /\ cur' = [cur EXCEPT ![i] = slot[i]]
  /\ pc' = "read"
  /\ UNCHANGED <<world, ev, i, attempt, memory, calls>>

AttemptErr == readErr

(* The error the callback gets.                                             *)
CallbackErr == readErr \/ ~success

(* The snapshot's ATR is marked processed whatever came of the attempts,    *)
(* and the callback runs; cur becomes what the snapshot said.               *)
MarkedIfRead == IF success THEN {SeenAtr} ELSE {}
NoneMarked == {}
MarkedNow == IF slot[i] \in Visit THEN {AtrOf[cardAt[slot[i]]]} ELSE {SeenAtr}
Marked == {SeenAtr}

NotAcknowledged == cur[i]
Acknowledged == ev[i]

Report ==
  /\ pc = "report"
  /\ processed' = processed \cup Marked
  /\ lastCardID' = IF data # NoData THEN data.id ELSE lastCardID
  /\ told' = [told EXCEPT ![ev[i]] = Count(@)]
  /\ recorded' = IF CallbackErr THEN recorded
                 ELSE [recorded EXCEPT ![from] = Count(@)]
  /\ cur' = [cur EXCEPT ![i] = Acknowledged]
  /\ NextReader
  /\ UNCHANGED <<world, ev, attempt>>

Scan == SkipProcessed \/ BeginRead \/ SeeEmpty \/ SeeGone
RetryCheck == RetryCheckFails \/ RetryCheckEmpty \/ RetryCheckGoesOn
Loop == WaitReturns \/ WaitFails \/ BackOff \/ Scan \/ ReadCard \/ RetryCheck \/ Report

Next == People \/ Loop

Spec == Init /\ [][Next]_vars

(* The loop never stops running, and the smart card service does not answer *)
(* every wait with an error from some point on.                             *)
Fairness == WF_vars(Loop) /\ SF_vars(WaitReturns)
FairSpec == Spec /\ Fairness

-----------------------------------------------------------------------------
(* Safety.                                                                  *)

(* A card that stays on the reader is reported once, however often the loop *)
(* wakes and whatever the attempts return.  One reader keeps this promise;  *)
(* with two, an empty one forgets what the other has processed.             *)
TapIsToldOnce == \A v \in Visit : told[v] <= 1

(* The data of a card is recorded at most twice, and twice only when it     *)
(* took the place of another between the snapshot and an attempt: once in   *)
(* the other's stead, once for itself.                                      *)
RecordedAtMostTwice == \A v \in Visit : recorded[v] <= 2

(* The loop passes over a card because of its ATR: some card that answers   *)
(* that ATR was reported, the flag is never set for another one's.          *)
ProcessedWasTold ==
  \A a \in processed : \E v \in Visit : told[v] >= 1 /\ AtrOf[cardAt[v]] = a

(* A report raises the flag of the card it is of, which was down; and flags  *)
(* come down only all together, where some reader was seen empty and the     *)
(* last card read had a CardID.  So a card is reported again only after      *)
(* that, with any number of readers and whatever was put in its place while  *)
(* it was read.                                                              *)
ReportRaisesFlag ==
  [][/\ \A v \in Visit :
          told'[v] # told[v] => AtrOf[cardAt[v]] \in processed' \ processed
     /\ processed \subseteq processed'
        \/ /\ processed' = {} /\ lastCardID # NoText
           /\ \E r \in Reader : ev[r] = Empty]_vars

(* An attempt can return the data of a card that came after the one that    *)
(* was seen, never of one that had left before it came: neither an earlier  *)
(* attempt's nor another reader's.                                          *)
DataIsFresh ==
  pc \in {"retryCheck", "report"} /\ data # NoData =>
    from \in Visit /\ ev[i] <= from /\ from <= visits

(* The callback gets no error only with data, and with the expiry date if   *)
(* it is a licence's: a removal during the retries or three incomplete      *)
(* attempts never pass for a read.                                          *)
NoErrorMeansRead == pc = "report" /\ ~CallbackErr => data # NoData /\ Complete(data)

(* While the loop waits, what it last compared with is what it last acted   *)
(* on: a card that came or went during the read makes the wait return at    *)
(* once, and a reader nobody touched does not (unless it was unplugged).    *)
WaitsForNews ==
  pc \in {"wait", "backoff"} =>
    \A r \in Reader : ev[r] # Gone => cur[r] = ev[r]

-----------------------------------------------------------------------------
(* What one reader's loop promises the callback (Taps).  A stay is seen     *)
(* when the wait returns with a card whose ATR is not flagged, and counts   *)
(* as told when the last attempt is over.                                   *)
OnReader == IF slot[1] \in Visit THEN slot[1] ELSE 0

WillBeRead ==
  \/ pc \in {"read", "retryCheck"}
  \/ pc = "scan" /\ ev[1] \in Visit /\ AtrOf[cardAt[ev[1]]] \notin processed

SeenStay == IF WillBeRead THEN ev[1] ELSE 0

ToldStays == {v \in Visit : told[v] > 0 \/ (pc = "report" /\ v = ev[1])}

DataOf == IF WillBeRead \/ CallbackErr THEN 0 ELSE from

Tap == INSTANCE Taps
  WITH visit <- OnReader, seen <- SeenStay, told <- ToldStays, data <- DataOf

(* With one reader, through stale snapshots, swaps during the attempts and  *)
(* flags that stand for several cards, the callback hears what Taps says.   *)
TellsOfTaps == Tap!TapSpec

-----------------------------------------------------------------------------
(* Liveness, for one reader.                                                *)

(* A reader that is empty, after the last report gave a CardID, forgets what *)
(* it processed, however often the wait fails in between, so that the same   *)
(* card can be tapped again; unless another card comes before it is looked   *)
(* at.                                                                       *)
RemovalRearms ==
  (pc = "wait" /\ lastCardID # NoText /\ slot[1] = Empty)
    ~> (processed = {} \/ slot[1] # Empty)

(* What the removal branch says it does: every removal clears the flags.    *)
(* It does not after a report that gave no CardID.                          *)
RemovalAlwaysRearms == slot[1] = Empty ~> (processed = {} \/ slot[1] # Empty)

(* A card whose ATR is not processed and that stays on the reader is        *)
(* reported, unless another card's report claims its ATR first.             *)
FreshCardIsTold ==
  \A v \in Visit :
    (slot[1] = v /\ AtrOf[cardAt[v]] \notin processed)
      ~> (told[v] >= 1 \/ slot[1] # v \/ AtrOf[cardAt[v]] \in processed)
=============================================================================

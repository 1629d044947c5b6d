------------------------- MODULE CardMonitorProofs -------------------------
(***************************************************************************)
(* Theorems about CardMonitor, for every number of cards, ATRs, readers    *)
(* and visits the assumptions allow.                                       *)
(***************************************************************************)
EXTENDS CardMonitor, CardsProofs, TLAPS

-----------------------------------------------------------------------------
(* The invariant that holds for any number of readers.                      *)

(* Visits are numbered in the order of arrival, and a snapshot is never     *)
(* ahead of its reader.                                                     *)
VisitsInOrder ==
  /\ \A v \in 1 .. visits : cardAt[v] \in Card
  /\ \A r \in Reader : slot[r] \in Visit => slot[r] <= visits
  /\ \A r \in Reader : ev[r] \in Visit => ev[r] <= visits
  /\ \A r \in Reader : ev[r] \in Visit /\ slot[r] \in Visit => ev[r] <= slot[r]
  /\ \A v \in Visit : told[v] >= 1 => v <= visits

(* Between the decision to read and the report the snapshot still shows a   *)
(* card whose ATR is not processed.                                         *)
Reading ==
  /\ pc \in {"read", "retryCheck", "report"} => ev[i] \in Visit /\ SeenAtr \notin processed
  /\ pc \in {"read", "retryCheck"} => retry < MaxRetries
  /\ pc = "retryCheck" => ~success
  /\ pc = "report" /\ success => data \in LicenseData /\ Complete(data)

GeneralInv ==
  /\ TypeOK
  /\ VisitsInOrder
  /\ Reading
  /\ DataIsFresh
  /\ ProcessedWasTold

(* The observations only count up, by one at a time until the cap.          *)
LEMMA CountIsBounded ==
  \A n \in 0 .. CountCap :
    /\ Count(n) \in 0 .. CountCap
    /\ Count(n) >= 1
    /\ n <= Count(n)
    /\ Count(n) <= n + 1
  BY DEF Count, CountCap

(* Nobody has put a card on a reader yet.                                   *)
LEMMA GeneralInit == Init => GeneralInv
<1> SUFFICES ASSUME Init PROVE GeneralInv
  OBVIOUS
<1> USE CardsAssumption, MonitorAssumption DEF Init
<1>1. readErr \in BOOLEAN /\ success \in BOOLEAN
  BY Zenon
<1>2. TypeOK
  BY <1>1 DEF TypeOK, Reader, Visit, SlotState, PCs, MaxRetries, CountCap
<1>3. /\ \A r \in Reader : slot[r] \notin Visit
      /\ \A r \in Reader : ev[r] \notin Visit
  <2>1. Gone \notin Visit /\ Empty \notin Visit
    BY DEF Visit, Empty, Gone
  <2> QED
    BY <2>1
<1>4. \A v \in Visit : told[v] = 0
  BY DEF Visit
<1>5. VisitsInOrder
  BY <1>3, <1>4 DEF VisitsInOrder
<1>6. Reading /\ DataIsFresh /\ ProcessedWasTold
  BY DEF Reading, DataIsFresh, ProcessedWasTold
<1> QED
  BY <1>2, <1>5, <1>6 DEF GeneralInv

(* Every step of people and loop keeps the invariant.                       *)
LEMMA GeneralStep == GeneralInv /\ [Next]_vars => GeneralInv'
<1> SUFFICES ASSUME GeneralInv, [Next]_vars PROVE GeneralInv'
  OBVIOUS
<1> USE CardsAssumption, MonitorAssumption
<1> USE DEF GeneralInv, Reader, Visit, SlotState, Empty, Gone, PCs, MaxRetries,
            CountCap, SeenAtr, world, attempt, memory, calls
<1>1. ASSUME NEW r \in Reader, NEW c \in Card, Insert(r, c) PROVE GeneralInv'
  <2> USE <1>1 DEF Insert
  <2>1. TypeOK'
    BY DEF TypeOK
  <2>2. VisitsInOrder'
    BY DEF TypeOK, VisitsInOrder
  <2>3. Reading'
    BY DEF TypeOK, VisitsInOrder, Reading, Complete
  <2>4. DataIsFresh'
    BY DEF TypeOK, VisitsInOrder, DataIsFresh
  <2>5. ProcessedWasTold'
    BY DEF TypeOK, VisitsInOrder, Reading, ProcessedWasTold
  <2> QED
    BY <2>1, <2>2, <2>3, <2>4, <2>5
<1>2. ASSUME NEW r \in Reader, Remove(r) PROVE GeneralInv'
  BY <1>2
  DEF Remove, TypeOK, VisitsInOrder, Reading, DataIsFresh, ProcessedWasTold
<1>3. ASSUME NEW r \in Reader, Unplug(r) PROVE GeneralInv'
  BY <1>3
  DEF Unplug, TypeOK, VisitsInOrder, Reading, DataIsFresh, ProcessedWasTold
<1>4. ASSUME NEW r \in Reader, Replug(r) PROVE GeneralInv'
  BY <1>4
  DEF Replug, TypeOK, VisitsInOrder, Reading, DataIsFresh, ProcessedWasTold
<1>5. CASE WaitReturns
  BY <1>5
  DEF WaitReturns, TypeOK, VisitsInOrder, Reading, DataIsFresh, ProcessedWasTold
<1>6. CASE WaitFails
  BY <1>6
  DEF WaitFails, TypeOK, VisitsInOrder, Reading, DataIsFresh, ProcessedWasTold
<1>7. CASE BackOff
  BY <1>7
  DEF BackOff, TypeOK, VisitsInOrder, Reading, DataIsFresh, ProcessedWasTold
<1>8. CASE SkipProcessed
  BY <1>8
  DEF SkipProcessed, NextReader, TypeOK, VisitsInOrder, Reading, DataIsFresh, ProcessedWasTold
<1>9. CASE BeginRead
  <2> USE <1>9 DEF BeginRead
  <2>0. readErr' \in BOOLEAN /\ success' \in BOOLEAN
    BY Zenon
  <2>1. TypeOK'
    BY <2>0 DEF TypeOK
  <2>2. VisitsInOrder'
    BY DEF TypeOK, VisitsInOrder
  <2>3. Reading'
    BY DEF TypeOK, VisitsInOrder, Reading, Complete
  <2>4. DataIsFresh'
    BY DEF TypeOK, VisitsInOrder, DataIsFresh
  <2>5. ProcessedWasTold'
    BY DEF TypeOK, VisitsInOrder, Reading, ProcessedWasTold
  <2> QED
    BY <2>1, <2>2, <2>3, <2>4, <2>5
<1>10. CASE SeeEmpty
  BY <1>10
  DEF SeeEmpty, NextReader, Forget, TypeOK, VisitsInOrder, Reading, DataIsFresh, ProcessedWasTold
<1>11. CASE SeeGone
  BY <1>11
  DEF SeeGone, NextReader, TypeOK, VisitsInOrder, Reading, DataIsFresh, ProcessedWasTold
<1>12. CASE ReadCard
  <2> USE <1>12
  <2>1. PICK res \in Outcomes :
          /\ data' = res.data
          /\ from' = ReadFrom(res)
          /\ readErr' = res.err
          /\ success' = (~res.err /\ Complete(res.data))
    BY DEF ReadCard
  <2>2. \/ res = ReadError
        \/ /\ slot[i] \in Visit
           /\ res.err = FALSE
           /\ res.data \in LicenseData
    <3>1. CASE slot[i] \notin Visit
      BY <2>1, <3>1 DEF Outcomes, Connected
    <3>2. CASE slot[i] \in Visit
      <4>1. cardAt[slot[i]] \in Card
        BY <3>2 DEF TypeOK, VisitsInOrder
      <4>2. res \in ReadResults(cardAt[slot[i]])
        BY <2>1, <3>2 DEF Outcomes, Connected
      <4> QED
        BY <3>2, <4>1, <4>2, ReadResultsType DEF Returned
    <3> QED
      BY <3>1, <3>2
  <2>3. readErr' \in BOOLEAN /\ success' \in BOOLEAN
    <3>1. ReadError.err = TRUE
      BY Zenon DEF ReadError
    <3>2. res.err \in BOOLEAN
      BY <2>2, <3>1, Zenon
    <3> QED
      BY <2>1, <3>2, Zenon
  <2>4. /\ data' \in LicenseData \cup {NoData}
        /\ success' => data' \in LicenseData /\ Complete(data')
    <3>1. CASE res = ReadError
      <4>1. ReadError.data = NoData
        BY DEF ReadError
      <4>2. ReadError.err
        BY Zenon DEF ReadError
      <4> QED
        BY <2>1, <3>1, <4>1, <4>2
    <3>2. CASE res.err = FALSE /\ res.data \in LicenseData
      BY <2>1, <3>2
    <3> QED
      BY <2>2, <3>1, <3>2
  <2>5. data' # NoData => from' = slot[i] /\ slot[i] \in Visit
    BY <2>1, <2>2 DEF ReadFrom, Connected, ReadError
  <2>6. from' \in 0 .. MaxVisits
    BY <2>1, <2>2 DEF ReadFrom, Connected, ReadError
  <2>7. retry' = retry + 1 /\ retry < MaxRetries /\ pc = "read"
    BY DEF ReadCard, Tried, AttemptsLeft, Reading
  <2>8. pc' = IF ~success' /\ retry' < MaxRetries THEN "retryCheck" ELSE "report"
    BY DEF ReadCard, AttemptsLeft
  <2>9. UNCHANGED <<world, ev, cur, i, memory, calls>>
    BY DEF ReadCard
  <2>10. TypeOK'
    BY <2>3, <2>4, <2>6, <2>7, <2>8, <2>9 DEF TypeOK
  <2>11. VisitsInOrder'
    BY <2>9 DEF VisitsInOrder
  <2>12. Reading'
    BY <2>4, <2>7, <2>8, <2>9 DEF Reading
  <2>13. DataIsFresh'
    BY <2>5, <2>7, <2>9 DEF TypeOK, VisitsInOrder, Reading, DataIsFresh
  <2>14. ProcessedWasTold'
    BY <2>9 DEF ProcessedWasTold
  <2> QED
    BY <2>10, <2>11, <2>12, <2>13, <2>14
<1>13. CASE RetryCheckFails
  BY <1>13
  DEF RetryCheckFails, TypeOK, VisitsInOrder, Reading, DataIsFresh, ProcessedWasTold
<1>14. CASE RetryCheckEmpty
  BY <1>14
  DEF RetryCheckEmpty, TypeOK, VisitsInOrder, Reading, DataIsFresh, ProcessedWasTold
<1>15. CASE RetryCheckGoesOn
  BY <1>15
  DEF RetryCheckGoesOn, TypeOK, VisitsInOrder, Reading, DataIsFresh, ProcessedWasTold
<1>16. CASE Report
  <2> USE <1>16 DEF Report, NextReader
  <2>1. ev[i] \in Visit /\ i \in Reader
    BY DEF TypeOK, Reading
  <2>2. TypeOK'
    <3>1. told' \in [Visit -> 0 .. CountCap] /\ recorded' \in [Visit -> 0 .. CountCap]
      BY <2>1, CountIsBounded DEF TypeOK
    <3>2. lastCardID' \in Text
      BY DEF TypeOK, LicenseData
    <3>3. processed' \subseteq Atr
      <4>1. cardAt[ev[i]] \in Card
        BY <2>1 DEF TypeOK, VisitsInOrder
      <4> QED
        BY <4>1 DEF TypeOK, Marked
    <3>4. cur' \in [Reader -> SlotState]
      BY <2>1 DEF TypeOK, Acknowledged
    <3> QED
      BY <2>1, <3>1, <3>2, <3>3, <3>4 DEF TypeOK
  <2>3. VisitsInOrder'
    BY <2>1 DEF TypeOK, VisitsInOrder
  <2>4. pc' \in {"scan", "wait"}
    OBVIOUS
  <2>5. Reading' /\ DataIsFresh'
    BY <2>4 DEF Reading, DataIsFresh
  <2>6. ProcessedWasTold'
    <3> SUFFICES ASSUME NEW a \in processed'
                 PROVE  \E v \in Visit : told'[v] >= 1 /\ AtrOf[cardAt[v]] = a
      BY DEF ProcessedWasTold
    <3>1. \A v \in Visit : told[v] >= 1 => told'[v] >= 1
      BY <2>1, CountIsBounded DEF TypeOK
    <3>2. told'[ev[i]] >= 1
      BY <2>1, CountIsBounded DEF TypeOK
    <3>3. a \in processed \/ a = AtrOf[cardAt[ev[i]]]
      BY DEF Marked
    <3> QED
      BY <2>1, <3>1, <3>2, <3>3 DEF ProcessedWasTold
  <2> QED
    BY <2>2, <2>3, <2>5, <2>6
<1>17. CASE UNCHANGED vars
  BY <1>17 DEF vars, TypeOK, VisitsInOrder, Reading, DataIsFresh, ProcessedWasTold
<1> QED
  BY <1>1, <1>2, <1>3, <1>4, <1>5, <1>6, <1>7, <1>8, <1>9, <1>10, <1>11, <1>12, <1>13, <1>14, <1>15, <1>16, <1>17
  DEF Next, People, Loop, Scan, RetryCheck

(* The invariant holds in every reachable state, whatever the number of     *)
(* readers.                                                                 *)
THEOREM GeneralInvariant == Spec => []GeneralInv
<1>1. Init => GeneralInv
  BY GeneralInit
<1>2. GeneralInv /\ [Next]_vars => GeneralInv'
  BY GeneralStep
<1> QED
  BY <1>1, <1>2, PTL DEF Spec

(* The variables keep their types.                                          *)
THEOREM TypeCorrect == Spec => []TypeOK
<1>1. GeneralInv => TypeOK
  BY DEF GeneralInv
<1> QED
  BY <1>1, GeneralInvariant, PTL

(* A processed ATR is that of a card that was reported.                     *)
THEOREM ProcessedWasToldHolds == Spec => []ProcessedWasTold
<1>1. GeneralInv => ProcessedWasTold
  BY DEF GeneralInv
<1> QED
  BY <1>1, GeneralInvariant, PTL

(* The data of an attempt is never older than the snapshot.                 *)
THEOREM DataIsFreshHolds == Spec => []DataIsFresh
<1>1. GeneralInv => DataIsFresh
  BY DEF GeneralInv
<1> QED
  BY <1>1, GeneralInvariant, PTL

(* A callback without error has data, a licence's with its expiry date.     *)
THEOREM NoErrorMeansReadHolds == Spec => []NoErrorMeansRead
<1>1. GeneralInv => NoErrorMeansRead
  BY NoDataIsNil DEF GeneralInv, Reading, NoErrorMeansRead, CallbackErr
<1> QED
  BY <1>1, GeneralInvariant, PTL

(* No card is reported whose flag is up, and flags come down all together,  *)
(* at an empty reader.                                                      *)
THEOREM ReportRaisesFlagHolds == Spec => ReportRaisesFlag
<1>1. ASSUME GeneralInv, [Next]_vars
      PROVE  /\ \A v \in Visit :
                  told'[v] # told[v] => AtrOf[cardAt[v]] \in processed' \ processed
             /\ processed \subseteq processed'
                \/ /\ processed' = {} /\ lastCardID # NoText
                   /\ \E r \in Reader : ev[r] = Empty
  <2>1. CASE Report
    <3>1. ev[i] \in Visit /\ SeenAtr \notin processed
      BY <1>1, <2>1 DEF GeneralInv, Reading, Report
    <3>2. processed' = processed \cup {SeenAtr}
      BY <2>1 DEF Report, Marked
    <3>3. \A v \in Visit : told'[v] # told[v] => v = ev[i]
      BY <1>1, <2>1 DEF GeneralInv, TypeOK, Report
    <3> QED
      BY <3>1, <3>2, <3>3 DEF SeenAtr
  <2>2. CASE SeeEmpty
    <3>1. i \in Reader /\ ev[i] = Empty /\ UNCHANGED told
      BY <1>1, <2>2 DEF GeneralInv, TypeOK, SeeEmpty, calls
    <3>2. processed' = processed \/ (processed' = {} /\ lastCardID # NoText)
      BY <2>2 DEF SeeEmpty, Forget
    <3> QED
      BY <3>1, <3>2
  <2>3. CASE ~Report /\ ~SeeEmpty
    <3>1. UNCHANGED <<processed, told>>
      BY <1>1, <2>3
      DEF Next, People, Insert, Remove, Unplug, Replug, Loop, WaitReturns, WaitFails,
          BackOff, Scan, SkipProcessed, BeginRead, SeeGone, ReadCard, RetryCheck,
          RetryCheckFails, RetryCheckEmpty, RetryCheckGoesOn, vars, memory, calls
    <3> QED
      BY <3>1
  <2> QED
    BY <2>1, <2>2, <2>3
<1>2. GeneralInv /\ [Next]_vars =>
        [/\ \A v \in Visit :
             told'[v] # told[v] => AtrOf[cardAt[v]] \in processed' \ processed
         /\ processed \subseteq processed'
            \/ /\ processed' = {} /\ lastCardID # NoText
               /\ \E r \in Reader : ev[r] = Empty]_vars
  BY <1>1
<1> QED
  BY <1>2, GeneralInvariant, PTL DEF Spec, ReportRaisesFlag

-----------------------------------------------------------------------------
(* What the data is of.                                                     *)

(* The data of an attempt is what a call can return of the card of the      *)
(* visit it was read from.                                                  *)
DataIsOfItsVisit ==
  data # NoData =>
    /\ from \in 1 .. visits
    /\ Returned(data) \in ReadResults(cardAt[from])

LEMMA DataStep == GeneralInv /\ DataIsOfItsVisit /\ [Next]_vars => DataIsOfItsVisit'
<1> SUFFICES ASSUME GeneralInv, DataIsOfItsVisit, [Next]_vars PROVE DataIsOfItsVisit'
  OBVIOUS
<1>0. /\ TypeOK /\ VisitsInOrder /\ visits \in Nat /\ i \in Reader
      /\ \A v \in 1 .. visits : v \in Visit
  BY MonitorAssumption DEF GeneralInv, TypeOK, Visit
<1>1. CASE UNCHANGED <<data, from, visits, cardAt>>
  BY <1>1 DEF DataIsOfItsVisit
<1>2. ASSUME NEW r \in Reader, NEW c \in Card, Insert(r, c) PROVE DataIsOfItsVisit'
  <2>1. /\ visits' = visits + 1 /\ UNCHANGED <<data, from>>
        /\ \A v \in 1 .. visits : cardAt'[v] = cardAt[v]
    BY <1>0, <1>2 DEF Insert, TypeOK, attempt
  <2> QED
    BY <1>0, <2>1 DEF DataIsOfItsVisit
<1>3. CASE BeginRead
  BY <1>3 DEF BeginRead, DataIsOfItsVisit
<1>4. CASE ReadCard
  <2>1. PICK res \in Outcomes : data' = res.data /\ from' = ReadFrom(res)
    BY <1>4 DEF ReadCard
  <2>2. UNCHANGED <<visits, cardAt>>
    BY <1>4 DEF ReadCard, world
  <2>3. CASE res = ReadError
    BY <2>1, <2>3 DEF ReadError, DataIsOfItsVisit
  <2>4. CASE res # ReadError
    <3>1. slot[i] \in Visit /\ res \in ReadResults(cardAt[slot[i]])
      BY <2>4 DEF Outcomes, Connected
    <3>2. slot[i] \in 1 .. visits /\ cardAt[slot[i]] \in Card
      BY <1>0, <3>1 DEF VisitsInOrder, Visit
    <3>3. PICK d \in LicenseData : res = Returned(d)
      BY <2>4, <3>1, <3>2, ReadResultsType
    <3>4. from' = slot[i] /\ data' = d
      BY <2>1, <3>3 DEF ReadFrom, Connected, Returned
    <3> QED
      BY <2>2, <3>1, <3>2, <3>3, <3>4 DEF DataIsOfItsVisit
  <2> QED
    BY <2>3, <2>4
<1>5. CASE \/ WaitReturns \/ WaitFails \/ BackOff
           \/ SkipProcessed \/ SeeEmpty \/ SeeGone \/ RetryCheck \/ Report
  BY <1>1, <1>5
  DEF WaitReturns, WaitFails, BackOff, SkipProcessed, SeeEmpty, SeeGone, RetryCheck,
      RetryCheckFails, RetryCheckEmpty, RetryCheckGoesOn, Report, attempt, world
<1>6. ASSUME NEW r \in Reader, Remove(r) \/ Unplug(r) \/ Replug(r)
      PROVE  DataIsOfItsVisit'
  BY <1>1, <1>6 DEF Remove, Unplug, Replug, attempt
<1>7. CASE UNCHANGED vars
  BY <1>1, <1>7 DEF vars, attempt, world
<1> QED
  BY <1>2, <1>3, <1>4, <1>5, <1>6, <1>7 DEF Next, People, Loop, Scan

THEOREM DataIsOfItsVisitHolds == Spec => []DataIsOfItsVisit
<1>1. Init => DataIsOfItsVisit
  BY DEF Init, DataIsOfItsVisit
<1> QED
  BY <1>1, DataStep, GeneralInvariant, PTL DEF Spec

(* A licence the callback is told of without error is told of as a licence, *)
(* with its own expiry date and the CardID this makes, whatever card was    *)
(* there when the loop woke and whatever the attempts before returned.      *)
LicenceIsToldAsItIs ==
  pc = "report" /\ ~CallbackErr /\ TrueType(cardAt[from]) = "driver_license" =>
    /\ data.type = "driver_license"
    /\ data.expiry = ExpiryOf[cardAt[from]]
    /\ data.id = Upper[ExpiryOf[cardAt[from]]] /\ data.id # NoText

(* A report without error leaves no CardID only if the card is taken for    *)
(* something else than a licence and gave no UID: so much of the reads that *)
(* succeed leaves a flag the next removal does not clear.                   *)
CardIDMissesOnlyUID ==
  pc = "report" /\ ~CallbackErr /\ data.id = NoText =>
    data.type # "driver_license" /\ data.uid = NoText

THEOREM CompleteDataIsOfTheCard ==
  Spec => [](LicenceIsToldAsItIs /\ CardIDMissesOnlyUID)
<1>1. GeneralInv /\ DataIsOfItsVisit => LicenceIsToldAsItIs /\ CardIDMissesOnlyUID
  <2> SUFFICES ASSUME GeneralInv, DataIsOfItsVisit, pc = "report", ~CallbackErr
               PROVE  LicenceIsToldAsItIs /\ CardIDMissesOnlyUID
    BY DEF LicenceIsToldAsItIs, CardIDMissesOnlyUID
  <2>1. data \in LicenseData /\ Complete(data)
    BY DEF GeneralInv, Reading, CallbackErr
  <2>2. data # NoData
    BY <2>1, NoDataIsNil
  <2>3. cardAt[from] \in Card /\ Returned(data) \in ReadResults(cardAt[from])
    BY <2>2 DEF DataIsOfItsVisit, GeneralInv, VisitsInOrder
  <2>4. /\ data.type = TrueType(cardAt[from]) \/ cardAt[from] \in ShakenCard
        /\ data.expiry \in ExpiriesRead(cardAt[from], data.type)
        /\ data.id = CardID(data.type, data.uid, data.expiry)
        /\ data.id = NoText <=> IF data.type = "driver_license" THEN data.expiry = NoText
                                ELSE data.uid = NoText
    BY <2>2, <2>3, PartsOfResult
  <2>5. data.type = "driver_license" => data.expiry # NoText
    BY <2>1 DEF Complete
  <2>6. cardAt[from] \in ShakenCard => TrueType(cardAt[from]) # "driver_license"
    BY DEF TrueType
  <2> QED
    BY <2>4, <2>5, <2>6
    DEF ExpiriesRead, CardID, LicenceIsToldAsItIs, CardIDMissesOnlyUID
<1> QED
  BY <1>1, GeneralInvariant, DataIsOfItsVisitHolds, PTL

-----------------------------------------------------------------------------
(* What the loop compares with while it waits.                              *)

(* The readers of the snapshot that have been scanned are acknowledged: all *)
(* of them once the loop waits again.                                       *)
Acknowledges(r) == ev[r] # Gone => cur[r] = ev[r]

ScannedAcknowledged ==
  /\ WaitsForNews
  /\ pc \notin {"wait", "backoff"} => \A r \in Reader : r < i => Acknowledges(r)

(* Nothing was seen yet, so nothing is to be acknowledged.                  *)
LEMMA AcknowledgeInit == Init => ScannedAcknowledged
  BY DEF Init, ScannedAcknowledged, WaitsForNews

(* Only the reader being scanned is touched, and it is acknowledged before  *)
(* the loop goes on to the next.                                            *)
LEMMA AcknowledgeStep ==
  TypeOK /\ ScannedAcknowledged /\ [Next]_vars => ScannedAcknowledged'
<1> SUFFICES ASSUME TypeOK, ScannedAcknowledged, [Next]_vars
             PROVE  ScannedAcknowledged'
  OBVIOUS
<1> USE MonitorAssumption
    DEF ScannedAcknowledged, WaitsForNews, Acknowledges, Reader, attempt, memory,
        calls, world, NextReader
<1>0. /\ i \in Reader /\ ev \in [Reader -> SlotState] /\ cur \in [Reader -> SlotState]
  BY DEF TypeOK
<1>1. CASE People
  BY <1>1 DEF People, Insert, Remove, Unplug, Replug
<1>2. CASE WaitReturns \/ WaitFails \/ BackOff
  BY <1>2 DEF WaitReturns, WaitFails, BackOff
<1>3. CASE SkipProcessed
  BY <1>0, <1>3 DEF SkipProcessed
<1>4. CASE BeginRead \/ ReadCard
  BY <1>4 DEF BeginRead, ReadCard
<1>5. CASE SeeEmpty
  BY <1>0, <1>5 DEF SeeEmpty
<1>6. CASE SeeGone
  BY <1>0, <1>6 DEF SeeGone
<1>7. CASE RetryCheck
  BY <1>0, <1>7 DEF RetryCheck, RetryCheckFails, RetryCheckEmpty, RetryCheckGoesOn
<1>8. CASE Report
  BY <1>0, <1>8 DEF Report, Acknowledged
<1>9. CASE UNCHANGED vars
  BY <1>9 DEF vars
<1> QED
  BY <1>1, <1>2, <1>3, <1>4, <1>5, <1>6, <1>7, <1>8, <1>9 DEF Next, Loop, Scan

(* A change during a scan makes the next wait return at once, and a reader  *)
(* nobody touched does not.                                                 *)
THEOREM WaitsForNewsHolds == Spec => []WaitsForNews
<1>1. Init => ScannedAcknowledged
  BY AcknowledgeInit
<1>2. TypeOK /\ ScannedAcknowledged /\ [Next]_vars => ScannedAcknowledged'
  BY AcknowledgeStep
<1>3. ScannedAcknowledged => WaitsForNews
  BY DEF ScannedAcknowledged
<1> QED
  BY <1>1, <1>2, <1>3, TypeCorrect, PTL DEF Spec

-----------------------------------------------------------------------------
(* What holds with one reader.  The invariant says why: the newest visit is *)
(* the only one that can be on the reader; if it is not the one of the      *)
(* snapshot, nobody has been told of it; if it is, and it was told, its ATR *)
(* is still processed, because only a snapshot that shows the reader empty  *)
(* forgets an ATR.  And while the loop works on a snapshot, no later card's *)
(* data has been recorded.                                                  *)
Newest ==
  /\ slot[1] \in Visit => slot[1] = visits
  /\ \A v \in Visit : recorded[v] >= 1 => v <= visits

NewcomerUntold == slot[1] \in Visit /\ slot[1] # ev[1] => told[slot[1]] = 0

ToldIsProcessed ==
  ev[1] \in Visit /\ told[ev[1]] >= 1 => AtrOf[cardAt[ev[1]]] \in processed

LaterUnrecorded ==
  pc \in {"scan", "read", "retryCheck", "report"} /\ ev[1] \in Visit =>
    \A v \in Visit : ev[1] < v => recorded[v] = 0

RecordedAfterTold == \A v \in Visit : recorded[v] <= told[v] + 1

OneReaderInv ==
  /\ Newest
  /\ NewcomerUntold
  /\ ToldIsProcessed
  /\ TapIsToldOnce
  /\ LaterUnrecorded
  /\ RecordedAfterTold

(* It holds before anybody has put a card on the reader.                    *)
LEMMA OneReaderInit == NumReaders = 1 /\ Init => OneReaderInv
<1> SUFFICES ASSUME NumReaders = 1, Init PROVE OneReaderInv
  OBVIOUS
<1>1. slot[1] \notin Visit /\ ev[1] \notin Visit
  BY MonitorAssumption DEF Init, Reader, Visit, Empty, Gone
<1>2. \A v \in Visit : told[v] = 0 /\ recorded[v] = 0
  BY DEF Init
<1> QED
  BY <1>1, <1>2 DEF OneReaderInv, Newest, NewcomerUntold, ToldIsProcessed,
     TapIsToldOnce, LaterUnrecorded, RecordedAfterTold

(* Every step keeps it, given the general invariant.                        *)
LEMMA OneReaderStep ==
  NumReaders = 1 /\ GeneralInv /\ OneReaderInv /\ [Next]_vars => OneReaderInv'
<1> SUFFICES ASSUME NumReaders = 1, GeneralInv, OneReaderInv, [Next]_vars
             PROVE  OneReaderInv'
  OBVIOUS
<1> USE CardsAssumption, MonitorAssumption
<1> USE DEF OneReaderInv, Reader, Visit, SlotState, Empty, Gone, PCs, MaxRetries,
            CountCap, SeenAtr, world, attempt, memory, calls
<1>0. TypeOK /\ VisitsInOrder /\ Reading /\ DataIsFresh /\ i = 1
  BY DEF GeneralInv, TypeOK
<1>a. \A v \in Visit : told[v] \in 0 .. 3 /\ recorded[v] \in 0 .. 3
  BY <1>0 DEF TypeOK
<1>b. \A v \in Visit : recorded'[v] \in 0 .. 3
  BY GeneralStep DEF GeneralInv, TypeOK
<1>1. ASSUME NEW r \in Reader, NEW c \in Card, Insert(r, c) PROVE OneReaderInv'
  BY <1>0, <1>1
  DEF Insert, TypeOK, VisitsInOrder, Newest, NewcomerUntold, ToldIsProcessed,
      TapIsToldOnce, LaterUnrecorded, RecordedAfterTold
<1>2. ASSUME NEW r \in Reader, Remove(r) PROVE OneReaderInv'
  BY <1>0, <1>2
  DEF Remove, TypeOK, VisitsInOrder, Newest, NewcomerUntold, ToldIsProcessed,
      TapIsToldOnce, LaterUnrecorded, RecordedAfterTold
<1>3. ASSUME NEW r \in Reader, Unplug(r) PROVE OneReaderInv'
  BY <1>0, <1>3
  DEF Unplug, TypeOK, VisitsInOrder, Newest, NewcomerUntold, ToldIsProcessed,
      TapIsToldOnce, LaterUnrecorded, RecordedAfterTold
<1>4. ASSUME NEW r \in Reader, Replug(r) PROVE OneReaderInv'
  BY <1>0, <1>4
  DEF Replug, TypeOK, VisitsInOrder, Newest, NewcomerUntold, ToldIsProcessed,
      TapIsToldOnce, LaterUnrecorded, RecordedAfterTold
<1>5. CASE WaitReturns
  <2> USE <1>5 DEF WaitReturns
  <2>1. slot[1] \in Visit =>
          \/ told[slot[1]] = 0
          \/ ev[1] = slot[1] /\ AtrOf[cardAt[slot[1]]] \in processed
    BY <1>a DEF NewcomerUntold, ToldIsProcessed
  <2>2. ev' = slot /\ UNCHANGED <<slot, visits, cardAt, processed, told, recorded>>
    OBVIOUS
  <2>3. ToldIsProcessed'
    BY <1>a, <2>1, <2>2 DEF ToldIsProcessed
  <2>4. LaterUnrecorded'
    BY <1>a, <2>2 DEF LaterUnrecorded, Newest
  <2> QED
    BY <2>2, <2>3, <2>4
    DEF Newest, NewcomerUntold, TapIsToldOnce, RecordedAfterTold
<1>6. CASE WaitFails
  BY <1>0, <1>6
  DEF WaitFails, TypeOK, VisitsInOrder, Newest, NewcomerUntold, ToldIsProcessed,
      TapIsToldOnce, LaterUnrecorded, RecordedAfterTold
<1>7. CASE BackOff
  BY <1>0, <1>7
  DEF BackOff, TypeOK, VisitsInOrder, Newest, NewcomerUntold, ToldIsProcessed,
      TapIsToldOnce, LaterUnrecorded, RecordedAfterTold
<1>8. CASE SkipProcessed
  BY <1>0, <1>8
  DEF SkipProcessed, NextReader, TypeOK, VisitsInOrder, Newest, NewcomerUntold, ToldIsProcessed,
      TapIsToldOnce, LaterUnrecorded, RecordedAfterTold
<1>9. CASE BeginRead
  BY <1>0, <1>9
  DEF BeginRead, TypeOK, VisitsInOrder, Newest, NewcomerUntold, ToldIsProcessed,
      TapIsToldOnce, LaterUnrecorded, RecordedAfterTold
<1>10. CASE SeeEmpty
  BY <1>0, <1>10
  DEF SeeEmpty, NextReader, Forget, TypeOK, VisitsInOrder, Newest, NewcomerUntold, ToldIsProcessed,
      TapIsToldOnce, LaterUnrecorded, RecordedAfterTold
<1>11. CASE SeeGone
  BY <1>0, <1>11
  DEF SeeGone, NextReader, TypeOK, VisitsInOrder, Newest, NewcomerUntold, ToldIsProcessed,
      TapIsToldOnce, LaterUnrecorded, RecordedAfterTold
<1>12. CASE ReadCard
  BY <1>0, <1>12
  DEF ReadCard, TypeOK, VisitsInOrder, Newest, NewcomerUntold, ToldIsProcessed,
      TapIsToldOnce, LaterUnrecorded, RecordedAfterTold
<1>13. CASE RetryCheckFails
  BY <1>0, <1>13
  DEF RetryCheckFails, TypeOK, VisitsInOrder, Newest, NewcomerUntold, ToldIsProcessed,
      TapIsToldOnce, LaterUnrecorded, RecordedAfterTold
<1>14. CASE RetryCheckEmpty
  BY <1>0, <1>14
  DEF RetryCheckEmpty, TypeOK, VisitsInOrder, Newest, NewcomerUntold, ToldIsProcessed,
      TapIsToldOnce, LaterUnrecorded, RecordedAfterTold
<1>15. CASE RetryCheckGoesOn
  BY <1>0, <1>15
  DEF RetryCheckGoesOn, TypeOK, VisitsInOrder, Newest, NewcomerUntold, ToldIsProcessed,
      TapIsToldOnce, LaterUnrecorded, RecordedAfterTold
<1>16. CASE Report
  <2>1. ev[1] \in Visit /\ SeenAtr \notin processed
    BY <1>0, <1>16 DEF Reading, Report
  <2>2. told[ev[1]] = 0
    BY <1>0, <1>a, <2>1 DEF ToldIsProcessed
  <2>3. told' = [told EXCEPT ![ev[1]] = 1]
    BY <1>0, <1>16, <2>2 DEF Report, Count
  <2>4. \/ recorded' = recorded
        \/ /\ from \in Visit
           /\ ev[1] <= from
           /\ from <= visits
           /\ recorded' = [recorded EXCEPT ![from] = Count(recorded[from])]
    BY <1>0, <1>16, NoDataIsNil DEF Report, Reading, DataIsFresh, CallbackErr
  <2>5. \A v \in Visit : recorded'[v] <= recorded[v] + 1
    <3> SUFFICES ASSUME NEW v \in Visit PROVE recorded'[v] <= recorded[v] + 1
      OBVIOUS
    <3>1. Count(recorded[v]) <= recorded[v] + 1
      BY <1>a, CountIsBounded
    <3>2. recorded'[v] \in {recorded[v], Count(recorded[v])}
      BY <1>0, <2>4 DEF TypeOK
    <3> QED
      BY <1>a, <3>1, <3>2
  <2>6. \A v \in Visit :
          recorded'[v] # recorded[v] => v = from /\ ev[1] <= v /\ v <= visits
    BY <1>0, <2>4 DEF TypeOK
  <2>7. pc' = "wait" /\ UNCHANGED <<slot, visits, cardAt, ev>>
    BY <1>0, <1>16 DEF Report, NextReader
  <2>8. Newest'
    BY <1>0, <2>6, <2>7 DEF Newest, TypeOK
  <2>9. NewcomerUntold'
    BY <1>0, <2>1, <2>3, <2>7 DEF NewcomerUntold, TypeOK
  <2>10. ToldIsProcessed'
    BY <1>0, <1>16, <2>7 DEF Report, Marked, ToldIsProcessed
  <2>11. TapIsToldOnce'
    BY <1>0, <2>1, <2>3 DEF TapIsToldOnce, TypeOK
  <2>12. LaterUnrecorded'
    BY <2>7 DEF LaterUnrecorded
  <2>13. RecordedAfterTold'
    <3> SUFFICES ASSUME NEW v \in Visit PROVE recorded'[v] <= told'[v] + 1
      BY DEF RecordedAfterTold
    <3>1. told'[v] = IF v = ev[1] THEN 1 ELSE told[v]
      BY <1>0, <2>1, <2>3 DEF TypeOK
    <3>2. CASE v = ev[1]
      BY <1>a, <1>b, <2>2, <2>5, <3>1, <3>2 DEF RecordedAfterTold
    <3>3. CASE ev[1] < v
      <4>1. recorded[v] = 0
        BY <1>16, <2>1, <3>3 DEF Report, LaterUnrecorded
      <4>2. recorded'[v] <= 1
        BY <1>b, <2>5, <4>1
      <4> QED
        BY <1>a, <1>b, <2>1, <3>1, <3>3, <4>2
    <3>4. CASE v < ev[1]
      BY <1>a, <1>b, <2>1, <2>6, <3>1, <3>4 DEF RecordedAfterTold
    <3> QED
      BY <2>1, <3>2, <3>3, <3>4
  <2> QED
    BY <2>8, <2>9, <2>10, <2>11, <2>12, <2>13
<1>17. CASE UNCHANGED vars
  BY <1>17 DEF vars, Newest, NewcomerUntold, ToldIsProcessed, TapIsToldOnce,
     LaterUnrecorded, RecordedAfterTold
<1> QED
  BY <1>1, <1>2, <1>3, <1>4, <1>5, <1>6, <1>7, <1>8, <1>9, <1>10, <1>11, <1>12, <1>13, <1>14, <1>15, <1>16, <1>17
  DEF Next, People, Loop, Scan, RetryCheck

(* With one reader the invariant holds in every reachable state.            *)
THEOREM OneReaderInvariant == NumReaders = 1 => (Spec => []OneReaderInv)
<1> SUFFICES ASSUME NumReaders = 1 PROVE Spec => []OneReaderInv
  OBVIOUS
<1>1. Init => OneReaderInv
  BY OneReaderInit
<1>2. GeneralInv /\ OneReaderInv /\ [Next]_vars => OneReaderInv'
  BY OneReaderStep
<1> QED
  BY <1>1, <1>2, GeneralInvariant, PTL DEF Spec

(* With one reader a card that stays is reported once.                      *)
THEOREM OneReaderTellsOnce == NumReaders = 1 => (Spec => []TapIsToldOnce)
<1> SUFFICES ASSUME NumReaders = 1 PROVE Spec => []TapIsToldOnce
  OBVIOUS
<1>1. OneReaderInv => TapIsToldOnce
  BY DEF OneReaderInv
<1> QED
  BY <1>1, OneReaderInvariant, PTL

(* With one reader the data of a card is recorded at most twice.            *)
THEOREM OneReaderRecordsTwice == NumReaders = 1 => (Spec => []RecordedAtMostTwice)
<1> SUFFICES ASSUME NumReaders = 1 PROVE Spec => []RecordedAtMostTwice
  OBVIOUS
<1>1. TypeOK /\ OneReaderInv => RecordedAtMostTwice
  BY DEF OneReaderInv, TapIsToldOnce, RecordedAfterTold, RecordedAtMostTwice, TypeOK, CountCap
<1> QED
  BY <1>1, OneReaderInvariant, TypeCorrect, PTL

-----------------------------------------------------------------------------
(* One reader's loop implements Taps.                                       *)

(* Nothing is seen, told or on the reader at the start.                     *)
LEMMA TapsInit == NumReaders = 1 /\ Init => Tap!TapInit
<1> SUFFICES ASSUME NumReaders = 1, Init PROVE Tap!TapInit
  OBVIOUS
<1>1. slot[1] \notin Visit /\ ~WillBeRead /\ CallbackErr
  BY DEF Init, Reader, Visit, Empty, Gone, WillBeRead, CallbackErr
<1>2. ToldStays = {}
  BY DEF Init, ToldStays
<1> QED
  BY <1>1, <1>2 DEF Init, Tap!TapInit, OnReader, SeenStay, DataOf

(* A step of the people is one of Taps, or the reader came or went without  *)
(* a card; the wait sees a card, or nothing new; the last attempt tells.    *)
LEMMA TapsStep ==
  NumReaders = 1 /\ GeneralInv /\ OneReaderInv /\ [Next]_vars
    => [Tap!TapNext]_(Tap!taps)
<1> SUFFICES ASSUME NumReaders = 1, GeneralInv, OneReaderInv, [Next]_vars
             PROVE  Tap!TapNext \/ UNCHANGED Tap!taps
  OBVIOUS
<1> USE CardsAssumption, MonitorAssumption DEF Reader, Visit, SlotState, Empty, Gone
<1>0. TypeOK /\ VisitsInOrder /\ Reading /\ i = 1 /\ slot[1] \in SlotState
      /\ ev[1] \in SlotState
  BY DEF GeneralInv, TypeOK
<1>a. \A v \in Visit : told[v] \in 0 .. CountCap
  BY <1>0 DEF TypeOK
<1>1. ASSUME UNCHANGED <<ev, pc, i, attempt, memory, calls>>,
             ev[1] \in Visit => cardAt'[ev[1]] = cardAt[ev[1]]
      PROVE  UNCHANGED <<SeenStay, ToldStays, DataOf>>
  BY <1>1
  DEF SeenStay, WillBeRead, ToldStays, DataOf, CallbackErr, attempt, memory, calls
<1>2. ASSUME NEW r \in Reader, NEW c \in Card, Insert(r, c) PROVE Tap!PutCard
  <2>1. slot[1] = Empty /\ visits < MaxVisits /\ visits' = visits + 1
        /\ slot'[1] = visits + 1
    BY <1>0, <1>2 DEF Insert, TypeOK
  <2>2. ev[1] \in Visit => cardAt'[ev[1]] = cardAt[ev[1]]
    BY <1>0, <1>2 DEF Insert, VisitsInOrder, TypeOK
  <2>3. UNCHANGED <<SeenStay, ToldStays, DataOf>>
    BY <1>1, <1>2, <2>2 DEF Insert
  <2>4. OnReader = 0 /\ OnReader' = visits'
    BY <1>0, <2>1 DEF OnReader, TypeOK
  <2> QED
    BY <2>1, <2>3, <2>4 DEF Tap!PutCard
<1>3. ASSUME NEW r \in Reader, Remove(r) \/ Unplug(r) \/ Replug(r)
      PROVE  Tap!TakeCard \/ UNCHANGED Tap!taps
  <2>1. UNCHANGED <<visits, cardAt>> /\ slot'[1] \notin Visit
    BY <1>0, <1>3 DEF Remove, Unplug, Replug, TypeOK
  <2>2. UNCHANGED <<SeenStay, ToldStays, DataOf>>
    BY <1>1, <1>3, <2>1 DEF Remove, Unplug, Replug
  <2>3. OnReader' = 0
    BY <2>1 DEF OnReader
  <2> QED
    BY <2>1, <2>2, <2>3 DEF Tap!TakeCard, Tap!taps
<1>4. ASSUME UNCHANGED <<world, told>>, UNCHANGED <<SeenStay, ToldStays, DataOf>>
      PROVE  UNCHANGED Tap!taps
  BY <1>4 DEF Tap!taps, OnReader, world
<1>5. CASE WaitReturns
  <2>1. /\ UNCHANGED <<world, attempt, memory, calls>> /\ ev' = slot
        /\ pc = "wait" /\ pc' = "scan"
    BY <1>5 DEF WaitReturns
  <2>2. UNCHANGED <<ToldStays, OnReader, visits>> /\ SeenStay = 0
    BY <2>1 DEF ToldStays, OnReader, SeenStay, WillBeRead, world, calls
  <2>3. CASE WillBeRead'
    <3>1. slot[1] \in Visit /\ AtrOf[cardAt[slot[1]]] \notin processed
      BY <2>1, <2>3 DEF WillBeRead, world, memory
    <3>2. told[slot[1]] = 0
      BY <1>a, <3>1 DEF OneReaderInv, NewcomerUntold, ToldIsProcessed, CountCap
    <3>3. OnReader = slot[1] /\ OnReader \notin ToldStays \cup {0}
      BY <2>1, <3>1, <3>2 DEF OnReader, ToldStays
    <3>4. SeenStay' = OnReader /\ DataOf' = 0
      BY <2>1, <2>3, <3>3 DEF SeenStay, DataOf
    <3>5. Tap!Look
      BY <2>2, <3>3, <3>4 DEF Tap!Look
    <3> QED
      BY <3>5 DEF Tap!TapNext
  <2>4. CASE ~WillBeRead'
    <3>1. SeenStay' = 0 /\ DataOf' = DataOf
      BY <2>1, <2>4 DEF SeenStay, DataOf, WillBeRead, CallbackErr, attempt
    <3> QED
      BY <2>2, <3>1 DEF Tap!taps
  <2> QED
    BY <2>3, <2>4
<1>6. CASE WaitFails \/ BackOff \/ SeeGone
  <2>1. UNCHANGED <<world, ev, attempt, memory, calls>>
        /\ pc \in {"wait", "backoff", "scan"} /\ pc' \in {"wait", "backoff"}
        /\ (pc = "scan" => ev[1] \notin Visit)
    BY <1>0, <1>6 DEF WaitFails, BackOff, SeeGone, NextReader
  <2>2. ~WillBeRead /\ ~WillBeRead'
    BY <2>1 DEF WillBeRead
  <2> QED
    BY <1>4, <2>1, <2>2
    DEF SeenStay, ToldStays, DataOf, CallbackErr, attempt, calls
<1>7. CASE SkipProcessed \/ SeeEmpty
  <2>1. UNCHANGED <<world, ev, attempt, calls>> /\ pc = "scan" /\ pc' = "wait"
        /\ (ev[1] \in Visit => AtrOf[cardAt[ev[1]]] \in processed)
    BY <1>0, <1>7 DEF SkipProcessed, SeeEmpty, NextReader, SeenAtr
  <2>2. ~WillBeRead /\ ~WillBeRead'
    BY <2>1 DEF WillBeRead
  <2> QED
    BY <1>4, <2>1, <2>2
    DEF SeenStay, ToldStays, DataOf, CallbackErr, attempt, calls
<1>8. CASE BeginRead \/ RetryCheckFails \/ RetryCheckGoesOn
  <2>1. UNCHANGED <<world, ev, memory, calls>> /\ pc \in {"scan", "retryCheck"}
        /\ pc' = "read"
    BY <1>8 DEF BeginRead, RetryCheckFails, RetryCheckGoesOn
  <2>2. WillBeRead /\ WillBeRead'
    BY <1>0, <1>8, <2>1
    DEF WillBeRead, BeginRead, RetryCheckFails, RetryCheckGoesOn, SeenAtr
  <2> QED
    BY <1>4, <2>1, <2>2 DEF SeenStay, ToldStays, DataOf, calls
<1>9. CASE ReadCard
  <2>1. PICK res \in Outcomes :
          /\ from' = ReadFrom(res)
          /\ readErr' = res.err
          /\ success' = (~res.err /\ Complete(res.data))
    BY <1>9 DEF ReadCard
  <2>2. /\ pc = "read" /\ pc' \in {"retryCheck", "report"}
        /\ UNCHANGED <<world, ev, memory, calls>> /\ ev[1] \in Visit
    BY <1>0, <1>9 DEF ReadCard, Reading
  <2>3. WillBeRead /\ SeenStay = ev[1] /\ DataOf = 0 /\ ev[1] # 0
    BY <2>2 DEF WillBeRead, SeenStay, DataOf
  <2>4. CASE pc' = "retryCheck"
    <3>1. WillBeRead'
      BY <2>4 DEF WillBeRead
    <3> QED
      BY <1>4, <2>2, <2>3, <2>4, <3>1 DEF SeenStay, ToldStays, DataOf, calls
  <2>5. CASE pc' = "report"
    <3>1. ~WillBeRead' /\ SeenStay' = 0 /\ UNCHANGED <<OnReader, visits>>
      BY <2>2, <2>5 DEF WillBeRead, SeenStay, OnReader, world
    <3>2. ToldStays' = ToldStays \cup {SeenStay}
      BY <2>2, <2>3, <2>5 DEF ToldStays, calls
    <3>3. CASE res.err \/ ~success'
      <4>1. DataOf' = 0
        BY <2>1, <3>3 DEF DataOf, CallbackErr
      <4>2. Tap!Tell(FALSE)
        BY <2>3, <3>1, <3>2, <4>1 DEF Tap!Tell, Tap!Marked
      <4> QED
        BY <4>2 DEF Tap!TapNext
    <3>4. CASE ~res.err /\ success'
      <4>1. slot[1] \in Visit
        BY <1>0, <2>1, <3>4 DEF Outcomes, Connected, ReadError
      <4>2. DataOf' = slot[1] /\ OnReader = slot[1] /\ slot[1] # 0
        BY <1>0, <2>1, <3>1, <3>4, <4>1
        DEF DataOf, CallbackErr, ReadFrom, Connected, OnReader
      <4>3. Tap!Tell(TRUE)
        BY <2>3, <3>1, <3>2, <4>2 DEF Tap!Tell, Tap!Marked
      <4> QED
        BY <4>3 DEF Tap!TapNext
    <3> QED
      BY <3>3, <3>4
  <2> QED
    BY <2>2, <2>4, <2>5
<1>10. CASE RetryCheckEmpty
  <2>1. /\ pc = "retryCheck" /\ pc' = "report" /\ readErr'
        /\ UNCHANGED <<world, ev, memory, calls>> /\ ev[1] \in Visit
    BY <1>0, <1>10 DEF RetryCheckEmpty, Reading
  <2>2. WillBeRead /\ SeenStay = ev[1] /\ ev[1] # 0
    BY <2>1 DEF WillBeRead, SeenStay
  <2>3. ~WillBeRead' /\ SeenStay' = 0 /\ UNCHANGED <<OnReader, visits>>
    BY <2>1 DEF WillBeRead, SeenStay, OnReader, world
  <2>4. ToldStays' = ToldStays \cup {SeenStay}
    BY <2>1, <2>2 DEF ToldStays, calls
  <2>5. DataOf' = 0
    BY <2>1 DEF DataOf, CallbackErr
  <2>6. Tap!Tell(FALSE)
    BY <2>2, <2>3, <2>4, <2>5 DEF Tap!Tell, Tap!Marked
  <2> QED
    BY <2>6 DEF Tap!TapNext
<1>11. CASE Report
  <2>1. /\ pc = "report" /\ pc' = "wait" /\ UNCHANGED <<world, ev, attempt>>
        /\ ev[1] \in Visit /\ told' = [told EXCEPT ![ev[1]] = Count(@)]
    BY <1>0, <1>11 DEF Report, NextReader, Reading
  <2>2. told'[ev[1]] > 0 /\ \A v \in Visit : v # ev[1] => told'[v] = told[v]
    <3>1. Count(told[ev[1]]) >= 1
      BY <1>a, <2>1, CountIsBounded
    <3>2. Count(told[ev[1]]) \in 0 .. CountCap
      BY <1>a, <2>1, CountIsBounded
    <3> QED
      BY <1>0, <2>1, <3>1, <3>2 DEF TypeOK, CountCap
  <2>3. ToldStays' = ToldStays
    BY <2>1, <2>2 DEF ToldStays
  <2>4. ~WillBeRead /\ ~WillBeRead'
    BY <2>1 DEF WillBeRead
  <2> QED
    BY <2>1, <2>3, <2>4
    DEF Tap!taps, SeenStay, DataOf, CallbackErr, OnReader, attempt, world
<1>12. CASE UNCHANGED vars
  BY <1>1, <1>4, <1>12 DEF vars, world, calls
<1> QED
  BY <1>2, <1>3, <1>5, <1>6, <1>7, <1>8, <1>9, <1>10, <1>11, <1>12
  DEF Next, People, Loop, Scan, RetryCheck, Tap!TapNext

(* With one reader, MonitorCards keeps the promise of Taps: each stay seen  *)
(* is reported once, with data of the card on the reader by then.           *)
THEOREM OneReaderTellsOfTaps == NumReaders = 1 => (Spec => TellsOfTaps)
<1> SUFFICES ASSUME NumReaders = 1 PROVE Spec => TellsOfTaps
  OBVIOUS
<1>1. Init => Tap!TapInit
  BY TapsInit
<1>2. GeneralInv /\ OneReaderInv /\ [Next]_vars => [Tap!TapNext]_(Tap!taps)
  BY TapsStep
<1> QED
  BY <1>1, <1>2, GeneralInvariant, OneReaderInvariant, PTL
  DEF Spec, TellsOfTaps, Tap!TapSpec
=============================================================================

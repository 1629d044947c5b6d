--------------------------- MODULE CardReadProofs ---------------------------
(***************************************************************************)
(* ReadCard implements ReadCardSpec, and what a call in which nothing went *)
(* wrong does, for every set of cards the assumption allows.               *)
(***************************************************************************)
EXTENDS CardRead, CardsProofs, TLAPS

(* A call holds one handle on one card from its Connect to its Disconnect.  *)
HandleWhileCalling ==
  IF pc = "idle" THEN ~handle /\ held = NoCard ELSE handle /\ held \in Card

(* What has been filled in of the data at each exchange, all of it from the *)
(* card the handle was opened on.                                           *)
UidRead(uid) == uid \in IF clean THEN UidsOf[held] ELSE UidsOf[held] \cup {NoText}

TypeRead(type) ==
  \E s \in BOOLEAN : type = DetectCardType(held, s) /\ (clean => s = TRUE)

ExpiryRead(type, expiry) ==
  expiry \in IF type # "driver_license" THEN {NoText}
             ELSE IF clean THEN {ExpiryOf[held]}
             ELSE {NoText, ExpiryOf[held]}

DataOfHeldCard ==
  /\ pc \in {"atr", "idm", "start", "trans", "shaken"} => data.expiry = NoText
  /\ pc \in {"start", "trans", "shaken"} => UidRead(data.uid)
  /\ pc \in {"selectMF", "remain", "selectExpire", "readExpire"} =>
       /\ UidRead(data.uid)
       /\ TypeRead(data.type)
       /\ data.type = "driver_license"
       /\ data.expiry = NoText
  /\ pc = "selectEnd" =>
       UidRead(data.uid) /\ TypeRead(data.type) /\ ExpiryRead(data.type, data.expiry)
  /\ pc = "disconnect" /\ ~failed =>
       Returned(data) \in IF clean THEN TrueResults(held) ELSE ReadResults(held)

(* An error means that some exchange went wrong, and so does an open        *)
(* session once SELECT_END had its turn.                                    *)
CleanSoFar ==
  /\ pc # "idle" /\ clean => ~failed
  /\ pc \in {"disconnect", "idle"} /\ clean => ~session
  /\ pc \in Exchanges => ~failed

ReadInv == TypeOK /\ HandleWhileCalling /\ DataOfHeldCard /\ CleanSoFar

(* No call has begun.                                                       *)
LEMMA ReadInit == Init => ReadInv
<1> SUFFICES ASSUME Init PROVE ReadInv
  OBVIOUS
<1> USE CardsAssumption DEF Init
<1>1. /\ session \in BOOLEAN /\ handle \in BOOLEAN /\ valid \in BOOLEAN
      /\ failed \in BOOLEAN /\ clean \in BOOLEAN
  BY Zenon
<1>2. ReadError \in Result
  BY ErrorIsResult
<1>3. TypeOK
  BY <1>1, <1>2 DEF TypeOK, PCs, Exchanges, NoData, PartialData
<1>4. HandleWhileCalling /\ DataOfHeldCard /\ CleanSoFar
  BY DEF HandleWhileCalling, DataOfHeldCard, CleanSoFar, Exchanges
<1> QED
  BY <1>3, <1>4 DEF ReadInv

(* Every exchange, and every card that comes or goes, keeps the invariant.  *)
LEMMA ReadStep == ReadInv /\ [Next]_vars => ReadInv'
<1> SUFFICES ASSUME ReadInv, [Next]_vars PROVE ReadInv'
  OBVIOUS
<1> USE CardsAssumption DEF ReadInv, card, Goto, Fail, Exchange, Answered, PCs, Exchanges, Replies
<1>0. clean \in BOOLEAN /\ valid \in BOOLEAN /\ failed \in BOOLEAN /\ handle \in BOOLEAN /\ session \in BOOLEAN
  BY DEF TypeOK
<1>1. ASSUME NEW c \in Card, Insert(c) PROVE ReadInv'
  <2> USE <1>0, <1>1 DEF Insert
  <2>1. session' \in BOOLEAN /\ handle' \in BOOLEAN /\ valid' \in BOOLEAN /\ failed' \in BOOLEAN /\ clean' \in BOOLEAN
    BY Zenon
  <2>2. /\ slot' \in Card \cup {NoCard} /\ held' \in Card \cup {NoCard}
        /\ pc' \in PCs
        /\ data' \in PartialData
        /\ result' \in Result
    BY DEF TypeOK, HandleWhileCalling, PartialData
  <2>t. TypeOK'
    BY <2>1, <2>2 DEF TypeOK
  <2>3. HandleWhileCalling'
    BY DEF HandleWhileCalling, TypeOK
  <2>4. DataOfHeldCard'
    BY DEF DataOfHeldCard, UidRead, TypeRead, ExpiryRead, TypeOK, HandleWhileCalling
  <2>5. CleanSoFar'
    BY DEF CleanSoFar
  <2> QED
    BY <2>t, <2>3, <2>4, <2>5
<1>2. CASE Remove
  <2> USE <1>0, <1>2 DEF Remove
  <2>1. session' \in BOOLEAN /\ handle' \in BOOLEAN /\ valid' \in BOOLEAN /\ failed' \in BOOLEAN /\ clean' \in BOOLEAN
    BY Zenon
  <2>2. /\ slot' \in Card \cup {NoCard} /\ held' \in Card \cup {NoCard}
        /\ pc' \in PCs
        /\ data' \in PartialData
        /\ result' \in Result
    BY DEF TypeOK, HandleWhileCalling, PartialData
  <2>t. TypeOK'
    BY <2>1, <2>2 DEF TypeOK
  <2>3. HandleWhileCalling'
    BY DEF HandleWhileCalling, TypeOK
  <2>4. DataOfHeldCard'
    BY DEF DataOfHeldCard, UidRead, TypeRead, ExpiryRead, TypeOK, HandleWhileCalling
  <2>5. CleanSoFar'
    BY DEF CleanSoFar
  <2> QED
    BY <2>t, <2>3, <2>4, <2>5
<1>3. CASE Connect
  <2> USE <1>0, <1>3 DEF Connect, FreshData
  <2>1. session' \in BOOLEAN /\ handle' \in BOOLEAN /\ valid' \in BOOLEAN /\ failed' \in BOOLEAN /\ clean' \in BOOLEAN
    BY Zenon
  <2>2. /\ slot' \in Card \cup {NoCard} /\ held' \in Card \cup {NoCard}
        /\ pc' \in PCs
        /\ data' \in PartialData
        /\ result' \in Result
    BY DEF TypeOK, HandleWhileCalling, PartialData, NoData
  <2>t. TypeOK'
    BY <2>1, <2>2 DEF TypeOK
  <2>3. HandleWhileCalling'
    BY DEF HandleWhileCalling, TypeOK
  <2>4. DataOfHeldCard'
    BY DEF DataOfHeldCard, NoData
  <2>5. CleanSoFar'
    BY DEF CleanSoFar
  <2> QED
    BY <2>t, <2>3, <2>4, <2>5
<1>4. CASE ConnectFails
  <2> USE <1>0, <1>4 DEF ConnectFails
  <2>1. session' \in BOOLEAN /\ handle' \in BOOLEAN /\ valid' \in BOOLEAN /\ failed' \in BOOLEAN /\ clean' \in BOOLEAN
    BY Zenon
  <2>2. /\ slot' \in Card \cup {NoCard} /\ held' \in Card \cup {NoCard}
        /\ pc' \in PCs
        /\ data' \in PartialData
        /\ result' \in Result
    BY ErrorIsResult DEF TypeOK, HandleWhileCalling
  <2>t. TypeOK'
    BY <2>1, <2>2 DEF TypeOK
  <2>3. HandleWhileCalling'
    BY DEF HandleWhileCalling, TypeOK
  <2>4. DataOfHeldCard'
    BY DEF DataOfHeldCard, UidRead, TypeRead, ExpiryRead, TypeOK, HandleWhileCalling
  <2>5. CleanSoFar'
    BY DEF CleanSoFar
  <2> QED
    BY <2>t, <2>3, <2>4, <2>5
<1>5. CASE GetATR
  <2> USE <1>0, <1>5 DEF GetATR
  <2>1. session' \in BOOLEAN /\ handle' \in BOOLEAN /\ valid' \in BOOLEAN /\ failed' \in BOOLEAN /\ clean' \in BOOLEAN
    BY Zenon
  <2>2. /\ slot' \in Card \cup {NoCard} /\ held' \in Card \cup {NoCard}
        /\ pc' \in PCs
        /\ data' \in PartialData
        /\ result' \in Result
    BY DEF TypeOK, HandleWhileCalling, PartialData
  <2>t. TypeOK'
    BY <2>1, <2>2 DEF TypeOK
  <2>3. HandleWhileCalling'
    BY DEF HandleWhileCalling, TypeOK
  <2>4. DataOfHeldCard'
    BY DEF DataOfHeldCard, UidRead, TypeRead, ExpiryRead, TypeOK, HandleWhileCalling
  <2>5. CleanSoFar'
    BY DEF CleanSoFar
  <2> QED
    BY <2>t, <2>3, <2>4, <2>5
<1>6. ASSUME NEW a \in Replies, GetIDm(a) PROVE ReadInv'
  <2> USE <1>0, <1>6 DEF GetIDm
  <2>1. session' \in BOOLEAN /\ handle' \in BOOLEAN /\ valid' \in BOOLEAN /\ failed' \in BOOLEAN /\ clean' \in BOOLEAN
    BY Zenon
  <2>2. /\ slot' \in Card \cup {NoCard} /\ held' \in Card \cup {NoCard}
        /\ pc' \in PCs
        /\ data' \in PartialData
        /\ result' \in Result
    BY DEF TypeOK, HandleWhileCalling, PartialData
  <2>t. TypeOK'
    BY <2>1, <2>2 DEF TypeOK
  <2>3. HandleWhileCalling'
    BY DEF HandleWhileCalling, TypeOK
  <2>4. DataOfHeldCard'
    <3>1. PICK uid \in IF a = "ok" THEN UidsOf[held] ELSE {NoText} :
            data' = [data EXCEPT !.uid = uid]
      OBVIOUS
    <3>2. data'.uid = uid /\ data'.expiry = NoText
      BY <3>1 DEF TypeOK, PartialData, DataOfHeldCard
    <3>3. clean' => a = "ok"
      BY Zenon
    <3>4. UidRead(data.uid)'
      BY <3>1, <3>2, <3>3 DEF UidRead
    <3> QED
      BY <3>2, <3>4 DEF DataOfHeldCard
  <2>5. CleanSoFar'
    BY DEF CleanSoFar
  <2> QED
    BY <2>t, <2>3, <2>4, <2>5
<1>7. ASSUME NEW a \in Replies, Start(a) PROVE ReadInv'
  <2> USE <1>0, <1>7 DEF Start
  <2>1. session' \in BOOLEAN /\ handle' \in BOOLEAN /\ valid' \in BOOLEAN /\ failed' \in BOOLEAN /\ clean' \in BOOLEAN
    BY Zenon
  <2>2. /\ slot' \in Card \cup {NoCard} /\ held' \in Card \cup {NoCard}
        /\ pc' \in PCs
        /\ data' \in PartialData
        /\ result' \in Result
    BY DEF TypeOK, HandleWhileCalling, PartialData
  <2>t. TypeOK'
    BY <2>1, <2>2 DEF TypeOK
  <2>3. HandleWhileCalling'
    BY DEF HandleWhileCalling, TypeOK
  <2>4. DataOfHeldCard'
    BY DEF DataOfHeldCard, UidRead, TypeRead, ExpiryRead, TypeOK, HandleWhileCalling
  <2>5. CleanSoFar'
    BY DEF CleanSoFar
  <2> QED
    BY <2>t, <2>3, <2>4, <2>5
<1>8. ASSUME NEW a \in Replies, StartTrans(a) PROVE ReadInv'
  <2> USE <1>0, <1>8 DEF StartTrans
  <2>1. session' \in BOOLEAN /\ handle' \in BOOLEAN /\ valid' \in BOOLEAN /\ failed' \in BOOLEAN /\ clean' \in BOOLEAN
    BY Zenon
  <2>2. /\ slot' \in Card \cup {NoCard} /\ held' \in Card \cup {NoCard}
        /\ pc' \in PCs
        /\ data' \in PartialData
        /\ result' \in Result
    BY DEF TypeOK, HandleWhileCalling, PartialData
  <2>t. TypeOK'
    BY <2>1, <2>2 DEF TypeOK
  <2>3. HandleWhileCalling'
    BY DEF HandleWhileCalling, TypeOK
  <2>4. DataOfHeldCard'
    BY DEF DataOfHeldCard, UidRead, TypeRead, ExpiryRead, TypeOK, HandleWhileCalling
  <2>5. CleanSoFar'
    BY DEF CleanSoFar
  <2> QED
    BY <2>t, <2>3, <2>4, <2>5
<1>9. ASSUME NEW a \in Replies, CheckShaken(a) PROVE ReadInv'
  <2> USE <1>0, <1>9 DEF CheckShaken, AfterType
  <2>0. PICK s \in BOOLEAN :
          /\ data' = [data EXCEPT !.type = DetectCardType(held, s)]
          /\ pc' = AfterType(DetectCardType(held, s)) /\ failed' = failed
          /\ a = "ok" => s = TRUE
    <3>1. SixBytes(a) \subseteq BOOLEAN /\ (a = "ok" => SixBytes(a) = {TRUE})
      BY DEF SixBytes, Replies
    <3> QED
      BY <3>1, Zenon DEF AfterType
  <2>1. session' \in BOOLEAN /\ handle' \in BOOLEAN /\ valid' \in BOOLEAN /\ failed' \in BOOLEAN /\ clean' \in BOOLEAN
    BY Zenon
  <2>2. /\ slot' \in Card \cup {NoCard} /\ held' \in Card \cup {NoCard}
        /\ pc' \in PCs
        /\ data' \in PartialData
        /\ result' \in Result
    BY <2>0, DetectedType DEF TypeOK, PartialData
  <2>t. TypeOK'
    BY <2>1, <2>2 DEF TypeOK
  <2>3. HandleWhileCalling'
    BY DEF HandleWhileCalling, TypeOK
  <2>4. DataOfHeldCard'
    <3> DEFINE type == DetectCardType(held, s)
    <3>1. data' = [data EXCEPT !.type = type]
      BY <2>0
    <3>2. data'.type = type /\ data'.uid = data.uid /\ data'.expiry = NoText
      BY <3>1 DEF TypeOK, PartialData, DataOfHeldCard
    <3>3. (clean' => clean) /\ (clean' => s = TRUE)
      BY <2>0, Zenon
    <3>4. TypeRead(data.type)'
      BY <3>2, <3>3, Zenon DEF TypeRead
    <3>5. UidRead(data.uid)'
      BY <3>2, <3>3 DEF UidRead, DataOfHeldCard
    <3>6. type # "driver_license" => ExpiryRead(data.type, data.expiry)'
      BY <3>2 DEF ExpiryRead
    <3>7. pc' = AfterType(type)
      BY <2>0
    <3> QED
      BY <3>2, <3>4, <3>5, <3>6, <3>7 DEF DataOfHeldCard
  <2>5. CleanSoFar'
    BY DEF CleanSoFar
  <2> QED
    BY <2>t, <2>3, <2>4, <2>5
<1>10. ASSUME NEW a \in Replies, SelectMF(a) PROVE ReadInv'
  <2> USE <1>0, <1>10 DEF SelectMF
  <2>1. session' \in BOOLEAN /\ handle' \in BOOLEAN /\ valid' \in BOOLEAN /\ failed' \in BOOLEAN /\ clean' \in BOOLEAN
    BY Zenon
  <2>2. /\ slot' \in Card \cup {NoCard} /\ held' \in Card \cup {NoCard}
        /\ pc' \in PCs
        /\ data' \in PartialData
        /\ result' \in Result
    BY DEF TypeOK, HandleWhileCalling, PartialData
  <2>t. TypeOK'
    BY <2>1, <2>2 DEF TypeOK
  <2>3. HandleWhileCalling'
    BY DEF HandleWhileCalling, TypeOK
  <2>4. DataOfHeldCard'
    BY DEF DataOfHeldCard, UidRead, TypeRead, ExpiryRead, TypeOK, HandleWhileCalling
  <2>5. CleanSoFar'
    BY DEF CleanSoFar
  <2> QED
    BY <2>t, <2>3, <2>4, <2>5
<1>11. ASSUME NEW a \in Replies, CheckRemain(a) PROVE ReadInv'
  <2> USE <1>0, <1>11 DEF CheckRemain
  <2>1. session' \in BOOLEAN /\ handle' \in BOOLEAN /\ valid' \in BOOLEAN /\ failed' \in BOOLEAN /\ clean' \in BOOLEAN
    BY Zenon
  <2>2. /\ slot' \in Card \cup {NoCard} /\ held' \in Card \cup {NoCard}
        /\ pc' \in PCs
        /\ data' \in PartialData
        /\ result' \in Result
    BY DEF TypeOK, HandleWhileCalling, PartialData
  <2>t. TypeOK'
    BY <2>1, <2>2 DEF TypeOK
  <2>3. HandleWhileCalling'
    BY DEF HandleWhileCalling, TypeOK
  <2>4. DataOfHeldCard'
    BY DEF DataOfHeldCard, UidRead, TypeRead, ExpiryRead, TypeOK, HandleWhileCalling
  <2>5. CleanSoFar'
    BY DEF CleanSoFar
  <2> QED
    BY <2>t, <2>3, <2>4, <2>5
<1>12. ASSUME NEW a \in Replies, SelectExpire(a) PROVE ReadInv'
  <2> USE <1>0, <1>12 DEF SelectExpire
  <2>1. session' \in BOOLEAN /\ handle' \in BOOLEAN /\ valid' \in BOOLEAN /\ failed' \in BOOLEAN /\ clean' \in BOOLEAN
    BY Zenon
  <2>2. /\ slot' \in Card \cup {NoCard} /\ held' \in Card \cup {NoCard}
        /\ pc' \in PCs
        /\ data' \in PartialData
        /\ result' \in Result
    BY DEF TypeOK, HandleWhileCalling, PartialData
  <2>t. TypeOK'
    BY <2>1, <2>2 DEF TypeOK
  <2>3. HandleWhileCalling'
    BY DEF HandleWhileCalling, TypeOK
  <2>4. DataOfHeldCard'
    BY DEF DataOfHeldCard, UidRead, TypeRead, ExpiryRead, TypeOK, HandleWhileCalling
  <2>5. CleanSoFar'
    BY DEF CleanSoFar
  <2> QED
    BY <2>t, <2>3, <2>4, <2>5
<1>13. ASSUME NEW a \in Replies, ReadExpire(a) PROVE ReadInv'
  <2> USE <1>0, <1>13 DEF ReadExpire
  <2>1. session' \in BOOLEAN /\ handle' \in BOOLEAN /\ valid' \in BOOLEAN /\ failed' \in BOOLEAN /\ clean' \in BOOLEAN
    BY Zenon
  <2>2. /\ slot' \in Card \cup {NoCard} /\ held' \in Card \cup {NoCard}
        /\ pc' \in PCs
        /\ data' \in PartialData
        /\ result' \in Result
    BY DEF TypeOK, HandleWhileCalling, PartialData
  <2>t. TypeOK'
    BY <2>1, <2>2 DEF TypeOK
  <2>3. HandleWhileCalling'
    BY DEF HandleWhileCalling, TypeOK
  <2>4. DataOfHeldCard'
    <3>1. /\ data'.type = data.type /\ data'.uid = data.uid
          /\ data'.expiry = IF a = "ok" THEN ExpiryOf[held] ELSE NoText
      BY DEF TypeOK, PartialData
    <3>2. (clean' => clean) /\ (clean' => a = "ok")
      BY Zenon
    <3>3. UidRead(data.uid)' /\ TypeRead(data.type)'
      BY <3>1, <3>2 DEF DataOfHeldCard, UidRead, TypeRead
    <3>4. ExpiryRead(data.type, data.expiry)'
      BY <3>1, <3>2 DEF DataOfHeldCard, ExpiryRead
    <3> QED
      BY <3>3, <3>4 DEF DataOfHeldCard
  <2>5. CleanSoFar'
    BY DEF CleanSoFar
  <2> QED
    BY <2>t, <2>3, <2>4, <2>5
<1>14. ASSUME NEW a \in Replies, SelectEnd(a) PROVE ReadInv'
  <2> USE <1>0, <1>14 DEF SelectEnd
  <2>1. session' \in BOOLEAN /\ handle' \in BOOLEAN /\ valid' \in BOOLEAN /\ failed' \in BOOLEAN /\ clean' \in BOOLEAN
    BY Zenon
  <2>2. /\ slot' \in Card \cup {NoCard} /\ held' \in Card \cup {NoCard}
        /\ pc' \in PCs
        /\ data' \in PartialData
        /\ result' \in Result
    <3>1. data.type \in CardTypes
      BY DetectedType DEF DataOfHeldCard, TypeRead
    <3>2. data.uid \in Text /\ data.expiry \in Text
      BY DEF TypeOK, PartialData
    <3>3. CardID(data.type, data.uid, data.expiry) \in Text
      BY <3>2 DEF CardID
    <3> QED
      BY <3>1, <3>2, <3>3 DEF TypeOK, PartialData, MkData
  <2>t. TypeOK'
    BY <2>1, <2>2 DEF TypeOK
  <2>3. HandleWhileCalling'
    BY DEF HandleWhileCalling, TypeOK
  <2>4. DataOfHeldCard'
    <3>1. held \in Card /\ pc' = "disconnect" /\ held' = held
      BY DEF HandleWhileCalling
    <3>2. UidRead(data.uid) /\ TypeRead(data.type) /\ ExpiryRead(data.type, data.expiry)
      BY DEF DataOfHeldCard
    <3>3. Returned(data') \in ReadResults(held)
      <4>1. PICK s \in BOOLEAN : data.type = DetectCardType(held, s)
        BY <3>2 DEF TypeRead
      <4>2. data.uid \in UidsOf[held] \cup {NoText}
        BY <3>2 DEF UidRead
      <4>3. data.expiry \in ExpiriesRead(held, DetectCardType(held, s))
        BY <3>2, <4>1 DEF ExpiryRead, ExpiriesRead
      <4> QED
        BY <3>1, <4>1, <4>2, <4>3, PartsMakeResult
    <3>4. ASSUME clean PROVE Returned(data') \in TrueResults(held)
      <4>1. data.type = TrueType(held)
        BY <3>2, <3>4, DetectedIsTrueType, Zenon DEF TypeRead
      <4>2. data.uid \in UidsOf[held]
        BY <3>2, <3>4 DEF UidRead
      <4>3. data.expiry = IF data.type = "driver_license" THEN ExpiryOf[held] ELSE NoText
        BY <3>2, <3>4 DEF ExpiryRead
      <4> QED
        BY <4>1, <4>2, <4>3 DEF TrueResults
    <3>5. clean' => clean
      BY Zenon
    <3> QED
      BY <3>1, <3>3, <3>4, <3>5 DEF DataOfHeldCard
  <2>5. CleanSoFar'
    BY DEF CleanSoFar
  <2> QED
    BY <2>t, <2>3, <2>4, <2>5
<1>15. CASE Disconnect
  <2> USE <1>0, <1>15 DEF Disconnect
  <2>1. session' \in BOOLEAN /\ handle' \in BOOLEAN /\ valid' \in BOOLEAN /\ failed' \in BOOLEAN /\ clean' \in BOOLEAN
    BY Zenon
  <2>2. /\ slot' \in Card \cup {NoCard} /\ held' \in Card \cup {NoCard}
        /\ pc' \in PCs
        /\ data' \in PartialData
        /\ result' \in Result
    <3>1. CASE failed
      BY <3>1, ErrorIsResult DEF TypeOK
    <3>2. CASE ~failed
      <4>1. held \in Card
        BY DEF HandleWhileCalling
      <4>2. Returned(data) \in ReadResults(held)
        BY <3>2, <4>1, TrueResultsAreResults DEF DataOfHeldCard
      <4>3. Returned(data) \in Result
        BY <4>1, <4>2, ReadResultsType, ErrorIsResult, DataIsResult
      <4> QED
        BY <3>2, <4>3 DEF TypeOK
    <3> QED
      BY <3>1, <3>2
  <2>t. TypeOK'
    BY <2>1, <2>2 DEF TypeOK
  <2>3. HandleWhileCalling'
    BY DEF HandleWhileCalling, TypeOK
  <2>4. DataOfHeldCard'
    BY DEF DataOfHeldCard, UidRead, TypeRead, ExpiryRead, TypeOK, HandleWhileCalling
  <2>5. CleanSoFar'
    BY DEF CleanSoFar
  <2> QED
    BY <2>t, <2>3, <2>4, <2>5
<1>16. CASE UNCHANGED vars
  BY <1>16 DEF vars, TypeOK, HandleWhileCalling, DataOfHeldCard, CleanSoFar, UidRead, TypeRead, ExpiryRead
<1> QED
  BY <1>1, <1>2, <1>3, <1>4, <1>5, <1>6, <1>7, <1>8, <1>9, <1>10, <1>11, <1>12, <1>13, <1>14, <1>15, <1>16 DEF Next, Transmit

(* The invariant holds in every reachable state.                            *)
THEOREM ReadInvariant == Spec => []ReadInv
<1>1. Init => ReadInv
  BY ReadInit
<1>2. ReadInv /\ [Next]_vars => ReadInv'
  BY ReadStep
<1> QED
  BY <1>1, <1>2, PTL DEF Spec

(* Every variable keeps its type, the parts of a card that were read among  *)
(* them.                                                                    *)
THEOREM ReadTypes == Spec => []TypeOK
<1>1. ReadInv => TypeOK
  BY DEF ReadInv
<1> QED
  BY <1>1, ReadInvariant, PTL

(* Every call returns with its handle closed.                               *)
THEOREM HandleIsClosed == Spec => []HandleClosed
<1>1. ReadInv => HandleClosed
  BY DEF ReadInv, HandleWhileCalling, HandleClosed
<1> QED
  BY <1>1, ReadInvariant, PTL

(* A call in which nothing went wrong ends the session it opened.           *)
THEOREM CleanCallEnds == Spec => []CleanCallEndsSession
<1>1. ReadInv => CleanCallEndsSession
  BY DEF ReadInv, CleanSoFar, CleanCallEndsSession
<1> QED
  BY <1>1, ReadInvariant, PTL

(* A call in which nothing went wrong returns the card's own type, UID and  *)
(* expiry date.                                                             *)
THEOREM CleanCallCompletes == Spec => []CleanCallIsComplete
<1>1. ReadInv => CleanCallIsComplete
  BY DEF ReadInv, CleanSoFar, DataOfHeldCard, CleanCallIsComplete
<1> QED
  BY <1>1, ReadInvariant, PTL

-----------------------------------------------------------------------------
(* The exchanges implement the call.                                        *)

(* Both modules speak of the same results.                                  *)
LEMMA SameResults ==
  /\ Abs!ReadError = ReadError
  /\ \A c : Abs!ReadResults(c) = ReadResults(c)
  BY DEF ReadError, NoData, ReadResults, Returned, MkData, CardID, DetectCardType,
     TypeByAtr, ExpiriesRead,
     Abs!ReadError, Abs!NoData, Abs!ReadResults, Abs!Returned, Abs!MkData,
     Abs!CardID, Abs!DetectCardType, Abs!TypeByAtr, Abs!ExpiriesRead

(* No call runs at first.                                                   *)
LEMMA AbsInit == Init => Abs!Init
<1> SUFFICES ASSUME Init PROVE Abs!Init
  OBVIOUS
<1>1. (pc # "idle") = FALSE
  BY Zenon DEF Init
<1> QED
  BY <1>1, SameResults, Zenon DEF Init, Abs!Init

(* A card that comes or goes does so in both, Connect begins the call or    *)
(* refuses it, Disconnect finishes it with one of the results of its card,  *)
(* and every exchange in between is invisible to the caller.                *)
LEMMA AbsStep == ReadInv /\ [Next]_vars => [Abs!Next]_(Abs!vars)
<1> SUFFICES ASSUME ReadInv, [Next]_vars PROVE [Abs!Next]_(Abs!vars)
  OBVIOUS
<1> USE DEF Abs!Next, Abs!vars, card
<1>1. ASSUME NEW c \in Card, Insert(c) PROVE Abs!Next
  BY <1>1 DEF Insert, Abs!Insert
<1>2. CASE Remove
  BY <1>2 DEF Remove, Abs!Remove
<1>3. CASE Connect
  BY <1>3 DEF Connect, FreshData, Abs!Begin
<1>4. CASE ConnectFails
  <2>1. ~(pc # "idle") /\ result' = ReadError /\ UNCHANGED <<slot, pc, held>>
    BY <1>4 DEF ConnectFails
  <2> QED
    BY <2>1, SameResults DEF Abs!Refuse
<1>5. CASE GetATR
  BY <1>5 DEF GetATR, Goto, Fail
<1>6. ASSUME NEW a \in Replies, Transmit(a) PROVE UNCHANGED Abs!vars
  BY <1>6
  DEF Transmit, GetIDm, Start, StartTrans, CheckShaken, AfterType, SelectMF, CheckRemain,
      SelectExpire, ReadExpire, SelectEnd, Exchange, Goto, Fail
<1>7. CASE Disconnect
  <2>1. held \in Card /\ pc = "disconnect"
    BY <1>7 DEF ReadInv, HandleWhileCalling, Disconnect
  <2>2. result' \in ReadResults(held)
    <3>1. CASE failed
      BY <1>7, <3>1 DEF Disconnect, ReadResults
    <3>2. CASE ~failed
      BY <1>7, <2>1, <3>2, TrueResultsAreResults DEF Disconnect, ReadInv, DataOfHeldCard
    <3> QED
      BY <3>1, <3>2
  <2>3. (pc # "idle")' = FALSE
    BY <1>7, Zenon DEF Disconnect
  <2> QED
    BY <1>7, <2>1, <2>2, <2>3, SameResults DEF Disconnect, Abs!Finish
<1>8. CASE UNCHANGED vars
  BY <1>8 DEF vars
<1> QED
  BY <1>1, <1>2, <1>3, <1>4, <1>5, <1>6, <1>7, <1>8 DEF Next

(* ReadCard looks at one card and returns a result of that card, whatever   *)
(* is put on the reader or taken away meanwhile.                            *)
THEOREM ReadCardImplements == Spec => ImplementsReadCardSpec
<1>1. Init => Abs!Init
  BY AbsInit
<1>2. ReadInv /\ [Next]_vars => [Abs!Next]_(Abs!vars)
  BY AbsStep
<1> QED
  BY <1>1, <1>2, ReadInvariant, PTL DEF Spec, Abs!Spec, ImplementsReadCardSpec
=============================================================================

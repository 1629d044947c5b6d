------------------------------ MODULE CardRead ------------------------------
(***************************************************************************)
(* LicenseReader.ReadCard, one action per exchange with the card, while    *)
(* the card may be taken away, and another put in its place, between any   *)
(* two of them.  A handle names the card SCardConnect found: once that     *)
(* card has left the slot every exchange on the handle fails.              *)
(***************************************************************************)
EXTENDS Cards

VARIABLES
  slot,     \* the card in the reader, or NoCard
  session,  \* the reader is in the session CMD_START opens, SELECT_END ends
  pc,       \* the next exchange of the running call, or "idle"
  handle,   \* an SCARDHANDLE is open
  held,     \* the card the handle was opened on, or NoCard
  valid,    \* that card has not left the slot since
  data,     \* the LicenseData being filled in
  failed,   \* the call is returning an error
  result,   \* what the last call returned
  clean     \* every exchange of the last call so far was answered with 9000

vars == <<slot, session, pc, handle, held, valid, data, failed, result, clean>>
card == <<slot, session>>

Exchanges == {"atr", "idm", "start", "trans", "shaken", "selectMF", "remain",
              "selectExpire", "readExpire", "selectEnd"}
PCs == Exchanges \cup {"idle", "disconnect"}

(* Data that is being filled in: the type is still "nil" at first.          *)
PartialData ==
  [type : CardTypes \cup {"nil"}, uid : Text, expiry : Text, id : Text]

TypeOK ==
  /\ slot \in Card \cup {NoCard}
  /\ session \in BOOLEAN
  /\ pc \in PCs
  /\ handle \in BOOLEAN
  /\ held \in Card \cup {NoCard}
  /\ valid \in BOOLEAN
  /\ data \in PartialData
  /\ failed \in BOOLEAN
  /\ result \in Result
  /\ clean \in BOOLEAN

Init ==
  /\ slot \in Card \cup {NoCard}
  /\ session = FALSE
  /\ pc = "idle"
  /\ handle = FALSE
  /\ held = NoCard
  /\ valid = FALSE
  /\ data = NoData
  /\ failed = FALSE
  /\ result = ReadError
  /\ clean = FALSE

-----------------------------------------------------------------------------
(* The hand that holds the cards.                                          *)

Insert(c) ==
  /\ slot = NoCard
  /\ slot' = c
  /\ UNCHANGED <<session, pc, handle, held, valid, data, failed, result, clean>>

Remove ==
  /\ slot # NoCard
  /\ slot' = NoCard
  /\ valid' = FALSE
  /\ UNCHANGED <<session, pc, handle, held, data, failed, result, clean>>

-----------------------------------------------------------------------------
(* The exchanges.  Card.Transmit returns an error ("failed"), or a reply    *)
(* whose status word is 9000 ("ok") or not ("refused").                     *)

Replies == {"ok", "refused", "failed"}

Answered(a) == a # "failed"

Exchange(step, a) ==
  /\ pc = step
  /\ a \in Replies
  /\ Answered(a) => valid
  /\ clean' = (clean /\ a = "ok")

FailAtOnce == failed' = TRUE /\ pc' = "idle"
Fail == failed' = TRUE /\ pc' = "disconnect"
Goto(step) == pc' = step /\ failed' = failed

OldData == data

(* The struct that a call fills in.                                         *)
FreshData == NoData

(* Connect opens the handle, then GetATR asks its status.                   *)
Connect ==
  /\ pc = "idle"
  /\ slot # NoCard
  /\ pc' = "atr"
  /\ handle' = TRUE
  /\ held' = slot
  /\ valid' = TRUE
  /\ data' = FreshData
  /\ failed' = FALSE
  /\ clean' = TRUE
  /\ UNCHANGED <<card, result>>

ConnectFails ==
  /\ pc = "idle"
  /\ result' = ReadError
  /\ clean' = FALSE
  /\ UNCHANGED <<card, pc, handle, held, valid, data, failed>>

GetATR ==
  /\ pc = "atr"
  /\ \/ valid /\ Goto("idm") /\ clean' = clean
     \/ Fail /\ clean' = FALSE
  /\ UNCHANGED <<card, handle, held, valid, data, result>>

GetIDm(a) ==
  /\ Exchange("idm", a)
  /\ \E uid \in IF a = "ok" THEN UidsOf[held] ELSE {NoText} :
       data' = [data EXCEPT !.uid = uid]
  /\ Goto("start")
  /\ UNCHANGED <<card, handle, held, valid, result>>

(* A failed exchange may have reached the reader or not.                    *)
Start(a) ==
  /\ Exchange("start", a)
  /\ session' \in CASE a = "ok" -> {TRUE}
                    [] a = "refused" -> {session}
                    [] a = "failed" -> {session, TRUE}
  /\ IF Answered(a) THEN Goto("trans") ELSE Fail
  /\ UNCHANGED <<slot, handle, held, valid, data, result>>

StartTrans(a) ==
  /\ Exchange("trans", a)
  /\ IF Answered(a) THEN Goto("shaken") ELSE Fail
  /\ UNCHANGED <<card, handle, held, valid, data, result>>

NoSelectEnd(type) == IF type = "driver_license" THEN "selectMF" ELSE "disconnect"

(* Only a licence is read further.                                          *)
AfterType(type) == IF type = "driver_license" THEN "selectMF" ELSE "selectEnd"

(* Whether the reply has its six bytes is all that is looked at, beside the *)
(* error: a refused command may come with them.                             *)
SixBytes(a) == CASE a = "ok" -> {TRUE} [] a = "refused" -> BOOLEAN [] a = "failed" -> {FALSE}

CheckShaken(a) ==
  /\ Exchange("shaken", a)
  /\ \E s \in SixBytes(a) :
       LET type == DetectCardType(held, s)
       IN  data' = [data EXCEPT !.type = type] /\ Goto(AfterType(type))
  /\ UNCHANGED <<card, handle, held, valid, result>>

(* readDriverLicenseData; its error is only logged.                         *)
SelectMF(a) ==
  /\ Exchange("selectMF", a)
  /\ Goto(IF Answered(a) THEN "remain" ELSE "selectEnd")
  /\ UNCHANGED <<card, handle, held, valid, data, result>>

CheckRemain(a) ==
  /\ Exchange("remain", a)
  /\ Goto("selectExpire")
  /\ UNCHANGED <<card, handle, held, valid, data, result>>

SelectExpire(a) ==
  /\ Exchange("selectExpire", a)
  /\ Goto(IF Answered(a) THEN "readExpire" ELSE "selectEnd")
  /\ UNCHANGED <<card, handle, held, valid, data, result>>

ReadExpire(a) ==
  /\ Exchange("readExpire", a)
  /\ data' = [data EXCEPT !.expiry = IF a = "ok" THEN ExpiryOf[held] ELSE NoText]
  /\ Goto("selectEnd")
  /\ UNCHANGED <<card, handle, held, valid, result>>

(* The CardID is computed and SELECT_END sent, its outcome ignored.         *)
SelectEnd(a) ==
  /\ Exchange("selectEnd", a)
  /\ session' \in CASE a = "ok" -> {FALSE}
                    [] a = "refused" -> {session}
                    [] a = "failed" -> {session, FALSE}
  /\ data' = MkData(data.type, data.uid, data.expiry)
  /\ Goto("disconnect")
  /\ UNCHANGED <<slot, handle, held, valid, result>>

(* The deferred Disconnect (SCARD_LEAVE_CARD), taken to succeed: its result  *)
(* is not looked at.  And the return.                                       *)
Disconnect ==
  /\ pc = "disconnect"
  /\ handle' = FALSE
  /\ held' = NoCard
  /\ valid' = FALSE
  /\ result' = IF failed THEN ReadError ELSE Returned(data)
  /\ pc' = "idle"
  /\ UNCHANGED <<card, data, failed, clean>>

Transmit(a) ==
  \/ GetIDm(a) \/ Start(a) \/ StartTrans(a) \/ CheckShaken(a)
  \/ SelectMF(a) \/ CheckRemain(a) \/ SelectExpire(a) \/ ReadExpire(a)
  \/ SelectEnd(a)

Next ==
  \/ \E c \in Card : Insert(c)
  \/ Remove
  \/ Connect
  \/ ConnectFails
  \/ GetATR
  \/ \E a \in Replies : Transmit(a)
  \/ Disconnect

Spec == Init /\ [][Next]_vars

-----------------------------------------------------------------------------
(* Whatever exchange fails, a call returns with its handle closed: the      *)
(* deferred Disconnect and the one in Connect cover every return.           *)
HandleClosed == pc = "idle" => ~handle /\ held = NoCard

(* A call in which nothing went wrong leaves the reader out of the session  *)
(* CMD_START opened, whatever earlier calls left behind.                    *)
CleanCallEndsSession == pc = "idle" /\ clean => ~session

(* A call in which nothing went wrong returns the card's true type, its     *)
(* expiry date if it is a licence and its UID, for each kind of card: also  *)
(* for a car inspection card whose ATR looks like a licence's.              *)
CleanCallIsComplete ==
  pc = "disconnect" /\ clean =>
    /\ ~failed
    /\ Returned(data) \in TrueResults(held)

(* The call as its caller sees it.  A card that comes or goes while the     *)
(* call runs never mixes with the one the call looks at.                    *)
Abs == INSTANCE ReadCardSpec WITH busy <- (pc # "idle")
ImplementsReadCardSpec == Abs!Spec
=============================================================================

-------------------------- MODULE ReaderAppProofs ---------------------------
(***************************************************************************)
(* What a reader process keeps true of its rows and time cards, for every  *)
(* number of cards, of lives and of reports, and wherever it ends.         *)
(***************************************************************************)
EXTENDS ReaderApp, RpcProofs, FiniteSetTheorems, SequenceTheorems

Count == 1 .. current

(* A process that runs was started; the callback works on a report, and has *)
(* a client when it sends.                                                  *)
CallbackHasReport ==
  /\ pc # "off" => life \in Life
  /\ pc \in CallbackPCs => current \in Call
  /\ pc \in {"fetch", "send", "wait"} => reports[current].read
  /\ pc \in CallbackPCs => data = reports[current].data
  /\ pc = "send" => fetched \in Backend

(* A life reports stays in the order in which they come, none twice, and    *)
(* when it sees the next, what it has read is of that one or of an earlier. *)
ReportsInOrder ==
  /\ visit \in {0, visits} /\ \A v \in told : v <= visits
  /\ pc = "read" => seen <= visits /\ \A v \in told : v < seen
  /\ \A i \in Count :
       /\ reports[i].visit <= visits /\ reports[i].data <= visits
       /\ reports[i].read => reports[i].visit <= reports[i].data
       /\ reports[i].life <= life
       /\ pc # "off" /\ reports[i].life = life =>
            /\ reports[i].visit \in told
            /\ pc = "read" => reports[i].data <= seen
  /\ \A i, j \in Count :
       i < j /\ reports[i].life = reports[j].life =>
         reports[i].visit < reports[j].visit /\ reports[i].data <= reports[j].visit

SuccessRow(i, id) == [report |-> i, status |-> "success", reader_id |-> id]

(* A row is of a report the callback has gone beyond.                       *)
RowsAreOfReports ==
  \A r \in rows : /\ r.report \in Count
                  /\ r.report = current => pc # "row"
                  /\ r.status = Status(r.report)
                  /\ \A q \in rows : q.report = r.report => q = r

(* Beyond the insert, the callback's report has its row.                    *)
CurrentHasRow ==
  pc \in {"fetch", "send", "wait"} =>
    current \in unwritten \/ SuccessRow(current, readerId) \in rows

(* A call is of a read whose row the callback has seen to; it carries that  *)
(* read, and the id of the row.                                             *)
CallOfRead(c) ==
  /\ c \in Count
  /\ c = current => pc \notin {"row", "fetch", "send"}
  /\ reports[c].read
  /\ called[c] = "CreateTimeCardLog"
  /\ request[c] \in Request
  /\ request[c].card.card_id = reports[c].data
  /\ c \in unwritten \/ SuccessRow(c, request[c].card.machine_ip) \in rows

CallsOfReads == \A c \in Call : at[c] # "none" => CallOfRead(c)

(* A time card is what a call asked for, and there when its method is done. *)
CardsOfCalls ==
  /\ \A k \in cards : k = TimeCardOf(k.report) /\ at[k.report] \in {"done", "broken"}
  /\ \A c \in Call : at[c] = "done" /\ ran[c] = "CreateTimeCardLog" =>
       TimeCardOf(c) \in cards

(* A supervisor's flag is the id of its readers.                            *)
FlagIsId ==
  supervised => /\ given.flag # Unset
                /\ pc # "off" => readerId = given.flag
                /\ \A r \in rows : r.reader_id = given.flag

(* The inductive invariant.                                                 *)
AppInv ==
  /\ TypeOK /\ RpcInv /\ CallbackHasReport
  /\ ReportsInOrder
  /\ RowsAreOfReports /\ EveryReportHasItsRow /\ CurrentHasRow
  /\ CallsOfReads /\ CardsOfCalls
  /\ FlagIsId

-----------------------------------------------------------------------------
(* Facts about ids, reports and requests.                                   *)

(* What is known of a reader's id, whatever the settings.                   *)
LEMMA Ids ==
  /\ \A flag, env, file \in Value : ReaderId(flag, env, file) \in Text
  /\ \A flag, env, file \in Value : Supervised(flag, env, file) \in [flag : Text, env : Value]
  /\ \A flag, env, file \in Value : flag # Unset => ReaderId(flag, env, file) = flag
  /\ Unset \notin Text
<1>1. Unset \notin Text
  BY ConfigAssumption DEF Text
<1>2. ASSUME NEW flag \in Value, NEW env \in Value, NEW file \in Value
      PROVE  ReaderId(flag, env, file) \in Text /\ LoadEnv(env, file) \in Value
  <2>1. LoadEnv(env, file) \in Value
    BY DEF LoadEnv
  <2>2. Setting(LoadEnv(env, file)) \in Text
    BY <2>1 DEF Setting, Value, Text
  <2> QED
    BY <2>1, <2>2 DEF ReaderId, Flagged, Value
<1> QED
  BY <1>1, <1>2 DEF Supervised, ReaderId, Flagged

(* A report appended leaves the others where they are.                      *)
LEMMA OneMoreReport ==
  ASSUME NEW r \in Report, reports \in Seq(Report), reports' = Append(reports, r)
  PROVE  /\ reports' \in Seq(Report)
         /\ current' = current + 1 /\ current \in Nat
         /\ reports'[current + 1] = r
         /\ \A i \in Count : reports'[i] = reports[i]
  BY DEF current, Count

-----------------------------------------------------------------------------
(* The steps of the process and of the backends are steps of the calls.     *)
LEMMA AppStepIsRpcStep ==
  TypeOK /\ CallbackHasReport /\ [Next]_vars => [RpcNext]_rpcVars
<1> SUFFICES ASSUME TypeOK, CallbackHasReport, [Next]_vars
             PROVE  RpcNext \/ UNCHANGED rpcVars
  OBVIOUS
<1>1. CASE Remote
  BY <1>1 DEF Remote, Serve, Answer, BreakOff, Drop, RpcNext
<1>2. CASE Callback
  <2>1. CASE WriteRow \/ Fetch
    BY <2>1 DEF WriteRow, Fetch
  <2>2. CASE Send
    <3>1. current \in Call /\ Invoke(current, "CreateTimeCardLog")
      BY <2>2 DEF Send, Goto, CallbackHasReport, CallbackPCs
    <3>2. "CreateTimeCardLog" \in Method
      BY AppAssumption DEF AuthMethod
    <3> QED
      BY <3>1, <3>2 DEF RpcNext
  <2>3. CASE Answered
    <3>1. current \in Call /\ ReturnOk(current)
      BY <2>3 DEF Answered, CallbackHasReport, CallbackPCs
    <3> QED
      BY <3>1 DEF RpcNext
  <2>4. CASE NotAnswered
    <3>1. current \in Call /\ ReturnError(current)
      BY <2>4 DEF NotAnswered, Goto, CallbackHasReport, CallbackPCs
    <3> QED
      BY <3>1 DEF RpcNext
  <2> QED
    BY <1>2, <2>1, <2>2, <2>3, <2>4 DEF Callback
<1>3. CASE Die
  <2>1. CASE pc = "wait"
    <3>1. current \in Call /\ ReturnError(current)
      BY <1>3, <2>1 DEF Die, CallbackHasReport, CallbackPCs
    <3> QED
      BY <3>1 DEF RpcNext
  <2> QED
    BY <1>3, <2>1 DEF Die
<1>4. CASE People \/ Launch \/ Start
  BY <1>4 DEF People, Launch, Start, NewLogger, NewLicenseReader,
     ListReaders
<1>5. CASE \E b \in Backend : Relink(b)
  BY <1>5 DEF Relink
<1>6. CASE See \/ \E read \in BOOLEAN : CallBack(read)
  BY <1>6 DEF See, CallBack
<1>7. CASE UNCHANGED vars
  BY <1>7 DEF vars
<1> QED
  BY <1>1, <1>2, <1>3, <1>4, <1>5, <1>6, <1>7 DEF Next

-----------------------------------------------------------------------------
(* The steps.                                                               *)

(* The start of the process touches none of what it keeps.                  *)
LEMMA StartEffect ==
  Start =>
    /\ UNCHANGED <<rpcVars, how, life, readerId, taps, reports, store, client, sent>>
    /\ pc \in StartPCs /\ pc' \in StartPCs \cup {"watch"}
  BY DEF Start, NewLogger, NewLicenseReader, ListReaders, Goto,
     KeptTables, StartPCs, client, store

(* Nor do the backends, but for their cards.                                *)
LEMMA RemoteEffect == Remote => UNCHANGED <<process, request>>
<1>1. ASSUME NEW c \in Call, Serve(c) \/ Drop(c) PROVE UNCHANGED <<process, request>>
  BY <1>1 DEF Serve, Drop, sent
<1>2. ASSUME NEW c \in Call, Answer(c) \/ BreakOff(c) PROVE UNCHANGED <<process, request>>
  BY <1>2 DEF Answer, BreakOff
<1> QED
  BY <1>1, <1>2 DEF Remote

(* An end of the process, with or without a call open.                      *)
LEMMA EndEffect ==
  Die \/ (Answered /\ Off) =>
    /\ Off /\ pc # "off"
    /\ UNCHANGED <<cstack, sstack, called, at, ran>>
  BY DEF Die, Answered, ReturnOk, ReturnError, Return, rpcVars

(* An answer the process goes on with.                                      *)
LEMMA ReturnEffect ==
  (Answered /\ ~Off) \/ NotAnswered =>
    /\ Goto("wait", "watch")
    /\ UNCHANGED <<cstack, sstack, called, at, ran, taps, reports, store, client, sent>>
  BY DEF Answered, NotAnswered, ReturnOk, ReturnError, Return

(* The kinds of step.                                                       *)
LEMMA Kinds ==
  [Next]_vars =>
    \/ People
    \/ Launch \/ Start \/ \E b \in Backend : Relink(b)
    \/ See \/ \E read \in BOOLEAN : CallBack(read)
    \/ WriteRow \/ Fetch \/ Send
    \/ (Answered /\ ~Off) \/ NotAnswered
    \/ Die \/ (Answered /\ Off)
    \/ Remote
    \/ UNCHANGED vars
  BY DEF Next, Callback

(* There are as many reports as calls of the callback, each of its type.    *)
LEMMA ReportsTyped ==
  ASSUME TypeOK PROVE current \in Nat /\ \A i \in Count : reports[i] \in Report
<1>1. reports \in Seq(Report)
  BY DEF TypeOK
<1>2. \A S : \A q \in Seq(S) : Len(q) \in Nat /\ \A i \in 1 .. Len(q) : q[i] \in S
  OBVIOUS
<1> QED
  BY <1>1, <1>2 DEF current, Count

(* The callback's report is one of them.                                    *)
LEMMA CurrentReport ==
  ASSUME TypeOK, current \in Call PROVE reports[current] \in Report
<1>1. reports \in Seq(Report) /\ Len(reports) \in Nat /\ Len(reports) >= 1
  BY AppAssumption DEF TypeOK, current
<1> QED
  BY <1>1 DEF current

(* What the callback is told of.                                            *)
NewReport(read) ==
  [visit |-> seen, life |-> life, read |-> read, data |-> IF read THEN visit ELSE 0]

(* It is appended, and the other reports stay where they are.               *)
LEMMA ToldReport ==
  ASSUME AppInv, NEW read \in BOOLEAN, CallBack(read)
  PROVE  /\ NewReport(read) \in Report /\ seen \in Visit
         /\ reports' \in Seq(Report)
         /\ current' = current + 1 /\ current \in Nat
         /\ reports'[current'] = NewReport(read)
         /\ \A i \in Count : reports'[i] = reports[i]
         /\ Count' = Count \cup {current'} /\ current' \notin Count
<1>1. pc = "read" /\ life \in Life /\ (read => visit \in Visit)
  BY TapAssumption
  DEF CallBack, Tell, Goto, AppInv, TypeOK, TapTypeOK, CallbackHasReport, Visit
<1>2. seen \in Visit /\ visit \in 0 .. MaxVisits
  BY <1>1, TapAssumption DEF CallBack, Tell, AppInv, TypeOK, TapTypeOK, Visit
<1>3. NewReport(read) \in Report
  BY <1>1, <1>2, TapAssumption DEF NewReport, Report, Visit
<1>4. /\ reports' \in Seq(Report)
      /\ current' = current + 1 /\ current \in Nat
      /\ reports'[current + 1] = NewReport(read)
      /\ \A i \in Count : reports'[i] = reports[i]
  BY <1>3, OneMoreReport DEF CallBack, Tell, NewReport, AppInv, TypeOK
<1> QED
  BY <1>2, <1>3, <1>4 DEF Count

(* What was read is of a card.                                              *)
LEMMA ReadHasData ==
  ASSUME AppInv, current \in Call, reports[current].read
  PROVE  reports[current].data \in Visit
<1>1. reports[current] \in Report /\ current \in Count
  BY CurrentReport, AppAssumption DEF AppInv, TypeOK, Count, current
<1> QED
  BY <1>1, TapAssumption DEF AppInv, ReportsInOrder, Report, Visit

-----------------------------------------------------------------------------
(* Every step keeps the types.                                              *)
LEMMA TypeStep == AppInv /\ [Next]_vars => TypeOK'
<1> SUFFICES ASSUME AppInv, [Next]_vars PROVE TypeOK'
  OBVIOUS
<1>0. TypeOK /\ CallbackHasReport
  BY DEF AppInv
<1>1. RpcTypeOK'
  <2>1. RpcInv'
    BY <1>0, AppStepIsRpcStep, RpcStep DEF AppInv
  <2> QED
    BY <2>1 DEF RpcInv
<1> USE <1>0, <1>1, AppAssumption, TapAssumption DEF TypeOK, TapTypeOK, taps
<1>2. CASE People
  <2>1. visit' \in 0 .. MaxVisits /\ visits' \in 0 .. MaxVisits
    BY <1>2 DEF People, PutCard, TakeCard
  <2> QED
    BY <1>2, <2>1 DEF People, PutCard, TakeCard, how, store, client, sent, current
<1>3. CASE Launch
  BY <1>3, Ids DEF Launch, how, store, client, sent, StartPCs, current
<1>4. CASE Start
  BY <1>4, StartEffect DEF how, store, client, sent, current
<1>5. CASE \E b \in Backend : Relink(b)
  BY <1>5 DEF Relink, how, store, sent, current
<1>6. ASSUME NEW read \in BOOLEAN, CallBack(read) PROVE TypeOK'
  <2>1. reports' \in Seq(Report) /\ current' <= MaxReports
    BY <1>6, ToldReport DEF CallBack, Tell
  <2> QED
    BY <1>6, <2>1
    DEF CallBack, Tell, Goto, Marked, Visit, how, store, client, sent, CallbackPCs
<1>6a. CASE See
  BY <1>6a DEF See, Look, Goto, how, store, client, sent, current
<1>7. CASE WriteRow
  <2>1. current \in Call
    BY <1>7 DEF WriteRow, Goto, CallbackHasReport, CallbackPCs
  <2>2. rows' \subseteq Row /\ unwritten' \subseteq Call
    <3>1. Status(current) \in {"success", "error"}
      BY DEF Status
    <3>2. [report |-> current, status |-> Status(current),
           reader_id |-> readerId] \in Row
      BY <2>1, <3>1 DEF Row
    <3> QED
      BY <1>7, <2>1, <3>2 DEF WriteRow, LogReadHistory, InsertFails
  <2> QED
    BY <1>7, <2>2
    DEF WriteRow, AfterRow, Goto, how, client, sent, CallbackPCs, current
<1>8. CASE Fetch
  BY <1>8 DEF Fetch, AfterFetch, Goto, how, store, sent, CallbackPCs, current
<1>9. CASE Send
  <2>1. current \in Call /\ fetched \in Backend
    BY <1>9 DEF Send, Goto, CallbackHasReport, CallbackPCs
  <2>2. reports[current].data \in Visit
    BY <1>9, <2>1, ReadHasData DEF Send, Goto, CallbackHasReport
  <2>3. request' \in [Call -> Request \cup {NoRequest}]
    <3>1. data \in Visit
      BY <1>9, <2>1, <2>2 DEF Send, Goto, CallbackHasReport, CallbackPCs
    <3> QED
      BY <1>9, <2>1, <3>1 DEF Send, Request, CreateTimeCardLogRequest, DataRead
  <2> QED
    BY <1>9, <2>3 DEF Send, Goto, how, store, CallbackPCs, current
<1>10. CASE (Answered /\ ~Off) \/ NotAnswered
  BY <1>10, ReturnEffect DEF Goto, how, store, client, sent, current
<1>11. CASE Die \/ (Answered /\ Off)
  <2>1. Off
    BY <1>11, EndEffect
  <2>2. unwritten' \subseteq Call
    BY <2>1 DEF Off, CallbackHasReport, CallbackPCs
  <2>3. readerId' \in Text
    BY <2>1 DEF Off, Text
  <2> QED
    BY <2>1, <2>2, <2>3 DEF Off, Forget, how, sent, current
<1>12. CASE Remote
  <2>1. cards' \subseteq Card
    <3>1. ASSUME NEW c \in Call, at[c] = "running", CreateTimeCardLog(c) PROVE cards' \subseteq Card
      <4>1. CASE ran[c] = "CreateTimeCardLog"
        <5>1. request[c] \in Request
          BY <3>1 DEF AppInv, CallsOfReads, CallOfRead
        <5>2. TimeCardOf(c) \in Card
          BY <5>1 DEF TimeCardOf, Card, Request, CreateTimeCardLogRequest, TimeCardLog
        <5> QED
          BY <3>1, <5>2 DEF CreateTimeCardLog
      <4> QED
        BY <3>1, <4>1 DEF CreateTimeCardLog
    <3> QED
      BY <1>12, <3>1 DEF Remote, Serve, Answer, BreakOff, Drop, End, Break, Move, sent
  <2> QED
    BY <1>12, <2>1, RemoteEffect
    DEF process, how, store, client, current
<1>13. CASE UNCHANGED vars
  BY <1>13 DEF vars, process, how, store, client, sent, current
<1> QED
  BY <1>2, <1>3, <1>4, <1>5, <1>6, <1>6a, <1>7, <1>8, <1>9, <1>10, <1>11, <1>12, <1>13, Kinds

-----------------------------------------------------------------------------
(* Reports.                                                                 *)

(* The callback goes on from a read only, and sends with a client only.     *)
LEMMA CallbackStep == AppInv /\ [Next]_vars => CallbackHasReport'
<1> SUFFICES ASSUME AppInv, [Next]_vars PROVE CallbackHasReport'
  OBVIOUS
<1>0. TypeOK /\ CallbackHasReport
  BY DEF AppInv
<1> USE <1>0, AppAssumption DEF CallbackHasReport, CallbackPCs, taps
<1>1. CASE People
  BY <1>1 DEF People, PutCard, TakeCard, client, current
<1>2. CASE Launch
  BY <1>2 DEF Launch, TypeOK, Life
<1>3. CASE Start
  BY <1>3, StartEffect DEF StartPCs
<1>4. CASE \E b \in Backend : Relink(b)
  BY <1>4 DEF Relink, current
<1>5. ASSUME NEW read \in BOOLEAN, CallBack(read) PROVE CallbackHasReport'
  <2>1. data' = NewReport(read).data /\ reports'[current'] = NewReport(read)
    BY <1>5, ToldReport DEF CallBack, Tell, NewReport
  <2>2. current' \in Call /\ pc' = "row" /\ pc # "off" /\ UNCHANGED <<life, fetched>>
    BY <1>5, ToldReport DEF TypeOK, CallBack, Tell, Goto, client
  <2> QED
    BY <2>1, <2>2
<1>5a. CASE See
  BY <1>5a DEF See, Look, Goto
<1>6. CASE WriteRow
  BY <1>6 DEF WriteRow, AfterRow, Goto, current
<1>7. CASE Fetch
  <2>1. link # NoBackend => link \in Backend
    BY DEF TypeOK
  <2> QED
    BY <1>7, <2>1 DEF Fetch, AfterFetch, Goto, current
<1>8. CASE Send
  BY <1>8 DEF Send, Goto, current
<1>9. CASE (Answered /\ ~Off) \/ NotAnswered
  BY <1>9, ReturnEffect DEF Goto
<1>10. CASE Die \/ (Answered /\ Off)
  BY <1>10, EndEffect DEF Off
<1>11. CASE Remote
  BY <1>11, RemoteEffect DEF process, client, current
<1>12. CASE UNCHANGED vars
  BY <1>12 DEF vars, process, client, current
<1> QED
  BY <1>1, <1>2, <1>3, <1>4, <1>5, <1>5a, <1>6, <1>7, <1>8, <1>9, <1>10, <1>11,
     <1>12, Kinds

(* Cards come one after the other; the monitor sees the one that is there   *)
(* unless it was the last to be reported; only the callback adds a report.  *)
LEMMA ReportsStep == AppInv /\ [Next]_vars => ReportsInOrder'
<1> SUFFICES ASSUME AppInv, [Next]_vars PROVE ReportsInOrder'
  OBVIOUS
<1>0. /\ ReportsInOrder /\ visits \in Nat /\ life \in Nat /\ visit \in Nat
      /\ seen \in Nat /\ told \subseteq Nat
      /\ \A i \in Count : /\ reports[i].visit \in Nat /\ reports[i].life \in Nat
                          /\ reports[i].data \in Nat
  <2>1. \A i \in Count : reports[i].visit \in Visit /\ reports[i].life \in Life
                        /\ reports[i].data \in 0 .. MaxVisits
    BY ReportsTyped DEF AppInv, Report
  <2> QED
    BY <2>1, AppAssumption, TapAssumption DEF AppInv, TypeOK, TapTypeOK, Visit, Life
<1>00. ASSUME UNCHANGED reports, life' \in Nat, life <= life',
              visits' \in Nat, visits <= visits', visit' \in {0, visits'},
              \A v \in told' : v <= visits', seen' \in Nat,
              pc' = "read" => seen' <= visits' /\ \A v \in told' : v < seen',
              pc' # "off" => \/ life < life'
                            \/ /\ pc # "off" /\ told \subseteq told'
                               /\ pc' = "read" => pc = "read" /\ seen' = seen
       PROVE  ReportsInOrder'
  <2>1. Count' = Count
    BY <1>00 DEF Count, current
  <2>2. ASSUME NEW i \in Count
        PROVE  /\ reports[i].visit <= visits' /\ reports[i].data <= visits'
               /\ reports[i].read => reports[i].visit <= reports[i].data
               /\ reports[i].life <= life'
               /\ pc' # "off" /\ reports[i].life = life' =>
                    /\ reports[i].visit \in told'
                    /\ pc' = "read" => reports[i].data <= seen'
    BY <1>0, <1>00 DEF ReportsInOrder
  <2> QED
    BY <1>0, <1>00, <2>1, <2>2 DEF ReportsInOrder
<1>1. CASE People
  <2>1. UNCHANGED <<reports, life, pc, seen, told>>
    BY <1>1 DEF People, PutCard, TakeCard
  <2>2. visit' \in {0, visits'} /\ visits' \in {visits, visits + 1}
    BY <1>0, <1>1 DEF People, PutCard, TakeCard, ReportsInOrder
  <2> QED
    BY <1>0, <1>00, <2>1, <2>2 DEF ReportsInOrder
<1>2. CASE Launch
  BY <1>0, <1>00, <1>2 DEF Launch, taps, ReportsInOrder
<1>3. CASE Start
  BY <1>0, <1>3, StartEffect DEF taps, ReportsInOrder, Count, current, StartPCs
<1>4. CASE \E b \in Backend : Relink(b)
  BY <1>0, <1>4 DEF Relink, taps, ReportsInOrder, Count, current
<1>5. CASE See
  <2>1. /\ UNCHANGED <<reports, life, visit, visits, told>> /\ seen' = visit
        /\ pc = "watch" /\ pc' = "read" /\ visit \notin told \cup {0}
    BY <1>5 DEF See, Look, Goto
  <2> QED
    BY <1>0, <2>1 DEF ReportsInOrder, Count, current
<1>6. ASSUME NEW read \in BOOLEAN, CallBack(read) PROVE ReportsInOrder'
  <2>1. /\ pc = "read" /\ pc' = "row" /\ (read => visit = visits)
        /\ UNCHANGED <<life, visit, visits>> /\ told' = told \cup {seen}
    BY <1>0, <1>6 DEF CallBack, Tell, Goto, Marked, ReportsInOrder
  <2>2. /\ current' = current + 1 /\ current \in Nat
        /\ reports'[current'] = NewReport(read)
        /\ \A i \in Count : reports'[i] = reports[i]
        /\ Count' = Count \cup {current'} /\ current' \notin Count
        /\ \A i \in Count : i < current'
    BY <1>6, ToldReport DEF Count
  <2>3. /\ NewReport(read).visit = seen /\ NewReport(read).life = life
        /\ NewReport(read).read = read
        /\ NewReport(read).data = IF read THEN visit ELSE 0
    BY DEF NewReport
  <2>4. visit' \in {0, visits'} /\ \A v \in told' : v <= visits'
    BY <1>0, <2>1 DEF ReportsInOrder
  <2>5. ASSUME NEW i \in Count'
        PROVE  /\ reports'[i].visit <= visits' /\ reports'[i].data <= visits'
               /\ reports'[i].read => reports'[i].visit <= reports'[i].data
               /\ reports'[i].life <= life'
               /\ reports'[i].life = life' => reports'[i].visit \in told'
    <3>1. CASE i \in Count
      BY <1>0, <2>1, <2>2, <3>1 DEF ReportsInOrder
    <3>2. CASE i = current'
      BY <1>0, <2>1, <2>2, <2>3, <3>2 DEF ReportsInOrder
    <3> QED
      BY <2>2, <3>1, <3>2
  <2>6. ASSUME NEW i \in Count', NEW j \in Count', i < j,
               reports'[i].life = reports'[j].life
        PROVE  /\ reports'[i].visit < reports'[j].visit
               /\ reports'[i].data <= reports'[j].visit
    <3>1. i \in Count
      BY <2>2, <2>6 DEF Count
    <3>2. CASE j \in Count
      BY <1>0, <2>2, <2>6, <3>1, <3>2 DEF ReportsInOrder
    <3>3. CASE j = current'
      BY <1>0, <2>1, <2>2, <2>3, <2>6, <3>1, <3>3 DEF ReportsInOrder
    <3> QED
      BY <2>2, <3>2, <3>3
  <2> QED
    BY <2>1, <2>4, <2>5, <2>6 DEF ReportsInOrder
<1>7. CASE WriteRow \/ Fetch \/ Send \/ (Answered /\ ~Off) \/ NotAnswered
  <2>1. UNCHANGED <<taps, reports, life>> /\ pc # "off" /\ pc' # "read"
    BY <1>7, ReturnEffect
    DEF WriteRow, Fetch, Send, Goto, AfterRow, AfterFetch
  <2> QED
    BY <1>0, <2>1 DEF taps, ReportsInOrder, Count, current
<1>8. CASE Die \/ (Answered /\ Off)
  BY <1>0, <1>00, <1>8, EndEffect DEF Off, Forget, ReportsInOrder
<1>9. CASE Remote
  BY <1>0, <1>9, RemoteEffect DEF process, taps, ReportsInOrder, Count, current
<1>10. CASE UNCHANGED vars
  BY <1>0, <1>10 DEF vars, process, taps, ReportsInOrder, Count, current
<1> QED
  BY <1>1, <1>2, <1>3, <1>4, <1>5, <1>6, <1>7, <1>8, <1>9, <1>10, Kinds

-----------------------------------------------------------------------------
(* Rows.                                                                    *)
RowInv == RowsAreOfReports /\ EveryReportHasItsRow /\ CurrentHasRow

(* One insert at most is made for a report, before the callback goes on; an *)
(* insert not made is remembered as such when the process ends.             *)
LEMMA RowsStep == AppInv /\ [Next]_vars => RowInv'
<1> SUFFICES ASSUME AppInv, [Next]_vars PROVE RowInv'
  OBVIOUS
<1>0. TypeOK /\ CallbackHasReport /\ RowInv
  BY DEF AppInv, RowInv
<1> USE <1>0 DEF RowInv, RowsAreOfReports, EveryReportHasItsRow, CurrentHasRow
<1>1. CASE UNCHANGED <<reports, rows, unwritten>> /\ UNCHANGED <<pc, readerId>>
  BY <1>1 DEF Count, current, Status
<1>2. CASE /\ UNCHANGED <<reports, rows, unwritten>>
           /\ pc \notin CallbackPCs /\ pc' \notin CallbackPCs
  BY <1>2 DEF Count, current, Status, CallbackPCs
<1>3. CASE People \/ \E b \in Backend : Relink(b)
  BY <1>1, <1>3 DEF People, Relink, taps, store
<1>4. CASE Launch
  BY <1>2, <1>4 DEF Launch, taps, store, CallbackPCs
<1>5. CASE Start
  BY <1>2, <1>5, StartEffect DEF taps, store, CallbackPCs, StartPCs
<1>6. ASSUME NEW read \in BOOLEAN, CallBack(read) PROVE RowInv'
  <2>2. /\ current' = current + 1 /\ current \in Nat
        /\ \A i \in Count : reports'[i] = reports[i]
    BY <1>6, ToldReport
  <2>3. Count' = Count \cup {current'}
    BY <2>2 DEF Count
  <2>4. \A i \in Count : Status(i)' = Status(i) /\ i # current'
    BY <2>2 DEF Status, Count
  <2>5. pc = "read" /\ pc' = "row" /\ UNCHANGED <<rows, unwritten>>
    BY <1>6 DEF CallBack, Goto, store
  <2> QED
    BY <2>3, <2>4, <2>5 DEF Count
<1>6a. CASE See
  BY <1>2, <1>6a DEF See, Goto, store, CallbackPCs
<1>7. CASE WriteRow
  <2> DEFINE new == [report |-> current, status |-> Status(current), reader_id |-> readerId]
  <2>1. UNCHANGED <<reports, readerId>> /\ pc = "row" /\ pc' = AfterRow
    BY <1>7 DEF WriteRow, Goto, taps
  <2>2. \/ rows' = rows \cup {new} /\ unwritten' = unwritten
        \/ rows' = rows /\ unwritten' = unwritten \cup {current}
    BY <1>7 DEF WriteRow, LogReadHistory, InsertFails
  <2>3. current \in Count /\ \A r \in rows : r.report # current
    BY <2>1, AppAssumption DEF CallbackHasReport, CallbackPCs, TypeOK, Count, current
  <2>4. pc' \in {"fetch", "watch"} /\ (pc' = "fetch" => Status(current) = "success")
    BY <2>1 DEF AfterRow, Status
  <2>5. Count' = Count /\ current' = current /\ \A i : Status(i)' = Status(i)
    BY <2>1 DEF Count, current, Status
  <2>6. new.report = current /\ new.status = Status(current)
    OBVIOUS
  <2>7. RowsAreOfReports'
    BY <2>1, <2>2, <2>3, <2>4, <2>5, <2>6
  <2>8. EveryReportHasItsRow'
    <3>1. ASSUME NEW i \in Count, i # current
          PROVE  \/ i \in unwritten'
                 \/ \E r \in rows' : /\ r.report = i /\ r.status = Status(i)
                                    /\ \A q \in rows' : q.report = i => q = r
      BY <2>1, <2>2, <2>6, <3>1 DEF Count
    <3>2. \/ current \in unwritten'
          \/ \E r \in rows' :
               /\ r.report = current /\ r.status = Status(current)
               /\ \A q \in rows' : q.report = current => q = r
      BY <2>2, <2>3, <2>6
    <3> QED
      BY <2>5, <3>1, <3>2 DEF Count
  <2>9. CurrentHasRow'
    BY <2>1, <2>2, <2>4, <2>5 DEF SuccessRow
  <2> QED
    BY <2>7, <2>8, <2>9
<1>8. CASE Fetch
  BY <1>8 DEF Fetch, AfterFetch, Goto, taps, store, Count, current, Status
<1>9. CASE Send
  BY <1>9 DEF Send, Goto, taps, store, Count, current, Status
<1>10. CASE (Answered /\ ~Off) \/ NotAnswered
  BY <1>10, ReturnEffect DEF Goto, taps, store, Count, current, Status
<1>11. CASE Die \/ (Answered /\ Off)
  <2>1. /\ UNCHANGED <<reports, rows>> /\ pc' = "off"
        /\ unwritten' = IF pc = "row" THEN unwritten \cup {current} ELSE unwritten
    BY <1>11, EndEffect DEF Off
  <2> QED
    BY <2>1 DEF Count, current, Status
<1>12. CASE Remote
  BY <1>1, <1>12, RemoteEffect DEF process, taps, store
<1>13. CASE UNCHANGED vars
  BY <1>1, <1>13 DEF vars, process, taps, store
<1> QED
  BY <1>3, <1>4, <1>5, <1>6, <1>6a, <1>7, <1>8, <1>9, <1>10, <1>11, <1>12, <1>13, Kinds

-----------------------------------------------------------------------------
(* Calls and time cards.                                                    *)

(* What a step of the backends, or of the way to them, does to one call.    *)
LEMMA RemoteMoves ==
  ASSUME RpcInv, Remote
  PROVE  \E d \in Call :
           /\ UNCHANGED <<process, request, called>>
           /\ at[d] \in {"sent", "running"}
           /\ at' \in [Call -> Place] /\ ran' \in [Call -> Method \cup {NoMethod}]
           /\ \A c \in Call : c # d => at'[c] = at[c] /\ ran'[c] = ran[c]
           /\ \/ at'[d] \in {"dropped", "running"} /\ UNCHANGED cards
              \/ at'[d] = "done" /\ UNCHANGED ran /\ CreateTimeCardLog(d)
              \/ /\ at'[d] = "broken" /\ UNCHANGED ran
                 /\ CreateTimeCardLog(d) \/ UNCHANGED cards
<1>1. at \in [Call -> Place] /\ ran \in [Call -> Method \cup {NoMethod}]
  BY DEF RpcInv, RpcTypeOK
<1>2. UNCHANGED <<process, request>>
  BY RemoteEffect
<1>3. PICK d \in Call : Serve(d) \/ Answer(d) \/ BreakOff(d) \/ Drop(d)
  BY DEF Remote
<1>4. CASE Serve(d)
  <2>1. Serves(d) \in Method
    BY <1>4, RpcAssumption DEF Serve, Begin, Implemented, Known, Serves, RpcInv, RpcTypeOK
  <2> QED
    BY <1>1, <1>2, <1>4, <2>1 DEF Serve, Begin, Move, sent, Place
<1>5. CASE Answer(d)
  BY <1>1, <1>2, <1>5 DEF Answer, End, Move, Place
<1>6. CASE BreakOff(d)
  BY <1>1, <1>2, <1>6 DEF BreakOff, Break, Move, Place
<1>7. CASE Drop(d)
  BY <1>1, <1>2, <1>7
  DEF Drop, NotServed, Lose, RefuseUnknown, RefuseMessage, Refuse, Move, sent, Place
<1> QED
  BY <1>3, <1>4, <1>5, <1>6, <1>7

(* A call is opened only for a read that has its row, or failed to get it,  *)
(* and is changed by nothing that comes later.                              *)
LEMMA CallsStep == AppInv /\ [Next]_vars => CallsOfReads'
<1> SUFFICES ASSUME AppInv, [Next]_vars PROVE CallsOfReads'
  OBVIOUS
<1>0. TypeOK /\ CallbackHasReport /\ CallsOfReads /\ RpcInv
  BY DEF AppInv
<1> USE <1>0 DEF CallsOfReads, CallOfRead
<1>1. CASE /\ UNCHANGED <<at, called, request, reports, rows>>
           /\ unwritten \subseteq unwritten'
           /\ pc' \notin {"row", "fetch", "send"} \/ pc' = pc
  BY <1>1 DEF Count, current
<1>2. CASE People \/ \E b \in Backend : Relink(b)
  BY <1>1, <1>2 DEF People, Relink, taps, store, sent, rpcVars
<1>3. CASE Launch \/ Start
  BY <1>1, <1>3, StartEffect DEF Launch, StartPCs, taps, store, sent, rpcVars
<1>4. ASSUME NEW read \in BOOLEAN, CallBack(read) PROVE CallsOfReads'
  <2>2. /\ current' = current + 1 /\ current \in Nat
        /\ \A i \in Count : reports'[i] = reports[i]
    BY <1>4, ToldReport
  <2>3. Count \subseteq Count' /\ current' \notin Count
    BY <2>2 DEF Count
  <2>4. UNCHANGED <<at, called, request, rows, unwritten>>
    BY <1>4 DEF CallBack, store, sent, rpcVars
  <2> QED
    BY <2>2, <2>3, <2>4
<1>4a. CASE See
  BY <1>1, <1>4a DEF See, Goto, store, sent, rpcVars
<1>5. CASE WriteRow
  <2>1. UNCHANGED <<at, called, request, reports>> /\ pc = "row"
    BY <1>5 DEF WriteRow, Goto, taps, sent, rpcVars
  <2>2. rows \subseteq rows' /\ unwritten \subseteq unwritten'
    BY <1>5 DEF WriteRow, LogReadHistory, InsertFails
  <2>3. Count' = Count /\ current' = current
    BY <2>1 DEF Count, current
  <2> QED
    BY <2>1, <2>2, <2>3
<1>6. CASE Fetch
  BY <1>6 DEF Fetch, Goto, taps, store, sent, rpcVars, Count, current
<1>7. CASE Send
  <2>1. /\ current \in Call /\ reports[current].read /\ fetched \in Backend
        /\ current \in unwritten \/ SuccessRow(current, readerId) \in rows
    BY <1>7 DEF Send, Goto, CallbackHasReport, CallbackPCs, AppInv, CurrentHasRow
  <2>2. /\ UNCHANGED <<reports, rows, unwritten, readerId>> /\ pc' = "wait"
        /\ Count' = Count /\ current' = current
    BY <1>7 DEF Send, Goto, taps, store, Count, current
  <2>3. current \in Count
    BY <2>1, AppAssumption, ReportsTyped DEF Count
  <2>4. reports[current].data \in Visit /\ readerId \in Text
    BY <2>1, ReadHasData DEF TypeOK
  <2> DEFINE new == [backend |-> fetched,
                     card |-> [card_id |-> reports[current].data, machine_ip |-> readerId]]
  <2>5. new \in Request
    BY <2>1, <2>4 DEF Request, CreateTimeCardLogRequest
  <2>6. request' = [request EXCEPT ![current] = new]
        /\ called' = [called EXCEPT ![current] = "CreateTimeCardLog"]
        /\ at' = [at EXCEPT ![current] = "sent"]
    BY <1>7 DEF Send, Invoke, DataRead, Goto, CallbackHasReport, CallbackPCs
  <2>7. request'[current] = new /\ called'[current] = "CreateTimeCardLog"
    BY <2>1, <2>6 DEF TypeOK, RpcTypeOK
  <2>8. CallOfRead(current)'
    BY <2>1, <2>2, <2>3, <2>5, <2>7
  <2>9. ASSUME NEW c \in Call, c # current, at'[c] # "none" PROVE CallOfRead(c)'
    <3>1. request'[c] = request[c] /\ called'[c] = called[c] /\ at'[c] = at[c]
      BY <2>6, <2>9 DEF TypeOK, RpcTypeOK
    <3> QED
      BY <2>2, <2>9, <3>1
  <2> QED
    BY <2>2, <2>8, <2>9
<1>8. CASE (Answered /\ ~Off) \/ NotAnswered
  BY <1>1, <1>8, ReturnEffect DEF Goto, taps, store, sent
<1>9. CASE Die \/ (Answered /\ Off)
  BY <1>1, <1>9, EndEffect DEF Off, sent
<1>10. CASE Remote
  <2>1. \A c \in Call : at'[c] # "none" => at[c] # "none"
    BY <1>10, RemoteMoves
  <2>2. UNCHANGED <<called, request, reports, rows, unwritten, pc>>
    BY <1>10, RemoteMoves DEF process, taps, store
  <2> QED
    BY <2>1, <2>2 DEF Count, current
<1>11. CASE UNCHANGED vars
  BY <1>1, <1>11 DEF vars, process, taps, store, sent, rpcVars
<1> QED
  BY <1>2, <1>3, <1>4, <1>4a, <1>5, <1>6, <1>7, <1>8, <1>9, <1>10, <1>11, Kinds

(* A time card is recorded for a call that runs, and not changed when       *)
(* another call is opened or answered.                                      *)
LEMMA CardsStep == AppInv /\ [Next]_vars => CardsOfCalls'
<1> SUFFICES ASSUME AppInv, [Next]_vars PROVE CardsOfCalls'
  OBVIOUS
<1>0. TypeOK /\ CallbackHasReport /\ CardsOfCalls /\ RpcInv
  BY DEF AppInv
<1>00. \A k \in cards : k.report \in Call
  BY <1>0 DEF TypeOK, Card
<1> USE <1>0 DEF CardsOfCalls, TimeCardOf
<1>1. CASE UNCHANGED <<at, ran, request, cards>>
  BY <1>1
<1>2. CASE \/ People \/ Launch \/ Start \/ \E b \in Backend : Relink(b)
           \/ See \/ \E read \in BOOLEAN : CallBack(read)
           \/ WriteRow \/ Fetch
  BY <1>1, <1>2, StartEffect
  DEF People, Launch, Relink, See, CallBack, WriteRow, Fetch, sent, rpcVars
<1>3. CASE Send
  <2>1. current \in Call /\ at[current] = "none" /\ UNCHANGED <<cards, ran>>
    BY <1>3
    DEF Send, Invoke, Goto, CallbackHasReport, CallbackPCs, RpcInv, Progress
  <2>2. at'[current] = "sent" /\ \A c \in Call : c # current =>
          at'[c] = at[c] /\ request'[c] = request[c]
    BY <1>3, <2>1 DEF Send, Invoke, TypeOK, RpcTypeOK
  <2> QED
    BY <1>00, <2>1, <2>2
<1>4. CASE (Answered /\ ~Off) \/ NotAnswered
  BY <1>1, <1>4, ReturnEffect DEF sent
<1>5. CASE Die \/ (Answered /\ Off)
  BY <1>1, <1>5, EndEffect DEF Off, sent
<1>6. CASE Remote
  <2>1. PICK d \in Call :
          /\ at[d] \in {"sent", "running"} /\ UNCHANGED request
          /\ \A c \in Call : c # d => at'[c] = at[c] /\ ran'[c] = ran[c]
          /\ \/ at'[d] \in {"dropped", "running"} /\ UNCHANGED cards
             \/ at'[d] = "done" /\ UNCHANGED ran /\ CreateTimeCardLog(d)
             \/ /\ at'[d] = "broken" /\ UNCHANGED ran
                /\ CreateTimeCardLog(d) \/ UNCHANGED cards
    BY <1>6, RemoteMoves
  <2>2. \A k \in cards : k.report # d
    BY <2>1
  <2>3. TimeCardOf(d).report = d
    OBVIOUS
  <2> QED
    BY <1>00, <2>1, <2>2, <2>3 DEF CreateTimeCardLog
<1>7. CASE UNCHANGED vars
  BY <1>1, <1>7 DEF vars, process, sent, rpcVars
<1> QED
  BY <1>2, <1>3, <1>4, <1>5, <1>6, <1>7, Kinds

(* A process takes its supervisor's flag for its id, and rows that id.      *)
LEMMA FlagStep == AppInv /\ [Next]_vars => FlagIsId'
<1> SUFFICES ASSUME AppInv, [Next]_vars PROVE FlagIsId'
  OBVIOUS
<1>0. TypeOK /\ FlagIsId
  BY DEF AppInv
<1> USE <1>0 DEF FlagIsId, how
<1>1. CASE UNCHANGED <<how, rows, readerId>> /\ pc # "off"
  BY <1>1
<1>2. CASE UNCHANGED <<how, rows, readerId, pc>>
  BY <1>2
<1>3. CASE People \/ Remote
  BY <1>2, <1>3, RemoteEffect DEF People, process, store
<1>4. CASE Launch
  <2>1. PICK file \in Value : readerId' = ReaderId(given.flag, given.env, file)
    BY <1>4 DEF Launch
  <2>2. given.flag \in Value /\ given.env \in Value
    BY DEF TypeOK
  <2>3. given.flag # Unset => readerId' = given.flag
    BY <2>1, <2>2, Ids
  <2> QED
    BY <1>4, <2>3 DEF Launch, store
<1>5. CASE \/ Start \/ \E b \in Backend : Relink(b)
           \/ See \/ \E read \in BOOLEAN : CallBack(read)
           \/ Fetch \/ Send \/ (Answered /\ ~Off) \/ NotAnswered
  BY <1>1, <1>5, StartEffect, ReturnEffect
  DEF Relink, See, CallBack, Fetch, Send, Goto, StartPCs, store
<1>6. CASE WriteRow
  BY <1>6 DEF WriteRow, Goto, LogReadHistory, InsertFails
<1>7. CASE Die \/ (Answered /\ Off)
  BY <1>7, EndEffect DEF Off
<1>8. CASE UNCHANGED vars
  BY <1>2, <1>8 DEF vars, process, store
<1> QED
  BY <1>3, <1>4, <1>5, <1>6, <1>7, <1>8, Kinds

-----------------------------------------------------------------------------
(* The invariant holds when nothing has been started.                       *)
LEMMA AppInit == Init => AppInv
<1> SUFFICES ASSUME Init PROVE AppInv
  OBVIOUS
<1>1. PICK s \in Settings :
        /\ supervised = s.supervised
        /\ given = IF s.supervised THEN Supervised(s.flag, s.env, s.file)
                   ELSE [flag |-> s.flag, env |-> s.env]
  BY DEF Init
<1>2. s.flag \in Value /\ s.env \in Value /\ s.file \in Value /\ s.supervised \in BOOLEAN
  BY AppAssumption
<1>3. given \in [flag : Value, env : Value] /\ (supervised => given.flag # Unset)
  <2>1. CASE s.supervised
    <3>1. /\ given \in [flag : Text, env : Value]
          /\ Unset \notin Text
      BY <1>1, <1>2, <2>1, Ids
    <3> QED
      BY <3>1 DEF Value
  <2>2. CASE ~s.supervised
    BY <1>1, <1>2, <2>2
  <2> QED
    BY <2>1, <2>2
<1>4. RpcInv
  <2>1. cstack \in Stack /\ sstack \in Stack
    BY AppAssumption DEF Init
  <2> QED
    BY <2>1, RpcInvInit DEF Init
<1>5. supervised \in BOOLEAN
  BY <1>1, <1>2, Zenon
<1>6. reports \in Seq(Report) /\ current = 0 /\ DefaultId \in Text
  BY DEF Init, current, Text
<1>7. TypeOK
  <2>1. TapTypeOK
    BY TapAssumption DEF Init, TapInit, TapTypeOK
  <2>2. life \in 0 .. MaxLives
    BY AppAssumption DEF Init
  <2>3. request \in [Call -> Request \cup {NoRequest}]
    BY DEF Init
  <2>4. RpcTypeOK
    BY <1>4 DEF RpcInv
  <2>5. current <= MaxReports
    BY <1>6, AppAssumption
  <2> QED
    BY <1>3, <1>5, <1>6, <2>1, <2>2, <2>3, <2>4, <2>5 DEF Init, TypeOK
<1> QED
  BY <1>3, <1>4, <1>6, <1>7, TapAssumption
  DEF Init, TapInit, AppInv, CallbackHasReport, CallbackPCs, ReportsInOrder, RowsAreOfReports,
      EveryReportHasItsRow, CurrentHasRow, CallsOfReads, CardsOfCalls, FlagIsId,
      Count, RpcInit

(* Every step keeps it.                                                     *)
LEMMA AppStep == AppInv /\ [Next]_vars => AppInv'
<1> SUFFICES ASSUME AppInv, [Next]_vars PROVE AppInv'
  OBVIOUS
<1>1. RpcInv'
  BY AppStepIsRpcStep, RpcStep DEF AppInv
<1> QED
  BY <1>1, TypeStep, CallbackStep, ReportsStep, RowsStep, CallsStep, CardsStep, FlagStep
  DEF AppInv, RowInv

(* The invariant holds in every reachable state.                            *)
THEOREM AppInvariant == Spec => []AppInv
  BY AppInit, AppStep, PTL DEF Spec

(* Every variable keeps its type.                                           *)
THEOREM AppTypes == Spec => []TypeOK
  BY AppInvariant, PTL DEF AppInv

(* A report the callback has gone beyond has one row, of its own status,    *)
(* unless its insert failed, through every end and start of the process.    *)
THEOREM ReportsHaveRows == Spec => []EveryReportHasItsRow
  BY AppInvariant, PTL DEF AppInv

(* A time card follows the history row of a read and names the reader that  *)
(* row names.                                                               *)
THEOREM CardsFollowRows == Spec => []CardFollowsRow
<1>1. AppInv => CardFollowsRow
  <2> SUFFICES ASSUME AppInv, NEW k \in cards
               PROVE  /\ k.report \in 1 .. current
                      /\ reports[k.report].read
                      /\ \/ k.report \in unwritten
                         \/ [report |-> k.report, status |-> "success",
                             reader_id |-> k.log.machine_ip] \in rows
    BY DEF CardFollowsRow
  <2>1. k.report \in Call
    BY DEF AppInv, TypeOK, Card
  <2>2. k = TimeCardOf(k.report) /\ at[k.report] # "none"
    BY DEF AppInv, CardsOfCalls
  <2>3. CallOfRead(k.report)
    BY <2>1, <2>2 DEF AppInv, CallsOfReads
  <2>4. k.log = request[k.report].card
    BY <2>2 DEF TimeCardOf
  <2> QED
    BY <2>3, <2>4 DEF CallOfRead, SuccessRow, Count
<1> QED
  BY <1>1, AppInvariant, PTL

(* Of two time cards of one stay of a card, the second was sent by another  *)
(* life of the process, or the first for a card this one replaced.          *)
THEOREM SecondCardsAreExplained == Spec => []SecondCardNeedsSwapOrRestart
<1>1. AppInv => SecondCardNeedsSwapOrRestart
  <2> SUFFICES ASSUME AppInv, NEW j \in cards, NEW k \in cards,
                      j.report < k.report, j.log.card_id = k.log.card_id,
                      reports[j.report].life = reports[k.report].life
               PROVE  /\ reports[j.report].visit < j.log.card_id
                      /\ reports[k.report].visit = k.log.card_id
    BY DEF SecondCardNeedsSwapOrRestart
  <2>1. /\ j = TimeCardOf(j.report) /\ at[j.report] # "none" /\ j.report \in Call
        /\ k = TimeCardOf(k.report) /\ at[k.report] # "none" /\ k.report \in Call
    BY DEF AppInv, CardsOfCalls, TypeOK, Card
  <2>2. CallOfRead(j.report) /\ CallOfRead(k.report)
    BY <2>1 DEF AppInv, CallsOfReads
  <2>3. j.log = request[j.report].card /\ k.log = request[k.report].card
    BY <2>1 DEF TimeCardOf
  <2>4. /\ j.log.card_id = reports[j.report].data
        /\ k.log.card_id = reports[k.report].data
        /\ reports[k.report].read
        /\ j.report \in Count /\ k.report \in Count
    BY <2>2, <2>3 DEF CallOfRead
  <2>5. reports[j.report] \in Report /\ reports[k.report] \in Report
    BY <2>4, ReportsTyped DEF AppInv
  <2>6. /\ reports[j.report].visit < reports[k.report].visit
        /\ reports[j.report].data <= reports[k.report].visit
        /\ reports[k.report].visit <= reports[k.report].data
    BY <2>4 DEF AppInv, ReportsInOrder
  <2>7. /\ reports[j.report].visit \in Nat /\ reports[k.report].visit \in Nat
        /\ reports[j.report].data \in Nat /\ reports[k.report].data \in Nat
    BY <2>5, AppAssumption DEF Report, Visit
  <2>8. reports[j.report].data = reports[k.report].data
    BY <2>4
  <2>9. /\ reports[j.report].visit < reports[j.report].data
        /\ reports[k.report].visit = reports[k.report].data
    BY <2>6, <2>7, <2>8
  <2> QED
    BY <2>4, <2>9
<1> QED
  BY <1>1, AppInvariant, PTL

(* The readers of a supervisor write under one id, its own.                 *)
THEOREM SupervisedReadersShareId == Spec => []SupervisedRowsBearOneId
<1>1. AppInv => SupervisedRowsBearOneId
  BY DEF AppInv, FlagIsId, SupervisedRowsBearOneId
<1> QED
  BY <1>1, AppInvariant, PTL

(* If the stubs of the two sides agree, an answer without error means that  *)
(* this read is recorded at the backend it was sent to.                     *)
THEOREM AnswersAreRecorded ==
  ASSUME StubsAgree PROVE Spec => []SentMeansRecorded
<1>1. AppInv => SentMeansRecorded
  <2> SUFFICES ASSUME AppInv, NEW c \in Call, answer[c] = "ok"
               PROVE  \E k \in cards : /\ k.report = c
                                       /\ k.backend = request[c].backend
                                       /\ k.log.card_id = reports[c].data
    BY DEF SentMeansRecorded
  <2>1. at[c] = "done" /\ ran[c] = Serves(c) /\ Implemented(c)
    BY DEF AppInv, RpcInv, Progress, Served
  <2>2. Serves(c) \in Method
    BY <2>1, RpcAssumption
    DEF Implemented, Known, Serves, AppInv, RpcInv, RpcTypeOK
  <2>3. ran[c] = called[c]
    BY <2>1, <2>2, AppAssumption, StubsServe DEF AppInv, ServedAsCalled
  <2>4. CallOfRead(c)
    BY <2>1 DEF AppInv, CallsOfReads
  <2>5. TimeCardOf(c) \in cards
    BY <2>1, <2>3, <2>4 DEF CallOfRead, AppInv, CardsOfCalls
  <2> QED
    BY <2>4, <2>5 DEF TimeCardOf, CallOfRead
<1> QED
  BY <1>1, AppInvariant, PTL

(* The calls of the process, through its ends and starts, are abstract      *)
(* calls: a method runs at most once, has run when the process is told so,  *)
(* and may yet run when it has given up.                                    *)
THEOREM AppImplementsCall == Spec => AbsCall!Spec
<1>1. Init => AbsCall!Init
  BY CallInit DEF Init
<1>2. AppInv /\ [Next]_vars => [AbsCall!Next]_(AbsCall!vars)
  BY AppStepIsRpcStep, CallStep DEF AppInv
<1> QED
  BY <1>1, <1>2, AppInvariant, PTL DEF Spec, AbsCall!Spec

-----------------------------------------------------------------------------
(* What is recorded, and what a step can do to it.                          *)

(* A report gives one time card at most, whatever became of its call, and   *)
(* the card is of a stay there has been: the one that was reported, or one  *)
(* that came after it, never an earlier one.                                *)
CardsAreOfTheirReports ==
  \A k \in cards :
    /\ reports[k.report].visit <= k.log.card_id /\ k.log.card_id <= visits
    /\ \A j \in cards : j.report = k.report => j = k

THEOREM OneCardPerReport == Spec => []CardsAreOfTheirReports
<1>1. AppInv => CardsAreOfTheirReports
  <2> SUFFICES ASSUME AppInv, NEW k \in cards
               PROVE  /\ reports[k.report].visit <= k.log.card_id
                      /\ k.log.card_id <= visits
                      /\ \A j \in cards : j.report = k.report => j = k
    BY DEF CardsAreOfTheirReports
  <2>1. \A j \in cards : j = TimeCardOf(j.report) /\ at[j.report] # "none"
    BY DEF AppInv, CardsOfCalls
  <2>2. k.report \in Call
    BY DEF AppInv, TypeOK, Card
  <2>3. CallOfRead(k.report)
    BY <2>1, <2>2 DEF AppInv, CallsOfReads
  <2>4. k.log = request[k.report].card
    BY <2>1 DEF TimeCardOf
  <2>5. /\ k.report \in Count /\ reports[k.report].read
        /\ k.log.card_id = reports[k.report].data
    BY <2>3, <2>4 DEF CallOfRead
  <2> QED
    BY <2>1, <2>5 DEF AppInv, ReportsInOrder
<1> QED
  BY <1>1, AppInvariant, PTL

(* No end of the process, no start and no answer takes back a report, a row *)
(* or a time card; a request on its way carries what it carried when it was *)
(* sent, whatever the process does since; and a card is recorded only while *)
(* the method of its call runs, in the lifetime of its sender or after it.  *)
StoresOnlyGrow ==
  [][/\ rows \subseteq rows' /\ cards \subseteq cards'
     /\ current <= current' /\ \A i \in 1 .. current : reports'[i] = reports[i]
     /\ \A c \in Call : at[c] # "none" => request'[c] = request[c]
     /\ \A k \in cards' \ cards : at[k.report] = "running"]_vars

LEMMA GrowStep ==
  ASSUME AppInv, [Next]_vars
  PROVE  /\ rows \subseteq rows' /\ cards \subseteq cards'
         /\ current <= current' /\ \A i \in Count : reports'[i] = reports[i]
         /\ \A c \in Call : at[c] # "none" => request'[c] = request[c]
         /\ \A k \in cards' \ cards : at[k.report] = "running"
<1> DEFINE Grows ==
      /\ rows \subseteq rows' /\ cards \subseteq cards'
      /\ current <= current' /\ \A i \in Count : reports'[i] = reports[i]
      /\ \A c \in Call : at[c] # "none" => request'[c] = request[c]
      /\ \A k \in cards' \ cards : at[k.report] = "running"
<1>0. TypeOK /\ RpcInv /\ CallbackHasReport /\ current \in Nat
  BY ReportsTyped DEF AppInv
<1>1. ASSUME UNCHANGED <<reports, cards, request>>, rows \subseteq rows' PROVE Grows
  BY <1>0, <1>1 DEF current
<1>2. CASE People \/ Launch \/ \E b \in Backend : Relink(b)
  BY <1>1, <1>2 DEF People, Launch, Relink, store, sent
<1>3. CASE Start
  BY <1>1, <1>3, StartEffect DEF store, sent
<1>4. CASE See \/ WriteRow \/ Fetch
  BY <1>1, <1>4 DEF See, WriteRow, LogReadHistory, InsertFails, Fetch, store, sent
<1>5. ASSUME NEW read \in BOOLEAN, CallBack(read) PROVE Grows
  <2>1. current' = current + 1 /\ \A i \in Count : reports'[i] = reports[i]
    BY <1>5, ToldReport
  <2>2. UNCHANGED <<rows, cards, request>>
    BY <1>5 DEF CallBack, store, sent
  <2>3. current <= current'
    BY <1>0, <2>1
  <2> QED
    BY <2>1, <2>2, <2>3
<1>6. CASE Send
  <2>1. at[current] = "none" /\ UNCHANGED <<reports, rows, cards>>
    BY <1>0, <1>6
    DEF Send, Goto, Invoke, CallbackHasReport, CallbackPCs, RpcInv, Progress, store
  <2>2. \A c \in Call : c # current => request'[c] = request[c]
    BY <1>0, <1>6 DEF Send, TypeOK
  <2> QED
    BY <1>0, <2>1, <2>2 DEF current
<1>7. CASE (Answered /\ ~Off) \/ NotAnswered
  BY <1>1, <1>7, ReturnEffect DEF store, sent
<1>8. CASE Die \/ (Answered /\ Off)
  BY <1>1, <1>8, EndEffect DEF Off, sent
<1>9. CASE Remote
  <2>1. PICK d \in Call :
          /\ UNCHANGED <<process, request>> /\ at[d] \in {"sent", "running"}
          /\ \/ at'[d] \in {"dropped", "running"} /\ UNCHANGED cards
             \/ at'[d] = "done" /\ UNCHANGED ran /\ CreateTimeCardLog(d)
             \/ /\ at'[d] = "broken" /\ UNCHANGED ran
                /\ CreateTimeCardLog(d) \/ UNCHANGED cards
    BY <1>0, <1>9, RemoteMoves
  <2>2. UNCHANGED <<reports, rows, request>>
    BY <2>1 DEF process, store
  <2>3. cards' = cards \/ (cards' = cards \cup {TimeCardOf(d)} /\ ran[d] # NoMethod)
    BY <2>1, AppAssumption DEF CreateTimeCardLog, AuthMethod
  <2>4. ran[d] # NoMethod => at[d] = "running"
    BY <1>0, <2>1 DEF RpcInv, Progress, Served
  <2>5. TimeCardOf(d).report = d
    BY DEF TimeCardOf
  <2> QED
    BY <1>0, <2>2, <2>3, <2>4, <2>5 DEF current
<1>10. CASE UNCHANGED vars
  BY <1>1, <1>10 DEF vars, process, store, sent
<1> QED
  BY <1>2, <1>3, <1>4, <1>5, <1>6, <1>7, <1>8, <1>9, <1>10, Kinds

THEOREM NothingIsTakenBack == Spec => StoresOnlyGrow
<1>1. AppInv /\ [Next]_vars =>
        [/\ rows \subseteq rows' /\ cards \subseteq cards'
         /\ current <= current' /\ \A i \in 1 .. current : reports'[i] = reports[i]
         /\ \A c \in Call : at[c] # "none" => request'[c] = request[c]
         /\ \A k \in cards' \ cards : at[k.report] = "running"]_vars
  BY GrowStep DEF Count
<1> QED
  BY <1>1, AppInvariant, PTL DEF Spec, StoresOnlyGrow

(* What the process does with the cards of its reader is what Taps allows   *)
(* it, but for its end, which starts another life: within a life it builds  *)
(* on no more than CardMonitor gives.                                       *)
THEOREM LivesAreOfTaps == Spec => TapInit /\ [][TapNext \/ (Forget /\ pc' = "off")]_taps
<1>1. [Next]_vars => [TapNext \/ (Forget /\ pc' = "off")]_taps
  <2> SUFFICES ASSUME [Next]_vars
               PROVE  TapNext \/ (Forget /\ pc' = "off") \/ UNCHANGED taps
    OBVIOUS
  <2>1. CASE People \/ See \/ \E read \in BOOLEAN : CallBack(read)
    BY <2>1 DEF People, See, CallBack, TapNext
  <2>2. CASE Die \/ (Answered /\ Off)
    BY <2>2, EndEffect DEF Off
  <2>3. CASE Launch \/ Start \/ (\E b \in Backend : Relink(b)) \/ WriteRow \/ Fetch \/ Send
    BY <2>3, StartEffect DEF Launch, Relink, WriteRow, Fetch, Send
  <2>4. CASE (Answered /\ ~Off) \/ NotAnswered
    BY <2>4, ReturnEffect
  <2>5. CASE Remote \/ UNCHANGED vars
    BY <2>5, RemoteEffect DEF vars, process
  <2> QED
    BY <2>1, <2>2, <2>3, <2>4, <2>5, Kinds
<1> QED
  BY <1>1, PTL DEF Spec, Init

-----------------------------------------------------------------------------
(* The stubs generated for auth.v1.AuthService agree, Connect's with gRPC's *)
(* and each with its own.                                                   *)
THEOREM AuthStubsAgree ==
  ASSUME Stack = Stacks, Method = AuthMethod,
         ClientStub = AuthClientStub, ServerStub = AuthServerStub
  PROVE  StubsAgree
<1> SUFFICES ASSUME NEW cs \in Stacks, NEW ss \in Stacks, NEW m \in AuthMethod
             PROVE  LET s == AuthClientStub[cs][m] IN
                      /\ AuthServerStub[ss][s.path].method = m
                      /\ AuthServerStub[ss][s.path].takes = s.sends
  BY DEF StubsAgree
<1> DEFINE path == <<"auth.v1.AuthService", m>>
<1>1. AuthClientStub[cs][m].path = path /\ AuthClientStub[cs][m].sends = Input(m)
  BY DEF AuthClientStub, Stacks, ConnectClient, ConnectField, ConnectProcedure,
     GrpcClient, FullMethodName
<1>2. CASE ss = "connect"
  <2>1. path \in {ConnectProcedure[n] : n \in AuthMethod}
    BY DEF ConnectProcedure
  <2>2. (CHOOSE n \in AuthMethod : ConnectProcedure[n] = path) = m
    BY DEF ConnectProcedure
  <2>3. ConnectSwitch[path] = ConnectUnary[m]
    BY <2>1, <2>2 DEF ConnectSwitch
  <2> QED
    BY <1>1, <1>2, <2>3 DEF AuthServerStub, ConnectUnary
<1>3. CASE ss = "grpc"
  <2>1. path \in {"auth.v1.AuthService"} \X AuthMethod /\ path[2] = m
    OBVIOUS
  <2>2. ServiceDesc[path] = GrpcUnary[m]
    BY <2>1 DEF ServiceDesc
  <2> QED
    BY <1>1, <1>3, <2>2 DEF AuthServerStub, Stacks, GrpcUnary
<1> QED
  BY <1>2, <1>3 DEF Stacks
-----------------------------------------------------------------------------
(* The names of the card readers.                                           *)

(* Names as ListReaders meets them: letters, at least one.                  *)
AreNames(S) == S \subseteq Seq(Nat \ {0}) \ {<< >>} /\ IsFiniteSet(S)

LEMMA NameLetters ==
  ASSUME NEW S, AreNames(S), NEW name \in S
  PROVE  Len(name) \in Nat \ {0} /\ \A i \in 1 .. Len(name) : name[i] \in Nat \ {0}
<1>1. name \in Seq(Nat \ {0}) /\ name # << >>
  BY DEF AreNames
<1> QED
  BY <1>1

(* Each name takes its cells, none of them another's.                       *)
LEMMA CellsOfOneMore ==
  ASSUME NEW T, IsFiniteSet(Cells(T)), NEW x, x \notin T, Len(x) \in Nat
  PROVE  /\ IsFiniteSet(Cells(T \cup {x}))
         /\ Cardinality(Cells(T \cup {x})) = Cardinality(Cells(T)) + Len(x) + 1
<1> DEFINE own == {x} \X (1 .. Len(x) + 1)
<1>1. IsFiniteSet(own) /\ Cardinality(own) = Len(x) + 1
  <2>1. IsFiniteSet({x}) /\ Cardinality({x}) = 1
    BY FS_Singleton
  <2>2. /\ IsFiniteSet(1 .. Len(x) + 1)
        /\ Cardinality(1 .. Len(x) + 1) = Len(x) + 1
    BY FS_Interval
  <2>3. IsFiniteSet(own) /\ Cardinality(own) = 1 * (Len(x) + 1)
    BY <2>1, <2>2, FS_Product
  <2> QED
    BY <2>3
<1>2. Cells(T \cup {x}) = Cells(T) \cup own
  BY DEF Cells
<1>3. Cells(T) \cap own = {}
  BY DEF Cells
<1>4. Cardinality(Cells(T)) \in Nat
  BY FS_CardinalityType
<1> HIDE DEF own
<1>5. Cardinality(Cells(T) \cap own) = 0
  BY <1>3, FS_EmptySet
<1>6. /\ IsFiniteSet(Cells(T) \cup own)
      /\ Cardinality(Cells(T) \cup own) = Cardinality(Cells(T)) + Cardinality(own) - 0
  BY <1>1, <1>5, FS_Union
<1>7. Cardinality(Cells(T) \cup own) = Cardinality(Cells(T)) + Len(x) + 1
  BY <1>1, <1>4, <1>6
<1> QED
  BY <1>2, <1>6, <1>7

(* A set of naturals has a least element.                                   *)
LEMMA Least ==
  ASSUME NEW N \in SUBSET Nat, N # {}
  PROVE  \E least \in N : \A n \in N : least <= n
<1> DEFINE below == {pair \in Nat \X Nat : pair[1] < pair[2]}
<1>1. below = OpToRel(<, Nat)
  BY DEF OpToRel
<1>2. IsWellFoundedOn(below, Nat)
  BY <1>1, NatLessThanWellFounded
<1>3. PICK least \in N : \A n \in N : <<n, least>> \notin below
  <2> HIDE DEF below
  <2> QED
    BY <1>2, WFMin
<1>4. ASSUME NEW n \in N PROVE least <= n
  <2>1. n \in Nat /\ least \in Nat /\ <<n, least>> \notin below
    BY <1>3
  <2>2. n < least => <<n, least>> \in below
    BY <2>1
  <2> QED
    BY <2>1, <2>2
<1> QED
  BY <1>4

(* Names fit into the room asked for, whatever they are.                    *)
LEMMA NamesFit ==
  ASSUME NEW S, AreNames(S)
  PROVE  RoomFor(S) \in Nat /\ Layouts(S) # {}
<1> DEFINE Fits(T) == IsFiniteSet(Cells(T)) /\ Layouts(T) # {}
           Odd == {n \in Nat : \E T \in SUBSET S : Cardinality(T) = n /\ ~Fits(T)}
<1>1. ASSUME NEW T \in SUBSET S PROVE IsFiniteSet(T) /\ Cardinality(T) \in Nat
  BY FS_Subset, FS_CardinalityType DEF AreNames
<1>2. Fits({})
  <2>1. Cells({}) = {}
    BY DEF Cells
  <2>2. RoomFor({}) = 0
    BY DEF RoomFor
  <2>3. [name \in {} |-> 0] \in Layouts({})
    BY <2>2 DEF Layouts
  <2> QED
    BY <2>1, <2>3, FS_EmptySet
<1>3. ASSUME NEW T \in SUBSET S, Fits(T), NEW x \in S \ T PROVE Fits(T \cup {x})
  <2> DEFINE C == Cardinality(Cells(T))
             n == Len(x)
             L == RoomFor(T \cup {x})
  <2>1. C \in Nat /\ n \in Nat
    BY <1>3, FS_CardinalityType, NameLetters
  <2>2. IsFiniteSet(Cells(T \cup {x})) /\ L = C + n + 2
    BY <1>3, <2>1, CellsOfOneMore DEF RoomFor
  <2>3. PICK place \in Layouts(T) : TRUE
    BY <1>3
  <2>4. RoomFor(T) - 1 = C \/ (T = {} /\ C = 0 /\ RoomFor(T) = 0)
    <3>1. CASE T = {}
      <4>1. Cells({}) = {}
        BY DEF Cells
      <4> QED
        BY <3>1, <4>1, FS_EmptySet DEF RoomFor
    <3>2. CASE T # {}
      BY <2>1, <3>2 DEF RoomFor
    <3> QED
      BY <3>1, <3>2
  <2> HIDE DEF C, n, L
  <2>5. place \in [T -> 1 .. C + 1]
    <3>1. place \in [T -> 1 .. RoomFor(T)]
      BY <2>3 DEF Layouts
    <3>2. RoomFor(T) = C + 1 \/ T = {}
      BY <2>1, <2>4 DEF RoomFor, C
    <3> QED
      BY <3>1, <3>2
  <2>6. UNION {Piece(name, place[name]) : name \in T} = 1 .. C
    BY <2>1, <2>3, <2>4 DEF Layouts
  <2>7. \A name, other \in T : name # other =>
          Piece(name, place[name]) \cap Piece(other, place[other]) = {}
    BY <2>3 DEF Layouts
  <2>8. Piece(x, C + 1) = C + 1 .. L - 1
    BY <2>1, <2>2 DEF Piece, n
  <2> DEFINE wider ==
               [name \in T \cup {x} |-> IF name = x THEN C + 1 ELSE place[name]]
  <2>9. wider[x] = C + 1 /\ \A name \in T : wider[name] = place[name]
    OBVIOUS
  <2>10. wider \in [T \cup {x} -> 1 .. L]
    BY <2>1, <2>2, <2>5
  <2> HIDE DEF wider
  <2>11. UNION {Piece(name, wider[name]) : name \in T \cup {x}} = 1 .. L - 1
    <3>1. {Piece(name, wider[name]) : name \in T \cup {x}}
            = {Piece(name, place[name]) : name \in T} \cup {Piece(x, C + 1)}
      BY <2>9
    <3>2. 1 .. L - 1 = (1 .. C) \cup (C + 1 .. L - 1)
      BY <2>1, <2>2
    <3> HIDE DEF L
    <3>3. \A P, own : UNION (P \cup {own}) = (UNION P) \cup own
      OBVIOUS
    <3>4. UNION {Piece(name, wider[name]) : name \in T \cup {x}}
            = (1 .. C) \cup (C + 1 .. L - 1)
      BY <2>6, <2>8, <3>1, <3>3
    <3> QED
      BY <3>2, <3>4
  <2>12. \A name \in T : Piece(name, place[name]) \cap Piece(x, C + 1) = {}
    <3>1. (1 .. C) \cap (C + 1 .. L - 1) = {}
      BY <2>1
    <3>2. \A name \in T : Piece(name, place[name]) \subseteq 1 .. C
      BY <2>6
    <3> QED
      BY <2>8, <3>1, <3>2
  <2>13. wider \in Layouts(T \cup {x})
    BY <2>7, <2>9, <2>10, <2>11, <2>12 DEF Layouts, L
  <2> QED
    BY <2>2, <2>13
<1> HIDE DEF Fits
<1>4. Odd = {}
  <2> SUFFICES ASSUME Odd # {} PROVE FALSE
    OBVIOUS
  <2>1. PICK least \in Odd : \A n \in Odd : least <= n
    BY Least
  <2>2. PICK T \in SUBSET S : Cardinality(T) = least /\ ~Fits(T)
    OBVIOUS
  <2>3. PICK x \in T : TRUE
    BY <1>2, <2>2
  <2>4. Cardinality(T \ {x}) = least - 1 /\ Cardinality(T \ {x}) \in Nat
    BY <1>1, <2>2, <2>3, FS_RemoveElement
  <2>5. least - 1 \notin Odd
    BY <2>1
  <2>6. Fits(T \ {x})
    BY <2>4, <2>5
  <2>7. (T \ {x}) \cup {x} = T
    BY <2>3
  <2> QED
    BY <1>3, <2>2, <2>6, <2>7
<1>5. Fits(S)
  BY <1>1, <1>4
<1> QED
  BY <1>5, FS_CardinalityType DEF Fits, RoomFor

(* Each letter of a name, and the zero behind it, is in its cell.           *)
LEMMA NameStands ==
  ASSUME NEW S, AreNames(S), NEW place \in Layouts(S), NEW name \in S,
         NEW b, b = Buffer(RoomFor(S), place)
  PROVE  /\ place[name] \in Nat \ {0} /\ place[name] + Len(name) \in 1 .. RoomFor(S) - 1
         /\ \A j \in place[name] .. place[name] + Len(name) - 1 :
              b[j] = name[j - place[name] + 1] /\ b[j] # 0
         /\ b[place[name] + Len(name)] = 0
<1>1. /\ RoomFor(S) \in Nat /\ Len(name) \in Nat \ {0}
      /\ \A i \in 1 .. Len(name) : name[i] # 0
  BY NamesFit, NameLetters
<1>2. place \in [S -> 1 .. RoomFor(S)]
  BY DEF Layouts
<1>3. place[name] \in Nat \ {0}
  BY <1>1, <1>2
<1>4. Piece(name, place[name]) \subseteq 1 .. RoomFor(S) - 1
  BY DEF Layouts
<1>5. place[name] + Len(name) \in 1 .. RoomFor(S) - 1
  BY <1>1, <1>3, <1>4 DEF Piece
<1>6. \A other \in S : other # name =>
        Piece(name, place[name]) \cap Piece(other, place[other]) = {}
  BY DEF Layouts
<1>7. \A other \in S : Len(other) \in Nat /\ place[other] \in Nat
  BY <1>1, <1>2, NameLetters
<1>8. ASSUME NEW j \in Piece(name, place[name])
      PROVE  /\ j \in 1 .. RoomFor(S)
             /\ \A other \in S : j \in Piece(other, place[other]) => other = name
  BY <1>1, <1>4, <1>6, <1>8
<1>9. ASSUME NEW j \in Piece(name, place[name])
      PROVE  NamesOver(j, place) =
               IF j = place[name] + Len(name) THEN {} ELSE {name}
  <2>1. ASSUME NEW other \in NamesOver(j, place) PROVE other = name
    BY <1>2, <1>7, <1>8, <2>1 DEF NamesOver, Piece
  <2>2. name \in NamesOver(j, place) <=> j # place[name] + Len(name)
    BY <1>1, <1>2, <1>3 DEF NamesOver, Piece
  <2> QED
    BY <2>1, <2>2
<1>10. ASSUME NEW j \in place[name] .. place[name] + Len(name) - 1
       PROVE  b[j] = name[j - place[name] + 1] /\ b[j] # 0
  <2>1. j \in Piece(name, place[name]) /\ j # place[name] + Len(name)
    BY <1>1, <1>3 DEF Piece
  <2>2. NamesOver(j, place) = {name} /\ j \in 1 .. RoomFor(S)
    BY <1>8, <1>9, <2>1
  <2>3. b[j] = name[j - place[name] + 1]
    BY <2>2 DEF Buffer
  <2> QED
    BY <1>1, <1>3, <2>3
<1>11. b[place[name] + Len(name)] = 0
  <2>1. place[name] + Len(name) \in Piece(name, place[name])
    BY <1>1, <1>3 DEF Piece
  <2>2. /\ NamesOver(place[name] + Len(name), place) = {}
        /\ place[name] + Len(name) \in 1 .. RoomFor(S)
    BY <1>8, <1>9, <2>1
  <2> QED
    BY <2>2 DEF Buffer
<1> QED
  BY <1>3, <1>5, <1>10, <1>11

(* A cell before the last belongs to one of the names.                      *)
LEMMA CellsFilled ==
  ASSUME NEW S, NEW place \in Layouts(S), NEW c \in 1 .. RoomFor(S) - 1
  PROVE  \E name \in S : c \in Piece(name, place[name])
  BY DEF Layouts

(* The start of a name is the place that no zero comes after.               *)
LEMMA StartIs ==
  ASSUME NEW b, NEW i \in Nat, NEW s \in 1 .. i,
         s = 1 \/ b[s - 1] = 0, \A j \in s .. i - 1 : b[j] # 0
  PROVE  NameStart(b, i) = s
<1>1. ASSUME NEW t \in 1 .. i, t = 1 \/ b[t - 1] = 0, \A j \in t .. i - 1 : b[j] # 0
      PROVE  t = s
  <2>1. CASE t < s
    <3>1. s - 1 \in t .. i - 1 /\ s # 1
      BY <2>1
    <3> QED
      BY <1>1, <3>1
  <2>2. CASE s < t
    <3>1. t - 1 \in s .. i - 1 /\ t # 1
      BY <2>2
    <3> QED
      BY <1>1, <3>1
  <2> QED
    BY <2>1, <2>2
<1> QED
  BY <1>1 DEF NameStart

(* What is written, and the zeros behind it.                                *)
LEMMA Padded ==
  ASSUME NEW S, AreNames(S), NEW place \in Layouts(S), NEW n \in Nat,
         NEW b, b = Buffer(RoomFor(S), place)
  PROVE  /\ b \in Seq(Nat) /\ Len(b) = RoomFor(S)
         /\ b \o Zeros(n) \in Seq(Nat) /\ Len(b \o Zeros(n)) = RoomFor(S) + n
         /\ \A i \in 1 .. RoomFor(S) : (b \o Zeros(n))[i] = b[i]
<1>1. RoomFor(S) \in Nat
  BY NamesFit
<1>2. ASSUME NEW c \in 1 .. RoomFor(S) PROVE b[c] \in Nat
  <2>1. CASE c = RoomFor(S) \/ S = {}
    <3>1. place \in [S -> 1 .. RoomFor(S)]
      BY DEF Layouts
    <3>2. \A name \in S : /\ Len(name) \in Nat /\ place[name] \in Nat
                          /\ place[name] + Len(name) <= RoomFor(S) - 1
      BY <1>1, NameStands, NameLetters
    <3>3. NamesOver(c, place) = {}
      BY <1>1, <2>1, <3>1, <3>2 DEF NamesOver
    <3> QED
      BY <3>3 DEF Buffer
  <2>2. CASE c # RoomFor(S)
    <3>1. PICK name \in S : c \in Piece(name, place[name])
      BY <1>1, <2>2, CellsFilled
    <3>2. /\ place[name] \in Nat /\ Len(name) \in Nat
          /\ \A i \in 1 .. Len(name) : name[i] \in Nat
      BY NameStands, NameLetters
    <3>3. CASE c = place[name] + Len(name)
      BY <3>3, NameStands
    <3>4. CASE c \in place[name] .. place[name] + Len(name) - 1
      <4>1. b[c] = name[c - place[name] + 1]
        BY <3>4, NameStands
      <4>2. c - place[name] + 1 \in 1 .. Len(name)
        BY <3>2, <3>4
      <4> QED
        BY <3>2, <4>1, <4>2
    <3> QED
      BY <3>1, <3>2, <3>3, <3>4 DEF Piece
  <2> QED
    BY <2>1, <2>2
<1>3. b \in [1 .. RoomFor(S) -> Nat]
  BY <1>2 DEF Buffer
<1>4. b \in Seq(Nat) /\ Len(b) = RoomFor(S)
  BY <1>1, <1>3
<1>5. Zeros(n) \in Seq(Nat) /\ Len(Zeros(n)) = n
  BY DEF Zeros
<1> QED
  BY <1>1, <1>4, <1>5

(* The names are cut apart as they were written, whatever comes behind.     *)
LEMMA NamesAreCutApart ==
  ASSUME NEW S, AreNames(S), NEW place \in Layouts(S),
         NEW L, L = RoomFor(S), NEW d \in Seq(Nat), Len(d) >= L,
         NEW b, b = Buffer(L, place), \A i \in 1 .. L : d[i] = b[i]
  PROVE  Names(d, L) = S
<1>1. L \in Nat
  BY NamesFit
<1>2. ASSUME NEW name \in S
      PROVE  /\ Len(name) \in Nat \ {0} /\ place[name] \in Nat \ {0}
             /\ place[name] + Len(name) \in 1 .. L - 1
             /\ \A j \in place[name] .. place[name] + Len(name) - 1 :
                  d[j] = name[j - place[name] + 1] /\ d[j] # 0
             /\ d[place[name] + Len(name)] = 0
  <2>1. /\ Len(name) \in Nat \ {0} /\ place[name] \in Nat \ {0}
        /\ place[name] + Len(name) \in 1 .. L - 1
        /\ \A j \in place[name] .. place[name] + Len(name) - 1 :
             b[j] = name[j - place[name] + 1] /\ b[j] # 0
        /\ b[place[name] + Len(name)] = 0
    BY NameStands, NameLetters
  <2> DEFINE p == place[name]
             n == Len(name)
  <2>2. p \in Nat \ {0} /\ n \in Nat \ {0} /\ p + n \in 1 .. L - 1
    BY <2>1
  <2> HIDE DEF p, n
  <2>3. \A j \in p .. p + n : j \in 1 .. L /\ d[j] = b[j]
    BY <1>1, <2>2
  <2>4. p + n \in p .. p + n /\ \A j \in p .. p + n - 1 : j \in p .. p + n
    BY <1>1, <2>2
  <2>5. \A j \in p .. p + n - 1 : d[j] = b[j]
    BY <2>3, <2>4, Zenon
  <2>6. d[p + n] = 0
    BY <2>1, <2>3, <2>4, Zenon DEF p, n
  <2>7. \A j \in p .. p + n - 1 : d[j] = name[j - p + 1] /\ d[j] # 0
    <3>1. \A j \in p .. p + n - 1 : b[j] = name[j - p + 1] /\ b[j] # 0
      BY <2>1 DEF p, n
    <3> QED
      BY <2>5, <3>1, Zenon
  <2> QED
    BY <2>1, <2>6, <2>7, Zenon DEF p, n
<1> DEFINE Fits(p, n) == p \in Nat \ {0} /\ n \in Nat \ {0} /\ p + n \in 1 .. L - 1
<1>2a. \A name \in S : Fits(place[name], Len(name))
  BY <1>2
<1>3. ASSUME NEW c \in 1 .. L - 1
      PROVE  \E name \in S : c \in place[name] .. place[name] + Len(name)
  BY <1>3, CellsFilled DEF Piece
<1>4. ASSUME NEW name \in S PROVE place[name] = 1 \/ d[place[name] - 1] = 0
  <2> SUFFICES ASSUME place[name] # 1 PROVE d[place[name] - 1] = 0
    OBVIOUS
  <2>1. place[name] - 1 \in 1 .. L - 1
    BY <1>1, <1>2a, SMTT(40)
  <2>2. PICK other \in S : place[name] - 1 \in place[other] .. place[other] + Len(other)
    BY <1>3, <2>1
  <2>3. /\ place[other] \in Nat /\ Len(other) \in Nat
        /\ place[name] \in Nat /\ Len(name) \in Nat
    BY <1>2
  <2>4. CASE place[name] \in place[other] .. place[other] + Len(other)
    <3>1. other # name
      BY <2>2, <2>3
    <3>2. place[name] \in Piece(other, place[other]) \cap Piece(name, place[name])
      BY <2>3, <2>4 DEF Piece
    <3> QED
      BY <3>1, <3>2 DEF Layouts
  <2>5. CASE place[name] - 1 = place[other] + Len(other)
    BY <1>2, <2>5
  <2> QED
    BY <2>2, <2>3, <2>4, <2>5
<1> DEFINE EndOf(name) == place[name] + Len(name)
           Cut(i) == SubSeq(d, NameStart(d, i), i - 1)
<1>5. ASSUME NEW name \in S
      PROVE  EndOf(name) \in NameEnds(d, L) /\ Cut(EndOf(name)) = name
  <2> DEFINE p == place[name]
             n == Len(name)
  <2>1. /\ n \in Nat \ {0} /\ p \in Nat \ {0} /\ p + n \in 1 .. L - 1
        /\ \A j \in p .. p + n - 1 : d[j] = name[j - p + 1] /\ d[j] # 0
        /\ d[p + n] = 0 /\ (p = 1 \/ d[p - 1] = 0)
    BY <1>2, <1>4
  <2>2. name \in Seq(Nat) /\ Len(name) = n
    BY DEF AreNames
  <2> HIDE DEF p, n
  <2>3. NameStart(d, p + n) = p
    <3>1. p + n \in Nat /\ p \in 1 .. p + n
      BY <2>1
    <3> QED
      BY <2>1, <3>1, StartIs
  <2>4. p + n \in NameEnds(d, L)
    BY <1>1, <2>1, <2>3 DEF NameEnds, Ends
  <2>5. SubSeq(d, p, (p + n) - 1) = name
    <3> DEFINE cut == SubSeq(d, p, (p + n) - 1)
    <3>1. p + n - 1 <= Len(d) /\ Len(d) \in Nat
      BY <1>1, <2>1
    <3>2. cut \in Seq(Nat) /\ Len(cut) = n /\ \A i \in 1 .. n : cut[i] = d[p + i - 1]
      BY <2>1, <3>1
    <3>3. ASSUME NEW i \in 1 .. n PROVE d[p + i - 1] = name[i]
      <4>1. p + i - 1 \in p .. p + n - 1 /\ (p + i - 1) - p + 1 = i
        BY <2>1
      <4> QED
        BY <2>1, <4>1
    <3> HIDE DEF cut
    <3>4. \A i \in 1 .. Len(cut) : cut[i] = name[i]
      BY <3>2, <3>3
    <3>5. cut = name
      BY <2>2, <3>2, <3>4, SeqEqual
    <3> QED
      BY <3>5 DEF cut
  <2>6. Cut(p + n) = name
    BY <2>3, <2>5
  <2>7. EndOf(name) = p + n
    BY DEF p, n
  <2> HIDE DEF EndOf, Cut
  <2> QED
    BY <2>4, <2>6, <2>7
<1>6. ASSUME NEW i \in NameEnds(d, L)
      PROVE  \E name \in S : i = place[name] + Len(name)
  <2>1. i \in 1 .. L /\ d[i] = 0 /\ i > NameStart(d, i)
    BY DEF NameEnds, Ends
  <2>2. i # L
    <3> SUFFICES ASSUME i = L PROVE FALSE
      OBVIOUS
    <3>1. L = 1 \/ d[L - 1] = 0
      <4> SUFFICES ASSUME L # 1 PROVE d[L - 1] = 0
        OBVIOUS
      <4>1. L - 1 \in 1 .. L - 1
        BY <1>1, <2>1
      <4>2. PICK name \in S : L - 1 \in place[name] .. place[name] + Len(name)
        BY <1>3, <4>1
      <4>3. L - 1 = place[name] + Len(name)
        BY <1>1, <1>2, <4>2
      <4> QED
        BY <1>2, <4>3
    <3>2. NameStart(d, L) = L
      BY <1>1, <2>1, <3>1, StartIs
    <3> QED
      BY <1>1, <2>1, <3>2
  <2>3. i \in 1 .. L - 1
    BY <1>1, <2>1, <2>2
  <2>4. PICK name \in S : i \in place[name] .. place[name] + Len(name)
    BY <1>3, <2>3
  <2>5. i \notin place[name] .. place[name] + Len(name) - 1
    BY <1>2, <2>1
  <2> QED
    BY <1>2, <2>3, <2>4, <2>5
<1>7. Names(d, L) = {Cut(i) : i \in NameEnds(d, L)}
  BY DEF Names
<1>8. \A i \in NameEnds(d, L) : \E name \in S : i = EndOf(name)
  BY <1>6
<1> HIDE DEF EndOf, Cut
<1>9. ASSUME NEW cut \in Names(d, L) PROVE cut \in S
  BY <1>5, <1>7, <1>8
<1>10. ASSUME NEW name \in S PROVE name \in Names(d, L)
  BY <1>5, <1>7
<1> QED
  BY <1>9, <1>10

(* So a listing is of the readers there when the buffer was filled, and     *)
(* there is one when these were there all along.                            *)
LEMMA ListingIsWhole ==
  ASSUME NEW A, AreNames(A), NEW S, AreNames(S)
  PROVE  Listings(A, S) \subseteq {S} /\ S \in Listings(S, S)
<1>1. RoomFor(A) \in Nat /\ RoomFor(S) \in Nat
  BY NamesFit
<1>2. ASSUME NEW place \in Layouts(S), NEW n \in Nat,
             NEW b, b = Buffer(RoomFor(S), place)
      PROVE  Len(b) = RoomFor(S) /\ Names(b \o Zeros(n), Len(b)) = S
  <2> DEFINE d == b \o Zeros(n)
  <2>1. Len(b) = RoomFor(S) /\ d \in Seq(Nat) /\ Len(d) = RoomFor(S) + n
    BY <1>2, Padded
  <2>2. \A i \in 1 .. RoomFor(S) : d[i] = b[i]
    BY <1>2, Padded
  <2> HIDE DEF d
  <2>3. Len(d) >= RoomFor(S)
    BY <1>1, <2>1
  <2>4. Names(d, RoomFor(S)) = S
    BY <1>2, <2>1, <2>2, <2>3, NamesAreCutApart
  <2> QED
    BY <2>1, <2>4 DEF d
<1>3. ASSUME NEW names \in Listings(A, S) PROVE names = S
  <2>1. ~(RoomFor(S) > RoomFor(A))
    BY DEF Listings
  <2>2. PICK place \in Layouts(S) :
          LET b == Buffer(RoomFor(S), place)
          IN  names = Names(b \o Zeros(RoomFor(A) - Len(b)), Len(b))
    BY <2>1 DEF Listings, MultiStrings
  <2> DEFINE b == Buffer(RoomFor(S), place)
  <2>3. Len(b) = RoomFor(S)
    BY <1>2, 0 \in Nat
  <2>4. RoomFor(A) - Len(b) \in Nat
    BY <1>1, <2>1, <2>3
  <2> QED
    BY <1>2, <2>2, <2>4
<1>4. S \in Listings(S, S)
  <2>1. PICK place \in Layouts(S) : TRUE
    BY NamesFit
  <2> DEFINE b == Buffer(RoomFor(S), place)
  <2>2. Len(b) = RoomFor(S) /\ b \in MultiStrings(S)
    BY <1>2, 0 \in Nat DEF MultiStrings
  <2> HIDE DEF b
  <2>3. RoomFor(S) - Len(b) \in Nat /\ ~(RoomFor(S) > RoomFor(S))
    BY <1>1, <2>2
  <2>4. Names(b \o Zeros(RoomFor(S) - Len(b)), Len(b)) = S
    BY <1>2, <2>3 DEF b
  <2> QED
    BY <2>2, <2>3, <2>4 DEF Listings
<1> QED
  BY <1>3, <1>4

(* ListReaders (winscard.go:143): the names cut out of the buffer are those *)
(* of the readers there when it was filled, for any names of any length and *)
(* in any order.                                                            *)
THEOREM WholeNames == Spec => []ListsWholeNames
<1>1. ASSUME NEW S \in SUBSET Device PROVE AreNames(S)
  BY AppAssumption, FS_Subset DEF AreNames
<1>2. ListsWholeNames
  <2>1. ASSUME NEW A \in SUBSET Device, NEW S \in SUBSET Device
        PROVE  Listed[A][S] = Listings(A, S)
    BY DEF Listed
  <2> QED
    BY <1>1, <2>1, ListingIsWhole DEF ListsWholeNames
<1> QED
  BY <1>2, PTL
=============================================================================

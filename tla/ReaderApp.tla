------------------------------ MODULE ReaderApp -----------------------------
(***************************************************************************)
(* A reader process from its start to the callback of MonitorCards, and    *)
(* from the callback to the two places a read is kept in: the history in   *)
(* SQLite, then a time card at the backend (cmd/reader/main.go, auth_      *)
(* client.go).  The process may end anywhere and is started again; it then *)
(* knows nothing of the card lying on the reader.  The cards are those of  *)
(* one card reader, and what MonitorCards makes of them is what Taps says  *)
(* (CardMonitor shows that); how the client comes to be of a backend is    *)
(* BackendLink's matter.                                                   *)
(***************************************************************************)
EXTENDS Taps, Rpc, Config, AuthService, ReaderNames

CONSTANTS
  MaxLives,     \* bound: starts of the process
  MaxReports,   \* bound: calls of the callback
  Device,       \* the names of card readers, as sequences of letters
  Backend,      \* the URLs a client may be of
  NoBackend,    \* woffSvClient is nil
  Settings      \* flag, environment and .env the first program is started
                \* with, and whether it is a supervisor

ASSUME AppAssumption ==
  /\ MaxLives \in Nat /\ MaxReports \in Nat
  /\ Call = 1 .. MaxReports          \* a report makes at most one call
  /\ Device \subseteq Seq(Nat \ {0}) \ {<< >>} /\ IsFiniteSet(Device)
  /\ NoBackend \notin Backend
  /\ Settings \subseteq [flag : Value, env : Value, file : Value,
                      supervised : BOOLEAN]
  /\ AuthMethod \subseteq Method
  /\ NoMethod \notin Method
  /\ "connect" \in Stack             \* the client's, authv1connect

Life == 1 .. MaxLives

VARIABLES
  given,       \* the flag and the environment the process is started with
  supervised,  \* ... by a supervisor
  pc,          \* where the process is; "off": it is not running
  life,        \* starts of the process
  readerId,    \* *readerID
  reports,     \* the calls of the callback: what stay was seen, whether and
               \* of what stay the data was read, and in what life
  rows,        \* read_history
  unwritten,   \* reports whose insert failed, or was never made
  link,        \* woffSvClient
  fetched,     \* the callback's copy of it, until it is used
  request,     \* what each call carries, and the backend it goes to
  cards        \* the time cards of the backends

store == <<rows, unwritten>>
client == <<link, fetched>>
sent == <<request, cards>>
how == <<given, supervised>>
process == <<how, pc, life, readerId, taps, reports, store, client>>
vars == <<rpcVars, process, sent>>

StartPCs == {"database", "context", "list", "listAgain"}
CallbackPCs == {"row", "fetch", "send", "wait"}

current == Len(reports)     \* the report the callback is working on

Report ==
  [visit : Visit, life : Life, read : BOOLEAN, data : 0 .. MaxVisits]
Row == [report : Call, status : {"success", "error"}, reader_id : Text]
Request == [backend : Backend, card : CreateTimeCardLogRequest(Visit, Text)]
Card == [report : Call, backend : Backend, log : TimeCardLog(Visit, Text)]

NoRequest == [backend |-> NoBackend]

TypeOK ==
  /\ RpcTypeOK
  /\ given \in [flag : Value, env : Value]
  /\ supervised \in BOOLEAN
  /\ pc \in {"off", "watch", "read"} \cup StartPCs \cup CallbackPCs
  /\ life \in 0 .. MaxLives
  /\ readerId \in Text
  /\ TapTypeOK
  /\ reports \in Seq(Report) /\ current <= MaxReports
  /\ rows \subseteq Row
  /\ unwritten \subseteq Call
  /\ link \in Backend \cup {NoBackend} /\ fetched \in Backend \cup {NoBackend}
  /\ request \in [Call -> Request \cup {NoRequest}]
  /\ cards \subseteq Card

Init ==
  /\ RpcInit
  /\ cstack = "connect" /\ sstack \in Stack
  /\ \E s \in Settings :
       /\ supervised = s.supervised
       /\ given = IF s.supervised THEN Supervised(s.flag, s.env, s.file)
                  ELSE [flag |-> s.flag, env |-> s.env]
  /\ pc = "off" /\ life = 0 /\ readerId = DefaultId
  /\ TapInit /\ reports = << >>
  /\ rows = {} /\ unwritten = {}
  /\ link = NoBackend /\ fetched = NoBackend
  /\ request = [c \in Call |-> NoRequest]
  /\ cards = {}

-----------------------------------------------------------------------------
People ==
  /\ PutCard \/ TakeCard
  /\ UNCHANGED <<rpcVars, how, pc, life, readerId, reports, store, client,
                 sent>>

-----------------------------------------------------------------------------
(* The start of main.                                                       *)

(* .env may have been edited since the last start.                          *)
Launch ==
  /\ pc = "off"
  /\ life < MaxLives
  /\ life' = life + 1
  /\ \E file \in Value : readerId' = ReaderId(given.flag, given.env, file)
  /\ pc' = "database"
  /\ UNCHANGED <<rpcVars, how, taps, reports, store, client, sent>>

(* The process ends, and its memory with it; an insert not yet made is not  *)
(* made any more.                                                           *)
Off ==
  /\ pc' = "off"
  /\ readerId' = DefaultId
  /\ Forget
  /\ link' = NoBackend /\ fetched' = NoBackend
  /\ unwritten' = IF pc = "row" THEN unwritten \cup {current} ELSE unwritten
  /\ UNCHANGED <<how, life, reports, rows, sent>>

(* Killed by a newcomer or by Ctrl+C, or a fatal error of the start.  The   *)
(* caller of an open call is gone; what the server makes of it goes on.     *)
Die ==
  /\ pc # "off"
  /\ Off
  /\ IF pc = "wait" THEN ReturnError(current) ELSE UNCHANGED rpcVars

Goto(from, to) ==
  /\ pc = from
  /\ pc' = to
  /\ UNCHANGED <<how, life, readerId>>

(* The tables are created if they are not there.                            *)
NewTables == {}
KeptTables == rows

NewLogger ==
  /\ Goto("database", "context")
  /\ rows' = KeptTables
  /\ UNCHANGED <<rpcVars, taps, reports, unwritten, client, sent>>

NewLicenseReader ==
  /\ Goto("context", "list")
  /\ UNCHANGED <<rpcVars, taps, reports, store, client, sent>>

(* What may be listed, by the readers there at the two calls.               *)
Listed == [A \in SUBSET Device |-> [S \in SUBSET Device |-> Listings(A, S)]]

(* Main lists the readers, then MonitorCards does again; they may come and  *)
(* go between any two calls of SCardListReaders.  An error is fatal, and so *)
(* is that there are none.                                                  *)
ListReaders(from, to) ==
  /\ Goto(from, to)
  /\ \E A, S \in SUBSET Device : \E names \in Listed[A][S] : names # {}
  /\ UNCHANGED <<rpcVars, taps, reports, store, client, sent>>

Start ==
  \/ NewLogger \/ NewLicenseReader
  \/ ListReaders("list", "listAgain") \/ ListReaders("listAgain", "watch")

(* setWoffSvClient, of the start of main or of the watcher: never back to   *)
(* nil.                                                                     *)
Relink(b) ==
  /\ pc \notin {"off", "database"}
  /\ link' = b
  /\ UNCHANGED <<rpcVars, how, pc, life, readerId, taps, reports, store, fetched,
                 sent>>

-----------------------------------------------------------------------------
(* The callback.                                                            *)

(* MonitorCards sees a card, and calls back when it is done with it.        *)
See ==
  /\ Goto("watch", "read")
  /\ Look
  /\ UNCHANGED <<rpcVars, reports, store, client, sent>>

CallBack(read) ==
  /\ Goto("read", "row")
  /\ Tell(read)
  /\ current < MaxReports
  /\ reports' = Append(reports, [visit |-> seen, life |-> life, read |-> read,
                                data |-> data'])
  /\ UNCHANGED <<rpcVars, store, client, sent>>

Status(i) == IF reports[i].read THEN "success" ELSE "error"

(* An error is written and that is all.                                     *)
AfterAnyRow == "fetch"
AfterRow == IF reports[current].read THEN "fetch" ELSE "watch"

LogReadHistory ==
  /\ rows' = rows \cup {[report |-> current, status |-> Status(current),
                         reader_id |-> readerId]}
  /\ UNCHANGED unwritten

InsertFails == unwritten' = unwritten \cup {current} /\ UNCHANGED rows

WriteRow ==
  /\ Goto("row", AfterRow)
  /\ LogReadHistory \/ InsertFails
  /\ UNCHANGED <<rpcVars, taps, reports, client, sent>>

(* The client is copied under the lock and used after it.                   *)
AfterFetchAlways(b) == "send"
AfterFetch(b) == IF b = NoBackend THEN "watch" ELSE "send"

Fetch ==
  /\ Goto("fetch", AfterFetch(link))
  /\ fetched' = link
  /\ UNCHANGED <<rpcVars, taps, reports, store, link, sent>>

(* The card of the report, which need not lie on the reader any more.       *)
CardNow == visit
DataRead == data

Send ==
  /\ Goto("send", "wait")
  /\ Invoke(current, "CreateTimeCardLog")
  /\ request' =
       [request EXCEPT ![current] =
          [backend |-> fetched,
           card |-> [card_id |-> DataRead, machine_ip |-> readerId]]]
  /\ fetched' = NoBackend
  /\ UNCHANGED <<taps, reports, store, link, cards>>

(* The answer's log is written about, and a nil log ends the process.       *)
Answered ==
  /\ pc = "wait"
  /\ ReturnOk(current)
  /\ \E msg \in TimeCardLogResponse({data}, {readerId}) :
       IF msg.log # NilLog
       THEN /\ Goto("wait", "watch")
            /\ UNCHANGED <<taps, reports, store, client, sent>>
       ELSE Off

(* The failure is written about, and the card not sent again.               *)
NotAnswered ==
  /\ Goto("wait", "watch")
  /\ ReturnError(current)
  /\ UNCHANGED <<taps, reports, store, client, sent>>

Callback == WriteRow \/ Fetch \/ Send \/ Answered \/ NotAnswered

-----------------------------------------------------------------------------
(* The backends, and the way to them.                                       *)

TimeCardOf(c) ==
  [report |-> c, backend |-> request[c].backend, log |-> request[c].card]

CreateTimeCardLog(c) ==
  cards' = IF ran[c] = "CreateTimeCardLog" THEN cards \cup {TimeCardOf(c)}
           ELSE cards

Serve(c) ==
  /\ Begin(c)
  /\ UNCHANGED <<process, sent>>

Answer(c) ==
  /\ End(c)
  /\ CreateTimeCardLog(c)
  /\ UNCHANGED <<process, request>>

(* An error, before the card is recorded or after.                          *)
BreakOff(c) ==
  /\ Break(c)
  /\ CreateTimeCardLog(c) \/ UNCHANGED cards
  /\ UNCHANGED <<process, request>>

Drop(c) ==
  /\ NotServed(c)
  /\ UNCHANGED <<process, sent>>

Remote == \E c \in Call : Serve(c) \/ Answer(c) \/ BreakOff(c) \/ Drop(c)

Next ==
  \/ People
  \/ Launch \/ Die \/ Start \/ \E b \in Backend : Relink(b)
  \/ See \/ \E read \in BOOLEAN : CallBack(read)
  \/ Callback
  \/ Remote

Spec == Init /\ [][Next]_vars

(* A process that is not ended goes through its callback; the deadline ends *)
(* the wait.                                                                *)
FairSpec == Spec /\ WF_vars(Callback)

-----------------------------------------------------------------------------
(* The names cut out of the buffer are those of the readers there at the    *)
(* second call, though others may have been there at the first; if they     *)
(* are the same, the buffer was large enough for them.                      *)
ListsWholeNames ==
  pc \in {"list", "listAgain"} =>
    \A A, S \in SUBSET Device : Listed[A][S] \subseteq {S} /\ S \in Listed[S][S]

(* A report the callback has gone beyond has one row, of its own status,    *)
(* unless the insert failed; restarts do not lose it.                       *)
EveryReportHasItsRow ==
  \A i \in 1 .. current :
    \/ pc = "row" /\ i = current
    \/ i \in unwritten
    \/ \E r \in rows : /\ r.report = i /\ r.status = Status(i)
                      /\ \A q \in rows : q.report = i => q = r

(* A time card follows the history row of a read, and names the reader the  *)
(* row names, however late the backend records it.                          *)
CardFollowsRow ==
  \A k \in cards :
    /\ k.report \in 1 .. current
    /\ reports[k.report].read
    /\ \/ k.report \in unwritten
       \/ [report |-> k.report, status |-> "success",
           reader_id |-> k.log.machine_ip] \in rows

(* Of two time cards of one stay of a card, the second was sent by another  *)
(* life of the process, or the first was for a card that was seen before    *)
(* and gone when the read began: a timeout alone never doubles a card.      *)
SecondCardNeedsSwapOrRestart ==
  \A j, k \in cards :
    j.report < k.report /\ j.log.card_id = k.log.card_id =>
      \/ reports[j.report].life # reports[k.report].life
      \/ /\ reports[j.report].visit < j.log.card_id
         /\ reports[k.report].visit = k.log.card_id

(* An answer without error means that this read is recorded at the backend  *)
(* it was sent to.                                                          *)
SentMeansRecorded ==
  \A c \in Call : answer[c] = "ok" =>
    \E k \in cards : /\ k.report = c
                    /\ k.backend = request[c].backend
                    /\ k.log.card_id = reports[c].data

(* The readers of a supervisor write under one id, whatever is done to .env *)
(* between their starts.                                                    *)
SupervisedRowsBearOneId ==
  supervised => \A r, q \in rows : r.reader_id = q.reader_id
=============================================================================

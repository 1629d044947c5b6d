---------------------------- MODULE LicensePush -----------------------------
(***************************************************************************)
(* Pushing reads over gRPC (internal/license): clients whose calls have    *)
(* five seconds, and a server that writes what they push to its database,  *)
(* one handler per request, and answers success whether or not the insert  *)
(* succeeded.  The database is read by queries meanwhile.                  *)
(***************************************************************************)
EXTENDS Rpc, LicenseService, LogStore

CONSTANTS
  Status,    \* what a pushed log says: "success", "error" and others
  NoData,
  Queries    \* bound: the queries asked

ASSUME PushAssumption ==
  /\ Message = Call
  /\ Method = LicenseMethod /\ NoMethod \notin Method
  /\ Queries \subseteq Query

VARIABLES
  hasLogger, hasCallback,   \* neither need be given to NewServer
  data,                     \* the message of each call
  hpc,                      \* where its handler is
  lost,                     \* calls whose insert failed
  heard                     \* times the callback was given its data

server == <<hasLogger, hasCallback>>
handling == <<hpc, lost, heard>>
vars == <<rpcVars, storeVars, server, data, handling>>

HandlerPC == {"none", "history", "note", "callback", "log", "reply"}

TypeOK ==
  /\ RpcTypeOK /\ StoreTypeOK
  /\ hasLogger \in BOOLEAN /\ hasCallback \in BOOLEAN
  /\ data \in [Call -> LicenseData(Reader) \cup ReadLog(Reader, Status) \cup {NoData}]
  /\ hpc \in [Call -> HandlerPC]
  /\ lost \subseteq Call
  /\ heard \in [Call -> Nat]

Init ==
  /\ RpcInit /\ StoreInit
  /\ cstack \in Stack /\ sstack \in Stack
  /\ hasLogger \in BOOLEAN /\ hasCallback \in BOOLEAN
  /\ data = [c \in Call |-> NoData]
  /\ hpc = [c \in Call |-> "none"]
  /\ lost = {}
  /\ heard = [c \in Call |-> 0]

-----------------------------------------------------------------------------
(* Clients.                                                                 *)

Say(c, m, d) ==
  /\ Invoke(c, m)
  /\ data' = [data EXCEPT ![c] = d]
  /\ UNCHANGED <<storeVars, server, handling>>

PushLicenseData(c) == \E d \in LicenseData(Reader) : Say(c, "PushLicenseData", d)
PushReadLog(c) == \E d \in ReadLog(Reader, Status) : Say(c, "PushReadLog", d)
Ask(c) == \E m \in {"GetLogs", "GetReadHistory"} : Say(c, m, NoData)

Answered(c) ==
  /\ ReturnOk(c) \/ ReturnError(c)
  /\ UNCHANGED <<storeVars, server, data, handling>>

-----------------------------------------------------------------------------
(* The server.  Its own methods are the two pushes.                         *)

Own == {"PushLicenseData", "PushReadLog"}

FirstHistory(m) == IF hasLogger THEN "history" ELSE "callback"
FirstReply(m) == "reply"
First(m) ==
  IF m = "PushLicenseData"
  THEN IF hasLogger THEN "history" ELSE "callback"
  ELSE IF hasLogger THEN "log" ELSE "reply"

Serve(c) ==
  /\ Begin(c)
  /\ hpc' = [hpc EXCEPT ![c] = First(Serves(c))]
  /\ UNCHANGED <<storeVars, server, data, lost, heard>>

Drop(c) ==
  /\ NotServed(c)
  /\ UNCHANGED <<storeVars, server, data, handling>>

Step(c, from, to) ==
  /\ hpc[c] = from
  /\ hpc' = [hpc EXCEPT ![c] = to]
  /\ UNCHANGED <<rpcVars, clock, reading, server, data>>

(* A failed insert is only written about.                                   *)
Fails(c) == lost' = lost \cup {c} /\ UNCHANGED tables

WriteHistory(c) ==
  /\ Step(c, "history", "note")
  /\ \/ LogReadHistory(data[c].reader_id, "success", c) /\ UNCHANGED lost
     \/ Fails(c)
  /\ UNCHANGED heard

WriteNote(c) ==
  /\ Step(c, "note", "callback")
  /\ LogMessage("INFO", c) \/ UNCHANGED tables
  /\ UNCHANGED <<lost, heard>>

RunCallback(c) ==
  /\ Step(c, "callback", "reply")
  /\ heard' = IF hasCallback THEN [heard EXCEPT ![c] = @ + 1] ELSE heard
  /\ UNCHANGED <<tables, lost>>

LevelAsIs(status) == status
Level(status) == IF status = "error" THEN "ERROR" ELSE "INFO"

WriteLog(c) ==
  /\ Step(c, "log", "reply")
  /\ \/ /\ LogMessageWithContext(Level(data[c].status), c, data[c].reader_id)
        /\ UNCHANGED lost
     \/ Fails(c)
  /\ UNCHANGED heard

Reply(c) ==
  /\ hpc[c] = "reply"
  /\ End(c)
  /\ hpc' = [hpc EXCEPT ![c] = "none"]
  /\ UNCHANGED <<storeVars, server, data, lost, heard>>

(* The process ends, its handlers where they are; the tables stay.          *)
Crash ==
  /\ BreakAll
  /\ hpc' = [c \in Call |-> "none"]
  /\ UNCHANGED <<storeVars, server, data, lost, heard>>

Handler(c) ==
  \/ Serve(c) \/ Drop(c)
  \/ WriteHistory(c) \/ WriteNote(c) \/ RunCallback(c) \/ WriteLog(c) \/ Reply(c)

Next ==
  \/ \E c \in Call :
       \/ PushLicenseData(c) \/ PushReadLog(c) \/ Ask(c) \/ Answered(c)
       \/ Handler(c)
  \/ Crash
  \/ Store(Queries) /\ UNCHANGED <<rpcVars, server, data, handling>>

Spec == Init /\ [][Next]_vars

-----------------------------------------------------------------------------
RowsOf(t, c) == {r \in tables[t] : r.message = c}

(* Success means stored, in the table and under the level or status the     *)
(* message calls for, unless the insert failed; and the callback was given  *)
(* the data once.  Nothing else is ever answered with success.              *)
AnsweredIsStored ==
  \A c \in Call : answer[c] = "ok" =>
    \/ /\ called[c] = "PushLicenseData"
       /\ hasLogger /\ c \notin lost =>
            \E r \in RowsOf("read_history", c) : r.reader = data[c].reader_id
       /\ hasCallback => heard[c] = 1
    \/ /\ called[c] = "PushReadLog"
       /\ hasLogger /\ c \notin lost =>
            \E r \in RowsOf("logs", c) :
              r.reader = data[c].reader_id /\ r.tag = Level(data[c].status)

(* A call leaves at most one row in a table, the data of which are its own  *)
(* whatever other handlers run; and ids grow with time.                     *)
RowsAreTheCalls ==
  /\ \A c \in Call : /\ Cardinality(RowsOf("read_history", c)) <= 1
                     /\ Cardinality(RowsOf("logs", c)) <= 1
  /\ \A r \in tables["read_history"] :
       called[r.message] = "PushLicenseData" /\ r.reader = data[r.message].reader_id
  /\ \A t \in Table : \A r, s \in tables[t] :
       (r.id = s.id => r = s) /\ (r.id < s.id => r.time <= s.time)
=============================================================================

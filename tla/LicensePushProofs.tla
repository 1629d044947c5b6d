------------------------- MODULE LicensePushProofs --------------------------
(***************************************************************************)
(* What the server of license.LicenseReader and its database keep true,    *)
(* for every number of calls, of handlers at once and of queries.          *)
(***************************************************************************)
EXTENDS LicensePush, RpcProofs, FiniteSetTheorems

(* What the generator and the server's program settle: tables that agree,   *)
(* and the two pushes as the only methods of the server's own.              *)
Generated ==
  StubsAgree /\ \A s \in Stack : Unimplemented[s] = LicenseMethod \ Own

-----------------------------------------------------------------------------
(* Its parts: the tables, ...                                               *)

(* Ids run from 1 to the number of rows, in the order of time.              *)
TableInOrder(rs) ==
  /\ IsFiniteSet(rs)
  /\ \A r \in rs : r.id <= Cardinality(rs) /\ r.time <= clock
  /\ \A r, s \in rs : (r.id = s.id => r = s) /\ (r.id < s.id => r.time <= s.time)

TablesInOrder == \A t \in Table : TableInOrder(tables[t])

(* ... the handlers, ...                                                    *)

(* A handler runs while its call does, and its message is its method's.     *)
Handling(c) ==
  /\ hpc[c] # "none" <=> at[c] = "running"
  /\ hpc[c] \in {"history", "note", "callback"} => ran[c] = "PushLicenseData"
  /\ hpc[c] = "log" => ran[c] = "PushReadLog"
  /\ called[c] = "PushLicenseData" => data[c] \in LicenseData(Reader)
  /\ called[c] = "PushReadLog" => data[c] \in ReadLog(Reader, Status)

Unbegun(c) == at[c] \in {"none", "sent", "dropped"}
Finished(c) == at[c] = "done" \/ hpc[c] = "reply"

(* A handler inserts what it was given once, and before it answers.         *)
RowsOfCall(c) ==
  /\ \A t \in Table : \A r, s \in RowsOf(t, c) : r = s
  /\ Unbegun(c) \/ hpc[c] = "history" => \A t \in Table : RowsOf(t, c) = {}
  /\ hpc[c] \in {"note", "log"} => RowsOf("logs", c) = {}
  /\ \A r \in RowsOf("read_history", c) :
       called[c] = "PushLicenseData" /\ r.reader = data[c].reader_id

HistoryStored(c) ==
  \E r \in RowsOf("read_history", c) : r.reader = data[c].reader_id

LogStored(c) ==
  \E r \in RowsOf("logs", c) :
    r.reader = data[c].reader_id /\ r.tag = Level(data[c].status)

StoredBeforeAnswer(c) ==
  /\ /\ hpc[c] \in {"note", "callback"} \/ Finished(c)
     /\ ran[c] = "PushLicenseData" /\ hasLogger /\ c \notin lost
     => HistoryStored(c)
  /\ Finished(c) /\ ran[c] = "PushReadLog" /\ hasLogger /\ c \notin lost
     => LogStored(c)
  /\ Unbegun(c) \/ hpc[c] \in {"history", "note", "callback"} => heard[c] = 0
  /\ Finished(c) /\ ran[c] = "PushLicenseData" /\ hasCallback => heard[c] = 1

(* ... and the query: what was counted are the rows that were there.        *)
QueryOfPast ==
  /\ qpc # "idle" => upto <= Cardinality(tables[query.table])
  /\ qpc = "counted" =>
       total = Cardinality({r \in Counted(query) : r.id <= upto})
  /\ qpc = "done" => page \subseteq Counted(query)
  /\ PageMatchesRequest
  /\ TotalCountsThePast

(* The inductive invariant.                                                 *)
PushInv ==
  /\ TypeOK /\ RpcInv
  /\ TablesInOrder
  /\ \A c \in Call : Handling(c) /\ RowsOfCall(c) /\ StoredBeforeAnswer(c)
  /\ QueryOfPast

-----------------------------------------------------------------------------
(* The steps of clients and handlers are steps of the calls.                *)
LEMMA PushStepIsRpcStep == [Next]_vars => [RpcNext]_rpcVars
<1> SUFFICES ASSUME [Next]_vars PROVE RpcNext \/ UNCHANGED rpcVars
  OBVIOUS
<1>1. Method = LicenseMethod
  BY PushAssumption
<1>2. ASSUME NEW c \in Call, PushLicenseData(c) \/ PushReadLog(c) \/ Ask(c)
      PROVE  \E m \in Method : Invoke(c, m)
  BY <1>1, <1>2 DEF PushLicenseData, PushReadLog, Ask, Say, LicenseMethod
<1>3. ASSUME NEW c \in Call, Answered(c) PROVE ReturnOk(c) \/ ReturnError(c)
  BY <1>3 DEF Answered
<1>4. ASSUME NEW c \in Call, Handler(c)
      PROVE  NotServed(c) \/ Begin(c) \/ End(c) \/ UNCHANGED rpcVars
  BY <1>4 DEF Handler, Serve, Drop, WriteHistory, WriteNote, RunCallback, WriteLog,
     Step, Reply
<1>5. CASE Crash
  BY <1>5 DEF Crash, RpcNext
<1>6. CASE Store(Queries) /\ UNCHANGED <<rpcVars, server, data, handling>>
  BY <1>6
<1>7. CASE UNCHANGED vars
  BY <1>7 DEF vars
<1> QED
  BY <1>2, <1>3, <1>4, <1>5, <1>6, <1>7 DEF Next, RpcNext

(* What a call is known to run, and to have been given.                     *)
LEMMA RanIsOwn ==
  ASSUME Generated, PushInv, NEW c \in Call, at[c] \in Served
  PROVE  /\ ran[c] = called[c] /\ ran[c] \in Own
         /\ ran[c] = "PushLicenseData" => data[c] \in LicenseData(Reader)
         /\ ran[c] = "PushReadLog" => data[c] \in ReadLog(Reader, Status)
<1>1. Implemented(c) /\ ran[c] = Serves(c) /\ sstack \in Stack
  BY DEF PushInv, RpcInv, RpcTypeOK, Progress
<1>2. ran[c] \in LicenseMethod
  BY <1>1, RpcAssumption, PushAssumption DEF Implemented, Known, Serves
<1>3. ran[c] \in Own
  BY <1>1, <1>2 DEF Implemented, Generated
<1>4. ran[c] = called[c]
  BY <1>2, PushAssumption, StubsServe DEF Generated, PushInv, ServedAsCalled
<1> QED
  BY <1>3, <1>4 DEF PushInv, Handling

(* What a handler has of its call when it inserts.                          *)
LEMMA HandlerHasData ==
  ASSUME Generated, PushInv, NEW c \in Call
  PROVE  /\ hpc[c] \in {"history", "log"} => data[c].reader_id \in Reader
         /\ hpc[c] = "history" => called[c] = "PushLicenseData"
<1>1. hpc[c] # "none" => at[c] \in Served
  BY DEF PushInv, Handling, Served
<1>2. hpc[c] = "history" => ran[c] = "PushLicenseData"
  BY DEF PushInv, Handling
<1>3. hpc[c] = "log" => ran[c] = "PushReadLog"
  BY DEF PushInv, Handling
<1> QED
  BY <1>1, <1>2, <1>3, RanIsOwn DEF LicenseData, ReadLog

-----------------------------------------------------------------------------
(* Inserts.                                                                 *)

(* An insert adds one row, with the next id and the time it is.             *)
LEMMA InsertAdds ==
  ASSUME TypeOK, TablesInOrder, NEW t \in Table,
         NEW reader \in Reader \cup {AnyText}, NEW tag \in Tag, NEW c \in Call,
         Insert(t, reader, tag, c)
  PROVE  \E new \in Row :
           /\ new.id = Cardinality(tables[t]) + 1 /\ new.time = clock
           /\ new.reader = reader /\ new.tag = tag /\ new.message = c
           /\ new \notin tables[t]
           /\ tables' = [tables EXCEPT ![t] = @ \cup {new}]
           /\ IsFiniteSet(tables[t] \cup {new})
           /\ Cardinality(tables[t] \cup {new}) = Cardinality(tables[t]) + 1
<1> DEFINE new == [id |-> Cardinality(tables[t]) + 1, time |-> clock,
                   reader |-> reader, tag |-> tag, message |-> c]
<1>1. IsFiniteSet(tables[t]) /\ Cardinality(tables[t]) \in Nat
  BY FS_CardinalityType DEF TablesInOrder, TableInOrder
<1>2. new \in Row
  BY <1>1, PushAssumption DEF TypeOK, StoreTypeOK, Row
<1>3. new \notin tables[t]
  BY <1>1 DEF TablesInOrder, TableInOrder
<1>4. tables' = [tables EXCEPT ![t] = @ \cup {new}]
  BY DEF Insert
<1>5. IsFiniteSet(tables[t] \cup {new})
      /\ Cardinality(tables[t] \cup {new}) = Cardinality(tables[t]) + 1
  BY <1>1, <1>3, FS_AddElement
<1> QED
  BY <1>2, <1>3, <1>4, <1>5

(* The inserts there are: of whom, at what point, into which table.         *)
Inserts(t, reader, tag, c) ==
  /\ Insert(t, reader, tag, c)
  /\ \/ hpc[c] = "history" /\ t = "read_history" /\ reader = data[c].reader_id
     \/ hpc[c] = "note" /\ t = "logs"
     \/ hpc[c] = "log" /\ t = "logs" /\ reader = data[c].reader_id

(* Inserts only add: rows are never changed or deleted, and each new row is *)
(* of the handler that takes the step.                                      *)
LEMMA TablesGrow ==
  ASSUME Generated, PushInv, [Next]_vars
  PROVE  \/ UNCHANGED tables
         \/ /\ UNCHANGED <<clock, reading>>
            /\ \E t \in Table, reader \in Reader \cup {AnyText}, tag \in Tag, c \in Call :
                 Inserts(t, reader, tag, c)
<1>1. ASSUME NEW c \in Call, Handler(c)
      PROVE  \/ UNCHANGED tables
             \/ /\ UNCHANGED <<clock, reading>>
                /\ \E t \in Table, reader \in Reader \cup {AnyText}, tag \in Tag :
                     Inserts(t, reader, tag, c)
  <2>1. CASE WriteHistory(c)
    <3>1. hpc[c] = "history" /\ UNCHANGED <<clock, reading>>
      BY <2>1 DEF WriteHistory, Step
    <3>2. UNCHANGED tables \/ Insert("read_history", data[c].reader_id, "success", c)
      BY <2>1 DEF WriteHistory, LogReadHistory, Fails
    <3> QED
      BY <3>1, <3>2, HandlerHasData DEF Inserts, Table, Tag
  <2>2. CASE WriteNote(c)
    <3>1. hpc[c] = "note" /\ UNCHANGED <<clock, reading>>
      BY <2>2 DEF WriteNote, Step
    <3>2. UNCHANGED tables \/ Insert("logs", AnyText, "INFO", c)
      BY <2>2 DEF WriteNote, LogMessage, LogMessageWithContext
    <3> QED
      BY <3>1, <3>2 DEF Inserts, Table, Tag
  <2>3. CASE WriteLog(c)
    <3>1. hpc[c] = "log" /\ UNCHANGED <<clock, reading>>
      BY <2>3 DEF WriteLog, Step
    <3>2. \/ UNCHANGED tables
          \/ Insert("logs", data[c].reader_id, Level(data[c].status), c)
      BY <2>3 DEF WriteLog, LogMessageWithContext, Fails
    <3>3. Level(data[c].status) \in Tag
      BY DEF Level, Tag
    <3> QED
      BY <3>1, <3>2, <3>3, HandlerHasData DEF Inserts, Table
  <2>4. CASE Serve(c) \/ Drop(c) \/ RunCallback(c) \/ Reply(c)
    BY <2>4 DEF Serve, Drop, RunCallback, Step, Reply, storeVars
  <2> QED
    BY <1>1, <2>1, <2>2, <2>3, <2>4 DEF Handler
<1>2. ASSUME NEW c \in Call, PushLicenseData(c) \/ PushReadLog(c) \/ Ask(c) \/ Answered(c)
      PROVE  UNCHANGED tables
  BY <1>2 DEF PushLicenseData, PushReadLog, Ask, Say, Answered, storeVars
<1>3. CASE Crash \/ UNCHANGED vars
  BY <1>3 DEF Crash, vars, storeVars
<1>4. CASE Store(Queries)
  BY <1>4 DEF Store, Tick, CountLogs, CountReadHistory, Count, SelectLogs,
     SelectReadHistory, Select, GetRecentLogs, EndQuery
<1> QED
  BY <1>1, <1>2, <1>3, <1>4 DEF Next

(* The steps that do not insert, as far as tables and query go.             *)
LEMMA ClockStep == TypeOK /\ [Next]_vars => clock' \in 0 .. MaxTime /\ clock <= clock'
<1> SUFFICES ASSUME TypeOK, [Next]_vars PROVE clock' \in 0 .. MaxTime /\ clock <= clock'
  OBVIOUS
<1>0. clock \in 0 .. MaxTime /\ MaxTime \in Nat
  BY StoreAssumption DEF TypeOK, StoreTypeOK
<1>1. CASE Tick
  BY <1>0, <1>1 DEF Tick
<1>2. CASE UNCHANGED clock
  BY <1>0, <1>2
<1>3. ASSUME NEW c \in Call, Handler(c) PROVE UNCHANGED clock
  BY <1>3 DEF Handler, Serve, Drop, WriteHistory, WriteNote, RunCallback, WriteLog,
     Step, Reply, storeVars
<1>4. ASSUME NEW c \in Call, PushLicenseData(c) \/ PushReadLog(c) \/ Ask(c) \/ Answered(c)
      PROVE  UNCHANGED clock
  BY <1>4 DEF PushLicenseData, PushReadLog, Ask, Say, Answered, storeVars
<1>5. CASE Crash \/ UNCHANGED vars
  BY <1>2, <1>5 DEF Crash, vars, storeVars
<1>6. CASE Store(Queries) /\ ~Tick
  BY <1>2, <1>6 DEF Store, CountLogs, CountReadHistory, Count, SelectLogs,
     SelectReadHistory, Select, GetRecentLogs, EndQuery
<1> QED
  BY <1>1, <1>2, <1>3, <1>4, <1>5, <1>6 DEF Next

(* An insert, at the end of ids and of time, keeps a table in order.        *)
LEMMA TablesStep == Generated /\ PushInv /\ [Next]_vars => TablesInOrder'
<1> SUFFICES ASSUME Generated, PushInv, [Next]_vars, NEW u \in Table
             PROVE  TableInOrder(tables[u])'
  BY DEF TablesInOrder
<1>0. TableInOrder(tables[u]) /\ TypeOK /\ TablesInOrder
  BY DEF PushInv, TablesInOrder
<1>1. tables \in [Table -> SUBSET Row] /\ clock \in Nat /\ clock' \in Nat /\ clock <= clock'
  BY <1>0, ClockStep, StoreAssumption DEF TypeOK, StoreTypeOK
<1>2. \A r \in tables[u] : r.id \in Nat /\ r.time \in Nat
  BY <1>1, StoreAssumption DEF Row
<1>3. CASE tables'[u] = tables[u]
  BY <1>0, <1>1, <1>2, <1>3 DEF TableInOrder
<1>4. CASE tables'[u] # tables[u]
  <2>1. PICK t \in Table, reader \in Reader \cup {AnyText}, tag \in Tag, c \in Call :
          Insert(t, reader, tag, c) /\ UNCHANGED clock
    BY <1>4, TablesGrow DEF Inserts
  <2>2. PICK new \in Row :
          /\ new.id = Cardinality(tables[t]) + 1 /\ new.time = clock
          /\ new \notin tables[t]
          /\ tables' = [tables EXCEPT ![t] = @ \cup {new}]
          /\ IsFiniteSet(tables[t] \cup {new})
          /\ Cardinality(tables[t] \cup {new}) = Cardinality(tables[t]) + 1
    BY <1>0, <2>1, InsertAdds
  <2>3. u = t /\ tables'[u] = tables[u] \cup {new}
    BY <1>1, <1>4, <2>2
  <2>4. Cardinality(tables[u]) \in Nat
    BY <1>0, FS_CardinalityType DEF TableInOrder
  <2>5. \A r \in tables[u] : r.id < new.id /\ r.time <= new.time
    BY <1>0, <1>2, <2>2, <2>3, <2>4 DEF TableInOrder
  <2>6. new.id \in Nat /\ new.time \in Nat
    BY <1>1, <2>2, <2>3, <2>4
  <2>7. \A r \in tables'[u] : r.id <= Cardinality(tables'[u]) /\ r.time <= clock'
    BY <1>0, <1>1, <1>2, <2>1, <2>2, <2>3, <2>4, <2>6 DEF TableInOrder
  <2>8. \A r, s \in tables'[u] : (r.id = s.id => r = s) /\ (r.id < s.id => r.time <= s.time)
    BY <1>0, <1>2, <2>3, <2>5, <2>6 DEF TableInOrder
  <2>9. IsFiniteSet(tables'[u])
    BY <2>2, <2>3
  <2> QED
    BY <2>7, <2>8, <2>9 DEF TableInOrder
<1> QED
  BY <1>3, <1>4

-----------------------------------------------------------------------------
(* Types.                                                                   *)

(* What a query can find is finite.                                         *)
LEMMA CountedIsFinite ==
  ASSUME TypeOK, TablesInOrder, NEW q, q.table \in Table
  PROVE  /\ Counted(q) \in SUBSET tables[q.table]
         /\ IsFiniteSet(Counted(q)) /\ Cardinality(Counted(q)) \in Nat
         /\ Cardinality(tables[q.table]) \in Nat
<1>1. IsFiniteSet(tables[q.table])
  BY DEF TablesInOrder, TableInOrder
<1>2. Counted(q) \in SUBSET tables[q.table]
  BY DEF Counted, Where
<1> QED
  BY <1>1, <1>2, FS_Subset, FS_CardinalityType

(* What stepping through the rows leaves, whether or not an error ends it.  *)
LEMMA ScanOf ==
  ASSUME NEW rs, IsFiniteSet(rs), NEW n \in Nat, Scan(rs, n)
  PROVE  /\ cut' \in BOOLEAN
         /\ page' \subseteq rs /\ Cardinality(page') \in Nat /\ Cardinality(page') <= n
         /\ \A r \in page', s \in rs \ page' : s.time <= r.time
         /\ ~cut' => Cardinality(page') = IF n < Cardinality(rs) THEN n ELSE Cardinality(rs)
<1>1. Cardinality(rs) \in Nat
  BY FS_CardinalityType
<1>2. ASSUME NEW m \in 0 .. n, page' \in Newest(rs, m)
      PROVE  /\ page' \subseteq rs
             /\ Cardinality(page') = IF m < Cardinality(rs) THEN m ELSE Cardinality(rs)
             /\ Cardinality(page') \in Nat /\ Cardinality(page') <= n
             /\ \A r \in page', s \in rs \ page' : s.time <= r.time
  BY <1>1, <1>2 DEF Newest
<1>3. n \in 0 .. n
  OBVIOUS
<1>4. CASE page' \in Newest(rs, n) /\ cut' = FALSE
  BY <1>2, <1>3, <1>4
<1>5. CASE cut' = TRUE /\ \E m \in 0 .. n : page' \in Newest(rs, m)
  BY <1>2, <1>5
<1> QED
  BY <1>4, <1>5 DEF Scan

(* The limit of a query's SELECT.                                           *)
LEMMA LimitOf ==
  ASSUME NEW q \in Query, NEW rs, Cardinality(rs) \in Nat
  PROVE  /\ Limit(q, rs) \in Nat
         /\ q.limit > 0 => Limit(q, rs) = q.limit
         /\ ~(q.limit > 0) => Limit(q, rs) = Cardinality(rs)
  BY DEF Limit, Query

(* Every step keeps the types of tables and query.                          *)
LEMMA StoreTypeStep == Generated /\ PushInv /\ [Next]_vars => StoreTypeOK'
<1> SUFFICES ASSUME Generated, PushInv, [Next]_vars PROVE StoreTypeOK'
  OBVIOUS
<1>0. TypeOK /\ TablesInOrder /\ StoreTypeOK
  BY DEF PushInv, TypeOK
<1>1. clock' \in 0 .. MaxTime
  BY <1>0, ClockStep
<1>2. tables' \in [Table -> SUBSET Row]
  <2>1. CASE UNCHANGED tables
    BY <1>0, <2>1 DEF StoreTypeOK
  <2>2. CASE ~UNCHANGED tables
    <3>1. PICK t \in Table, reader \in Reader \cup {AnyText}, tag \in Tag, c \in Call :
            Insert(t, reader, tag, c)
      BY <2>2, TablesGrow DEF Inserts
    <3>2. PICK new \in Row :
            /\ new.id = Cardinality(tables[t]) + 1 /\ new.time = clock
            /\ new \notin tables[t]
            /\ tables' = [tables EXCEPT ![t] = @ \cup {new}]
            /\ IsFiniteSet(tables[t] \cup {new})
            /\ Cardinality(tables[t] \cup {new}) = Cardinality(tables[t]) + 1
      BY <1>0, <3>1, InsertAdds
    <3> QED
      BY <1>0, <3>2 DEF StoreTypeOK
  <2> QED
    BY <2>1, <2>2
<1>3. NoQuery \in Query
  BY DEF NoQuery, Query, Table
<1>4. \A q \in Query : q.table \in Table /\ q.limit \in Nat
  BY DEF Query
<1>5. CASE UNCHANGED reading
  BY <1>0, <1>1, <1>2, <1>5 DEF StoreTypeOK, reading
<1>6. ASSUME NEW q \in Queries, CountLogs(q) \/ CountReadHistory(q) PROVE StoreTypeOK'
  <2>1. q \in Query /\ q.table \in Table
    BY <1>4, PushAssumption
  <2>2. Cardinality(Counted(q)) \in Nat /\ Cardinality(tables[q.table]) \in Nat
    BY <1>0, <2>1, CountedIsFinite
  <2> QED
    BY <1>0, <1>1, <1>2, <1>6, <2>1, <2>2
    DEF CountLogs, CountReadHistory, Count, Total, StoreTypeOK
<1>7. CASE SelectLogs \/ SelectReadHistory
  <2>1. query \in Query /\ query.table \in Table
    BY <1>0, <1>4 DEF StoreTypeOK
  <2>2. /\ IsFiniteSet(Counted(query)) /\ Cardinality(Counted(query)) \in Nat
        /\ Counted(query) \in SUBSET tables[query.table]
    BY <1>0, <2>1, CountedIsFinite
  <2>3. Scan(Counted(query), Limit(query, Counted(query)))
    BY <1>7 DEF SelectLogs, SelectReadHistory, Select
  <2>4. page' \subseteq Counted(query) /\ cut' \in BOOLEAN
    <3>1. Limit(query, Counted(query)) \in Nat
      BY <2>1, <2>2, LimitOf
    <3> QED
      BY <2>2, <2>3, <3>1, ScanOf
  <2>5. page' \subseteq Row
    BY <1>0, <2>1, <2>2, <2>4 DEF StoreTypeOK
  <2> QED
    BY <1>0, <1>1, <1>2, <1>7, <2>4, <2>5
    DEF SelectLogs, SelectReadHistory, Select, StoreTypeOK
<1>8. ASSUME NEW q \in Queries, GetRecentLogs(q.limit) PROVE StoreTypeOK'
  <2>1. q.limit \in Nat
    BY <1>4, PushAssumption
  <2>2. IsFiniteSet(tables["logs"])
    BY <1>0 DEF TablesInOrder, TableInOrder, Table
  <2>3. page' \subseteq tables["logs"] /\ cut' \in BOOLEAN
    BY <1>8, <2>1, <2>2, ScanOf DEF GetRecentLogs
  <2>4. page' \subseteq Row
    BY <1>0, <2>3 DEF StoreTypeOK, Table
  <2>5. [NoQuery EXCEPT !.limit = q.limit] \in Query
    BY <1>3, <2>1 DEF Query
  <2> QED
    BY <1>0, <1>1, <1>2, <1>8, <2>3, <2>4, <2>5 DEF GetRecentLogs, StoreTypeOK
<1>9. CASE EndQuery
  BY <1>0, <1>1, <1>2, <1>3, <1>9 DEF EndQuery, StoreTypeOK
<1>10. ASSUME NEW c \in Call, \/ PushLicenseData(c) \/ PushReadLog(c) \/ Ask(c)
                              \/ Answered(c) \/ Handler(c)
       PROVE  UNCHANGED reading
  BY <1>10 DEF PushLicenseData, PushReadLog, Ask, Say, Answered, Handler, Serve, Drop,
     WriteHistory, WriteNote, RunCallback, WriteLog, Step, Reply, storeVars, reading
<1>11. CASE Crash \/ UNCHANGED vars \/ Tick
  BY <1>5, <1>11 DEF Crash, vars, storeVars, Tick, reading
<1> QED
  BY <1>5, <1>6, <1>7, <1>8, <1>9, <1>10, <1>11 DEF Next, Store

(* Every step keeps the types.                                              *)
LEMMA TypeStep == Generated /\ PushInv /\ [Next]_vars => TypeOK'
<1> SUFFICES ASSUME Generated, PushInv, [Next]_vars PROVE TypeOK'
  OBVIOUS
<1>0. TypeOK
  BY DEF PushInv
<1>1. StoreTypeOK' /\ RpcTypeOK'
  <2>1. RpcInv'
    BY PushStepIsRpcStep, RpcStep DEF PushInv
  <2> QED
    BY <2>1, StoreTypeStep DEF RpcInv
<1> USE <1>0, <1>1 DEF TypeOK, server, handling
<1>2. ASSUME NEW c \in Call, PushLicenseData(c) \/ PushReadLog(c) \/ Ask(c)
      PROVE  TypeOK'
  BY <1>2 DEF PushLicenseData, PushReadLog, Ask, Say
<1>3. ASSUME NEW c \in Call, Answered(c) \/ Drop(c) PROVE TypeOK'
  BY <1>3 DEF Answered, Drop
<1>4. ASSUME NEW c \in Call, Serve(c) \/ Reply(c) PROVE TypeOK'
  BY <1>4 DEF Serve, First, Reply, HandlerPC
<1>5. ASSUME NEW c \in Call, WriteHistory(c) \/ WriteNote(c) \/ WriteLog(c) PROVE TypeOK'
  BY <1>5 DEF WriteHistory, WriteNote, WriteLog, Step, Fails, HandlerPC
<1>6. ASSUME NEW c \in Call, RunCallback(c) PROVE TypeOK'
  BY <1>6 DEF RunCallback, Step, HandlerPC
<1>7. CASE Crash
  BY <1>7 DEF Crash, HandlerPC
<1>8. CASE UNCHANGED <<server, data, handling>>
  BY <1>8
<1>9. CASE UNCHANGED vars
  BY <1>8, <1>9 DEF vars
<1> QED
  BY <1>2, <1>3, <1>4, <1>5, <1>6, <1>7, <1>8, <1>9 DEF Next, Handler

-----------------------------------------------------------------------------
(* Handlers.                                                                *)

CallInv(c) == Handling(c) /\ RowsOfCall(c) /\ StoredBeforeAnswer(c)

SameCall(d) ==
  /\ UNCHANGED server
  /\ hpc'[d] = hpc[d] /\ at'[d] = at[d] /\ ran'[d] = ran[d]
  /\ called'[d] = called[d] /\ data'[d] = data[d] /\ heard'[d] = heard[d]
  /\ d \in lost' <=> d \in lost
  /\ \A t \in Table : RowsOf(t, d)' = RowsOf(t, d)

(* What is known of a call the step does not touch stays known.             *)
LEMMA CallInvOfOthers ==
  ASSUME NEW d, CallInv(d), SameCall(d) PROVE CallInv(d)'
<1> USE DEF CallInv, SameCall, server
<1>1. Handling(d)'
  BY DEF Handling
<1>2. RowsOfCall(d)'
  BY DEF RowsOfCall, Unbegun, Table
<1>3. StoredBeforeAnswer(d)'
  BY DEF StoredBeforeAnswer, Unbegun, Finished, HistoryStored, LogStored, Table
<1> QED
  BY <1>1, <1>2, <1>3

(* An insert touches the rows of no other call, and of no other table.      *)
LEMMA InsertRows ==
  ASSUME TypeOK, TablesInOrder, NEW t \in Table,
         NEW reader \in Reader \cup {AnyText}, NEW tag \in Tag, NEW c \in Call,
         Insert(t, reader, tag, c)
  PROVE  /\ \A d \in Call, u \in Table : d # c \/ u # t => RowsOf(u, d)' = RowsOf(u, d)
         /\ RowsOf(t, c) = {} =>
              \E new : /\ new.reader = reader /\ new.tag = tag
                       /\ RowsOf(t, c)' = {new}
<1>1. PICK new \in Row :
        /\ new.id = Cardinality(tables[t]) + 1 /\ new.time = clock
        /\ new.reader = reader /\ new.tag = tag /\ new.message = c
        /\ new \notin tables[t]
        /\ tables' = [tables EXCEPT ![t] = @ \cup {new}]
        /\ IsFiniteSet(tables[t] \cup {new})
        /\ Cardinality(tables[t] \cup {new}) = Cardinality(tables[t]) + 1
  BY InsertAdds
<1>2. tables'[t] = tables[t] \cup {new} /\ \A u \in Table : u # t => tables'[u] = tables[u]
  BY <1>1 DEF TypeOK, StoreTypeOK
<1> QED
  BY <1>1, <1>2 DEF RowsOf

(* The calls a step is not of.                                              *)
OthersSame(c) == \A d \in Call : d # c => SameCall(d)

(* A step of one call that keeps its own invariant, and what the others'    *)
(* speaks of, keeps that of every call.                                     *)
LEMMA CallStepOf ==
  ASSUME NEW c \in Call, \A d \in Call : CallInv(d), OthersSame(c), CallInv(c)'
  PROVE  \A d \in Call : CallInv(d)'
  BY CallInvOfOthers DEF OthersSame

(* The steps of clients.                                                    *)
LEMMA ClientKeeps ==
  ASSUME PushInv, NEW c \in Call,
         PushLicenseData(c) \/ PushReadLog(c) \/ Ask(c) \/ Answered(c)
  PROVE  \A d \in Call : CallInv(d)'
<1>0. \A d \in Call : CallInv(d)
  BY DEF PushInv, CallInv
<1>1. TypeOK /\ RpcTypeOK /\ Progress(c) /\ CallInv(c)
  BY <1>0 DEF PushInv, RpcInv
<1>2. CASE Answered(c)
  <2>1. \A d \in Call : SameCall(d)
    BY <1>2 DEF Answered, ReturnOk, ReturnError, Return, SameCall, handling, storeVars, RowsOf
  <2> QED
    BY <1>0, <2>1, CallInvOfOthers
<1>3. ASSUME NEW m, NEW msg, Say(c, m, msg),
             m = "PushLicenseData" => msg \in LicenseData(Reader),
             m = "PushReadLog" => msg \in ReadLog(Reader, Status)
      PROVE  \A d \in Call : CallInv(d)'
  <2>1. OthersSame(c)
    BY <1>1, <1>3
    DEF Say, Invoke, OthersSame, SameCall, handling, storeVars, RowsOf, TypeOK, RpcTypeOK
  <2>2. /\ at[c] = "none" /\ at'[c] = "sent" /\ hpc[c] = "none"
        /\ called'[c] = m /\ data'[c] = msg
        /\ UNCHANGED <<hpc, ran, heard, tables, lost, server>>
    BY <1>1, <1>3
    DEF Say, Invoke, Progress, CallInv, Handling, handling, storeVars, TypeOK, RpcTypeOK
  <2>3. \A t \in Table : RowsOf(t, c)' = {}
    BY <1>1, <2>2 DEF CallInv, RowsOfCall, RowsOf, Unbegun
  <2>4. CallInv(c)'
    BY <1>1, <1>3, <2>2, <2>3
    DEF CallInv, Handling, RowsOfCall, StoredBeforeAnswer, Unbegun, Finished, Table
  <2> QED
    BY <1>0, <2>1, <2>4, CallStepOf
<1> QED
  BY <1>2, <1>3 DEF PushLicenseData, PushReadLog, Ask

(* The steps of a handler, from its request to its answer.                  *)
LEMMA HandlerKeeps ==
  ASSUME Generated, PushInv, NEW c \in Call, Handler(c)
  PROVE  \A d \in Call : CallInv(d)'
<1>0. \A d \in Call : CallInv(d)
  BY DEF PushInv, CallInv
<1>1. TypeOK /\ RpcTypeOK /\ Progress(c) /\ CallInv(c) /\ TablesInOrder
  BY <1>0 DEF PushInv, RpcInv
<1> SUFFICES OthersSame(c) /\ CallInv(c)'
  BY <1>0, CallStepOf
<1>2. CASE Serve(c)
  <2>1. OthersSame(c)
    BY <1>1, <1>2
    DEF Serve, Begin, Move, OthersSame, SameCall, storeVars, RowsOf, TypeOK, RpcTypeOK
  <2>2. Serves(c) \in Own
    BY <1>1, <1>2, RpcAssumption, PushAssumption
    DEF Serve, Begin, Implemented, Known, Serves, Generated, RpcTypeOK
  <2>3. /\ at[c] = "sent" /\ at'[c] = "running" /\ ran'[c] = Serves(c)
        /\ hpc'[c] = First(Serves(c))
        /\ UNCHANGED <<tables, server, called, data, lost, heard>>
    BY <1>1, <1>2 DEF Serve, Begin, Move, storeVars, TypeOK, RpcTypeOK
  <2>4. \A t \in Table : RowsOf(t, c)' = {}
    BY <1>1, <2>3 DEF CallInv, RowsOfCall, RowsOf, Unbegun
  <2>5. Handling(c)'
    BY <1>1, <2>2, <2>3 DEF CallInv, Handling, First, Own
  <2>6. RowsOfCall(c)'
    BY <2>4 DEF RowsOfCall, Table
  <2>7. StoredBeforeAnswer(c)'
    BY <1>1, <2>2, <2>3
    DEF CallInv, StoredBeforeAnswer, Unbegun, Finished, First, Own, server
  <2> QED
    BY <2>1, <2>5, <2>6, <2>7 DEF CallInv
<1>3. CASE Drop(c)
  <2>1. /\ at[c] = "sent" /\ at' = [at EXCEPT ![c] = "dropped"]
        /\ UNCHANGED <<ran, called, storeVars, server, data, handling>>
    BY <1>3
    DEF Drop, NotServed, Lose, RefuseUnknown, RefuseMessage, Refuse, Move
  <2>2. OthersSame(c)
    BY <1>1, <2>1 DEF OthersSame, SameCall, handling, storeVars, RowsOf, RpcTypeOK
  <2>3. at'[c] = "dropped" /\ UNCHANGED <<hpc, lost, heard, tables>>
    BY <1>1, <2>1 DEF handling, storeVars, RpcTypeOK
  <2>4. CallInv(c)'
    BY <1>1, <2>1, <2>3
    DEF CallInv, Handling, RowsOfCall, StoredBeforeAnswer, Unbegun, Finished,
        HistoryStored, LogStored, RowsOf, Table
  <2> QED
    BY <2>2, <2>4
<1>4. CASE WriteHistory(c)
  <2>1. /\ hpc[c] = "history" /\ hpc' = [hpc EXCEPT ![c] = "note"]
        /\ UNCHANGED <<at, ran, called, server, data, heard>>
    BY <1>4 DEF WriteHistory, Step, rpcVars
  <2>2. /\ ran[c] = "PushLicenseData" /\ called[c] = "PushLicenseData"
        /\ data[c].reader_id \in Reader /\ hpc'[c] = "note"
        /\ at[c] = "running" /\ \A t \in Table : RowsOf(t, c) = {}
    BY <1>1, <2>1, HandlerHasData DEF CallInv, Handling, RowsOfCall, TypeOK
  <2>3. CASE LogReadHistory(data[c].reader_id, "success", c) /\ UNCHANGED lost
    <3>1. /\ \A d \in Call, u \in Table : d # c \/ u # "read_history" =>
               RowsOf(u, d)' = RowsOf(u, d)
          /\ \E new : /\ new.reader = data[c].reader_id
                      /\ RowsOf("read_history", c)' = {new}
      BY <1>1, <2>2, <2>3, InsertRows DEF LogReadHistory, Table, Tag
    <3>2. OthersSame(c)
      BY <1>1, <2>1, <2>3, <3>1 DEF OthersSame, SameCall, TypeOK
    <3>3. CallInv(c)'
      BY <1>1, <2>1, <2>2, <3>1
      DEF CallInv, Handling, RowsOfCall, StoredBeforeAnswer, Unbegun, Finished,
          HistoryStored, Table
    <3> QED
      BY <3>2, <3>3
  <2>4. CASE Fails(c)
    <3>1. /\ \A d \in Call, u \in Table : RowsOf(u, d)' = RowsOf(u, d)
          /\ c \in lost' /\ \A d \in Call : d # c => (d \in lost' <=> d \in lost)
      BY <2>4 DEF Fails, RowsOf
    <3>2. OthersSame(c)
      BY <1>1, <2>1, <3>1 DEF OthersSame, SameCall, TypeOK
    <3>3. CallInv(c)'
      BY <1>1, <2>1, <2>2, <3>1
      DEF CallInv, Handling, RowsOfCall, StoredBeforeAnswer, Unbegun, Finished, Table
    <3> QED
      BY <3>2, <3>3
  <2> QED
    BY <1>4, <2>3, <2>4 DEF WriteHistory
<1>5. CASE WriteNote(c)
  <2>1. /\ hpc[c] = "note" /\ hpc' = [hpc EXCEPT ![c] = "callback"]
        /\ UNCHANGED <<at, ran, called, server, data, heard, lost>>
    BY <1>5 DEF WriteNote, Step, rpcVars
  <2>2. /\ ran[c] = "PushLicenseData" /\ hpc'[c] = "callback"
        /\ at[c] = "running" /\ RowsOf("logs", c) = {}
    BY <1>1, <2>1 DEF CallInv, Handling, RowsOfCall, TypeOK
  <2>3. /\ \A d \in Call, u \in Table : d # c \/ u # "logs" => RowsOf(u, d)' = RowsOf(u, d)
        /\ \A r, s \in RowsOf("logs", c)' : r = s
    <3>1. CASE LogMessage("INFO", c)
      BY <1>1, <2>2, <3>1, InsertRows DEF LogMessage, LogMessageWithContext, Table, Tag
    <3>2. CASE UNCHANGED tables
      BY <2>2, <3>2 DEF RowsOf
    <3> QED
      BY <1>5, <3>1, <3>2 DEF WriteNote
  <2>4. OthersSame(c)
    BY <1>1, <2>1, <2>3 DEF OthersSame, SameCall, TypeOK
  <2>5. RowsOf("read_history", c)' = RowsOf("read_history", c)
    BY <2>3 DEF Table
  <2>6. Handling(c)'
    BY <1>1, <2>1, <2>2 DEF CallInv, Handling
  <2>7. RowsOfCall(c)'
    BY <1>1, <2>1, <2>2, <2>3, <2>5 DEF CallInv, RowsOfCall, Unbegun, Table
  <2>8. StoredBeforeAnswer(c)'
    BY <1>1, <2>1, <2>2, <2>5
    DEF CallInv, StoredBeforeAnswer, Unbegun, Finished, HistoryStored, server
  <2> QED
    BY <2>4, <2>6, <2>7, <2>8 DEF CallInv
<1>6. CASE RunCallback(c)
  <2>1. /\ hpc[c] = "callback" /\ hpc' = [hpc EXCEPT ![c] = "reply"]
        /\ UNCHANGED <<at, ran, called, server, data, lost, tables>>
        /\ heard' = IF hasCallback THEN [heard EXCEPT ![c] = @ + 1] ELSE heard
    BY <1>6 DEF RunCallback, Step, rpcVars
  <2>2. /\ ran[c] = "PushLicenseData" /\ hpc'[c] = "reply" /\ at[c] = "running"
        /\ heard[c] = 0 /\ (hasCallback => heard'[c] = 1)
    BY <1>1, <2>1 DEF CallInv, Handling, StoredBeforeAnswer, TypeOK
  <2>3. OthersSame(c)
    BY <1>1, <2>1 DEF OthersSame, SameCall, RowsOf, TypeOK
  <2>4. \A t \in Table : RowsOf(t, c)' = RowsOf(t, c)
    BY <2>1 DEF RowsOf
  <2>5. CallInv(c)'
    BY <1>1, <2>1, <2>2, <2>4
    DEF CallInv, Handling, RowsOfCall, StoredBeforeAnswer, Unbegun, Finished,
        HistoryStored, Table, server
  <2> QED
    BY <2>3, <2>5
<1>7. CASE WriteLog(c)
  <2>1. /\ hpc[c] = "log" /\ hpc' = [hpc EXCEPT ![c] = "reply"]
        /\ UNCHANGED <<at, ran, called, server, data, heard>>
    BY <1>7 DEF WriteLog, Step, rpcVars
  <2>2. /\ ran[c] = "PushReadLog" /\ data[c].reader_id \in Reader /\ hpc'[c] = "reply"
        /\ at[c] = "running" /\ RowsOf("logs", c) = {}
    BY <1>1, <2>1, HandlerHasData DEF CallInv, Handling, RowsOfCall, TypeOK
  <2>3. CASE /\ LogMessageWithContext(Level(data[c].status), c, data[c].reader_id)
             /\ UNCHANGED lost
    <3>1. /\ \A d \in Call, u \in Table : d # c \/ u # "logs" =>
               RowsOf(u, d)' = RowsOf(u, d)
          /\ \E new : /\ new.reader = data[c].reader_id
                      /\ new.tag = Level(data[c].status)
                      /\ RowsOf("logs", c)' = {new}
      <4>1. Level(data[c].status) \in Tag
        BY DEF Level, Tag
      <4> QED
        BY <1>1, <2>2, <2>3, <4>1, InsertRows DEF LogMessageWithContext, Table
    <3>2. OthersSame(c)
      BY <1>1, <2>1, <2>3, <3>1 DEF OthersSame, SameCall, TypeOK
    <3>3. RowsOf("read_history", c)' = RowsOf("read_history", c)
      BY <3>1 DEF Table
    <3>4. LogStored(c)'
      BY <2>1, <3>1 DEF LogStored, Level
    <3>5. CallInv(c)'
      BY <1>1, <2>1, <2>2, <3>1, <3>3, <3>4
      DEF CallInv, Handling, RowsOfCall, StoredBeforeAnswer, Unbegun, Finished, Table
    <3> QED
      BY <3>2, <3>5
  <2>4. CASE Fails(c)
    <3>1. /\ \A d \in Call, u \in Table : RowsOf(u, d)' = RowsOf(u, d)
          /\ c \in lost' /\ \A d \in Call : d # c => (d \in lost' <=> d \in lost)
      BY <2>4 DEF Fails, RowsOf
    <3>2. OthersSame(c)
      BY <1>1, <2>1, <3>1 DEF OthersSame, SameCall, TypeOK
    <3>3. CallInv(c)'
      BY <1>1, <2>1, <2>2, <3>1
      DEF CallInv, Handling, RowsOfCall, StoredBeforeAnswer, Unbegun, Finished, Table
    <3> QED
      BY <3>2, <3>3
  <2> QED
    BY <1>7, <2>3, <2>4 DEF WriteLog
<1>8. CASE Reply(c)
  <2>1. /\ hpc[c] = "reply" /\ hpc' = [hpc EXCEPT ![c] = "none"]
        /\ at[c] = "running" /\ at' = [at EXCEPT ![c] = "done"]
        /\ UNCHANGED <<ran, called, storeVars, server, data, lost, heard>>
    BY <1>8 DEF Reply, End, Move
  <2>2. OthersSame(c)
    BY <1>1, <2>1 DEF OthersSame, SameCall, storeVars, RowsOf, TypeOK, RpcTypeOK
  <2>3. hpc'[c] = "none" /\ at'[c] = "done" /\ UNCHANGED tables
    BY <1>1, <2>1 DEF storeVars, TypeOK, RpcTypeOK
  <2>4. CallInv(c)'
    BY <1>1, <2>1, <2>3
    DEF CallInv, Handling, RowsOfCall, StoredBeforeAnswer, Unbegun, Finished,
        HistoryStored, LogStored, RowsOf, Table, server
  <2> QED
    BY <2>2, <2>4
<1> QED
  BY <1>2, <1>3, <1>4, <1>5, <1>6, <1>7, <1>8 DEF Handler

(* A server that ends leaves its calls broken, and what it wrote written.   *)
LEMMA CrashKeeps == PushInv /\ Crash => \A d \in Call : CallInv(d)'
<1> SUFFICES ASSUME PushInv, Crash, NEW d \in Call PROVE CallInv(d)'
  OBVIOUS
<1>1. CallInv(d) /\ TypeOK
  BY DEF PushInv, CallInv
<1>2. /\ hpc'[d] = "none" /\ at'[d] = IF at[d] = "running" THEN "broken" ELSE at[d]
      /\ UNCHANGED <<ran, called, tables, server, data, lost, heard>>
  BY DEF Crash, BreakAll, storeVars
<1>3. CASE at[d] = "running"
  BY <1>1, <1>2, <1>3
  DEF CallInv, Handling, RowsOfCall, StoredBeforeAnswer, Unbegun, Finished, RowsOf, Table
<1>4. CASE at[d] # "running"
  <2>1. SameCall(d)
    BY <1>1, <1>2, <1>4 DEF SameCall, CallInv, Handling, RowsOf
  <2> QED
    BY <1>1, <2>1, CallInvOfOthers
<1> QED
  BY <1>3, <1>4

(* Every step keeps what is known of the calls.                             *)
LEMMA CallsStep == Generated /\ PushInv /\ [Next]_vars => \A d \in Call : CallInv(d)'
<1> SUFFICES ASSUME Generated, PushInv, [Next]_vars PROVE \A d \in Call : CallInv(d)'
  OBVIOUS
<1>1. CASE \/ Store(Queries) /\ UNCHANGED <<rpcVars, server, data, handling>>
           \/ UNCHANGED vars
  <2>1. UNCHANGED <<rpcVars, server, data, handling>>
    BY <1>1 DEF vars
  <2>2. UNCHANGED tables
    BY <1>1 DEF vars, storeVars, Store, Tick, CountLogs, CountReadHistory, Count,
       SelectLogs, SelectReadHistory, Select, GetRecentLogs, EndQuery
  <2>3. \A d \in Call : SameCall(d)
    BY <2>1, <2>2 DEF SameCall, rpcVars, handling, RowsOf
  <2> QED
    BY <2>3, CallInvOfOthers DEF PushInv, CallInv
<1> QED
  BY <1>1, ClientKeeps, HandlerKeeps, CrashKeeps DEF Next

-----------------------------------------------------------------------------
(* The query.                                                               *)

(* A row inserted since the count has an id the count did not reach.        *)
LEMMA InsertKeepsQuery ==
  ASSUME Generated, PushInv, [Next]_vars, ~UNCHANGED tables
  PROVE  QueryOfPast'
<1>0. TypeOK /\ StoreTypeOK /\ TablesInOrder /\ QueryOfPast
  BY DEF PushInv, TypeOK
<1>1. PICK t \in Table, reader \in Reader \cup {AnyText}, tag \in Tag, c \in Call :
        Insert(t, reader, tag, c) /\ UNCHANGED reading
  BY TablesGrow DEF Inserts
<1>2. PICK new \in Row :
        /\ new.id = Cardinality(tables[t]) + 1 /\ new.time = clock
        /\ new \notin tables[t]
        /\ tables' = [tables EXCEPT ![t] = @ \cup {new}]
        /\ IsFiniteSet(tables[t] \cup {new})
        /\ Cardinality(tables[t] \cup {new}) = Cardinality(tables[t]) + 1
  BY <1>0, <1>1, InsertAdds
<1>3. UNCHANGED <<qpc, query, total, upto, page, cut>>
  BY <1>1 DEF reading
<1>4. CASE qpc = "idle"
  BY <1>3, <1>4 DEF QueryOfPast, PageMatchesRequest, TotalCountsThePast
<1>5. CASE qpc # "idle"
  <2>1. query.table \in Table /\ upto \in Nat
    BY <1>0 DEF StoreTypeOK, Query
  <2>2. Cardinality(tables[query.table]) \in Nat /\ upto <= Cardinality(tables[query.table])
    BY <1>0, <1>5, <2>1, CountedIsFinite DEF QueryOfPast
  <2>3. /\ tables[query.table] \subseteq tables'[query.table]
        /\ \A r \in tables'[query.table] \ tables[query.table] : ~(r.id <= upto)
        /\ Cardinality(tables[query.table]) <= Cardinality(tables'[query.table])
    <3>1. CASE query.table = t
      <4>1. tables'[query.table] = tables[query.table] \cup {new}
        BY <1>0, <1>2, <3>1 DEF StoreTypeOK
      <4>2. ~(new.id <= upto)
        BY <1>2, <2>1, <2>2, <3>1
      <4>3. Cardinality(tables'[query.table]) = Cardinality(tables[query.table]) + 1
        BY <1>2, <3>1, <4>1
      <4> QED
        BY <2>2, <4>1, <4>2, <4>3
    <3>2. CASE query.table # t
      <4>1. tables'[query.table] = tables[query.table]
        BY <1>0, <1>2, <2>1, <3>2 DEF StoreTypeOK
      <4> QED
        BY <2>2, <4>1
    <3> QED
      BY <3>1, <3>2
  <2>4. Counted(query) \subseteq Counted(query)'
    BY <1>3, <2>3 DEF Counted, Where
  <2>5. \A r \in Counted(query)' : r.id <= upto => r \in Counted(query)
    BY <1>3, <2>3 DEF Counted, Where
  <2>6. {r \in Counted(query) : r.id <= upto}' = {r \in Counted(query) : r.id <= upto}
    BY <1>3, <2>4, <2>5
  <2>7. upto' <= Cardinality(tables'[query'.table])
    <3>1. Cardinality(tables'[query.table]) \in Nat
      <4>1. TablesInOrder'
        BY TablesStep
      <4>2. IsFiniteSet(tables'[query.table])
        BY <2>1, <4>1 DEF TablesInOrder, TableInOrder
      <4> QED
        BY <4>2, FS_CardinalityType
    <3> QED
      BY <1>3, <2>1, <2>2, <2>3, <3>1
  <2>8. PageMatchesRequest'
    <3>1. CASE qpc = "done"
      <4>1. /\ \A r \in page : /\ query.reader \in {AnyText, r.reader}
                               /\ query.tag \in {AnyText, r.tag}
            /\ query.limit > 0 => Cardinality(page) <= query.limit
            /\ \A r \in page, s \in Counted(query) \ page : s.id <= upto => s.time <= r.time
        BY <1>0, <3>1 DEF QueryOfPast, PageMatchesRequest, Counted
      <4>2. \A r \in page, s \in Counted(query)' \ page : s.id <= upto => s.time <= r.time
        BY <2>5, <4>1
      <4> QED
        BY <1>3, <4>1, <4>2 DEF PageMatchesRequest, Counted
    <3> QED
      BY <1>3, <3>1 DEF PageMatchesRequest
  <2> QED
    BY <1>0, <1>3, <2>4, <2>6, <2>7, <2>8 DEF QueryOfPast, TotalCountsThePast
<1> QED
  BY <1>4, <1>5

(* When the rows are counted, all there are have been inserted.             *)
LEMMA CountKeepsQuery ==
  ASSUME PushInv, NEW t \in Table, NEW q \in Queries, Count(t, q)
  PROVE  QueryOfPast'
<1>0. TypeOK /\ TablesInOrder
  BY DEF PushInv
<1>1. q.table \in Table
  BY PushAssumption DEF Query
<1>2. /\ qpc' = "counted" /\ query' = q /\ UNCHANGED tables
      /\ total' = Cardinality(Counted(q)) /\ upto' = Cardinality(tables[q.table])
  BY DEF Count, Total
<1>3. Cardinality(tables[q.table]) \in Nat /\ Counted(q) \subseteq tables[q.table]
  BY <1>0, <1>1, CountedIsFinite
<1>4. \A r \in Counted(q) : r.id <= Cardinality(tables[q.table])
  BY <1>0, <1>1, <1>3 DEF TablesInOrder, TableInOrder
<1>5. Counted(query)' = Counted(q)
  BY <1>2 DEF Counted
<1>6. {r \in Counted(query) : r.id <= upto}' = Counted(q)
  BY <1>2, <1>4, <1>5
<1>7. total' = Cardinality({r \in Counted(query) : r.id <= upto}')
  BY <1>2, <1>6
<1>8. upto' <= Cardinality(tables'[query'.table])
  BY <1>2, <1>3
<1> QED
  BY <1>2, <1>7, <1>8 DEF QueryOfPast, PageMatchesRequest, TotalCountsThePast

(* The rows selected later: of those that were counted no more, and not     *)
(* fewer than the limit asks for unless an error cut them short.            *)
LEMMA SelectKeepsQuery ==
  ASSUME PushInv, NEW t \in Table, Select(t)
  PROVE  QueryOfPast'
<1>0. TypeOK /\ StoreTypeOK /\ TablesInOrder /\ QueryOfPast
  BY DEF PushInv, TypeOK
<1>1. /\ qpc = "counted" /\ qpc' = "done" /\ UNCHANGED <<tables, query, total, upto>>
      /\ Scan(Counted(query), Limit(query, Counted(query)))
  BY DEF Select
<1>2. query \in Query /\ query.table \in Table /\ query.limit \in Nat /\ total \in Nat
  BY <1>0 DEF StoreTypeOK, Query
<1>3. /\ Counted(query) \in SUBSET tables[query.table]
      /\ IsFiniteSet(Counted(query)) /\ Cardinality(Counted(query)) \in Nat
  BY <1>0, <1>2, CountedIsFinite
<1>4. Counted(query)' = Counted(query)
  BY <1>1 DEF Counted
<1>5. /\ upto <= Cardinality(tables[query.table])
      /\ total = Cardinality({r \in Counted(query) : r.id <= upto})
  BY <1>0, <1>1 DEF QueryOfPast
<1>6. total <= Cardinality(Counted(query))
  BY <1>3, <1>5, FS_Subset
<1>7. \A r \in Counted(query) : /\ query.reader \in {AnyText, r.reader}
                                /\ query.tag \in {AnyText, r.tag}
  BY DEF Counted, Where
<1>8. /\ Limit(query, Counted(query)) \in Nat
      /\ query.limit > 0 => Limit(query, Counted(query)) = query.limit
      /\ ~(query.limit > 0) => Limit(query, Counted(query)) = Cardinality(Counted(query))
  BY <1>2, <1>3, LimitOf
<1>9. /\ page' \subseteq Counted(query) /\ Cardinality(page') \in Nat
      /\ Cardinality(page') <= Limit(query, Counted(query))
      /\ \A r \in page', s \in Counted(query) \ page' : s.time <= r.time
      /\ ~cut' => Cardinality(page') =
           IF Limit(query, Counted(query)) < Cardinality(Counted(query))
           THEN Limit(query, Counted(query)) ELSE Cardinality(Counted(query))
  BY <1>1, <1>3, <1>8, ScanOf
<1>10. PageMatchesRequest'
  BY <1>1, <1>4, <1>7, <1>8, <1>9 DEF PageMatchesRequest
<1>11. Cardinality({r \in page' : r.id <= upto}) <= total
  <2>1. IsFiniteSet({r \in Counted(query) : r.id <= upto})
    BY <1>3, FS_Subset
  <2>2. {r \in page' : r.id <= upto} \subseteq {r \in Counted(query) : r.id <= upto}
    BY <1>9
  <2> QED
    BY <1>5, <2>1, <2>2, FS_Subset
<1>12. ~cut' => LET limit == IF query.limit > 0 THEN query.limit ELSE 100
                IN  Cardinality(page') >= IF total < limit THEN total ELSE limit
  BY <1>2, <1>3, <1>6, <1>8, <1>9
<1>13. TotalCountsThePast'
  BY <1>1, <1>11, <1>12 DEF TotalCountsThePast
<1> QED
  BY <1>1, <1>4, <1>5, <1>9, <1>10, <1>13 DEF QueryOfPast

(* The recent rows are those of a query that counted none.                  *)
LEMMA RecentKeepsQuery ==
  ASSUME PushInv, NEW n \in Nat, n > 0, GetRecentLogs(n)
  PROVE  QueryOfPast'
<1>0. TypeOK /\ StoreTypeOK /\ TablesInOrder
  BY DEF PushInv, TypeOK
<1>1. /\ qpc' = "done" /\ query' = [NoQuery EXCEPT !.limit = n]
      /\ total' = 0 /\ upto' = 0 /\ UNCHANGED tables
      /\ Scan(tables["logs"], n)
  BY DEF GetRecentLogs
<1>2. /\ query'.table = "logs" /\ query'.reader = AnyText /\ query'.tag = AnyText
      /\ query'.end = 0 /\ query'.limit = n
  BY <1>1 DEF NoQuery
<1>3. IsFiniteSet(tables["logs"]) /\ Cardinality(tables["logs"]) \in Nat
  BY <1>0, FS_CardinalityType DEF TablesInOrder, TableInOrder, Table
<1>4. /\ page' \subseteq tables["logs"]
      /\ Cardinality(page') \in Nat /\ Cardinality(page') <= n
  BY <1>1, <1>3, ScanOf
<1>5. Counted(query)' = tables["logs"]
  BY <1>1, <1>2 DEF Counted, Where
<1>6. \A r \in tables["logs"] : ~(r.id <= 0)
  BY <1>0 DEF StoreTypeOK, Table, Row
<1>7. PageMatchesRequest'
  BY <1>1, <1>2, <1>4, <1>5, <1>6 DEF PageMatchesRequest
<1>8. TotalCountsThePast'
  <2>1. {r \in page' : r.id <= upto'} = {}
    BY <1>1, <1>4, <1>6
  <2>2. Cardinality({r \in page' : r.id <= upto'}) = 0
    BY <2>1, FS_EmptySet
  <2> QED
    BY <1>1, <1>2, <1>4, <2>2 DEF TotalCountsThePast
<1> QED
  BY <1>1, <1>2, <1>3, <1>4, <1>5, <1>7, <1>8 DEF QueryOfPast

(* Every step keeps what is known of the query.                             *)
LEMMA QueryStep == Generated /\ PushInv /\ [Next]_vars => QueryOfPast'
<1> SUFFICES ASSUME Generated, PushInv, [Next]_vars PROVE QueryOfPast'
  OBVIOUS
<1>1. CASE ~UNCHANGED tables
  BY <1>1, InsertKeepsQuery
<1>2. CASE UNCHANGED tables /\ UNCHANGED reading
  BY <1>2 DEF PushInv, QueryOfPast, PageMatchesRequest, TotalCountsThePast, Counted, reading
<1>3. CASE Store(Queries)
  <2>1. CASE Tick
    BY <1>2, <2>1 DEF Tick
  <2>2. ASSUME NEW q \in Queries, CountLogs(q) \/ CountReadHistory(q) PROVE QueryOfPast'
    BY <2>2, CountKeepsQuery DEF CountLogs, CountReadHistory, Table
  <2>3. CASE SelectLogs \/ SelectReadHistory
    BY <2>3, SelectKeepsQuery DEF SelectLogs, SelectReadHistory, Table
  <2>4. ASSUME NEW q \in Queries, q.limit > 0, GetRecentLogs(q.limit) PROVE QueryOfPast'
    <3>1. q.limit \in Nat
      BY <2>4, PushAssumption DEF Query
    <3> QED
      BY <2>4, <3>1, RecentKeepsQuery
  <2>5. CASE EndQuery
    BY <2>5 DEF EndQuery, QueryOfPast, PageMatchesRequest, TotalCountsThePast
  <2> QED
    BY <1>3, <2>1, <2>2, <2>3, <2>4, <2>5 DEF Store
<1>4. ASSUME NEW c \in Call, \/ PushLicenseData(c) \/ PushReadLog(c) \/ Ask(c)
                             \/ Answered(c) \/ Handler(c)
      PROVE  UNCHANGED reading
  BY <1>4 DEF PushLicenseData, PushReadLog, Ask, Say, Answered, Handler, Serve, Drop,
     WriteHistory, WriteNote, RunCallback, WriteLog, Step, Reply, storeVars, reading
<1>5. CASE Crash \/ UNCHANGED vars
  BY <1>1, <1>2, <1>5 DEF Crash, vars, storeVars, reading
<1> QED
  BY <1>1, <1>2, <1>3, <1>4, <1>5 DEF Next

-----------------------------------------------------------------------------
(* The invariant holds before any call is made.                             *)
LEMMA PushInit == Init => PushInv
<1> SUFFICES ASSUME Init PROVE PushInv
  OBVIOUS
<1>1. RpcInv
  BY RpcInvInit DEF Init
<1>2. StoreTypeOK
  <2>1. NoQuery \in Query
    BY DEF NoQuery, Query, Table
  <2>2. tables \in [Table -> SUBSET Row]
    BY DEF Init, StoreInit
  <2>3. query \in Query /\ page \subseteq Row
    BY <2>1 DEF Init, StoreInit
  <2>4. clock \in 0 .. MaxTime /\ total \in Nat /\ upto \in Nat
    BY StoreAssumption DEF Init, StoreInit
  <2>5. qpc \in {"idle", "counted", "done"} /\ cut \in BOOLEAN
    BY DEF Init, StoreInit
  <2> QED
    BY <2>2, <2>3, <2>4, <2>5 DEF StoreTypeOK
<1>3. TypeOK
  BY <1>1, <1>2 DEF Init, TypeOK, RpcInv, HandlerPC
<1>4. TablesInOrder
  BY FS_EmptySet DEF Init, StoreInit, TablesInOrder, TableInOrder
<1>5. ASSUME NEW c \in Call PROVE CallInv(c)
  <2>1. /\ at[c] = "none" /\ hpc[c] = "none" /\ called[c] = NoMethod /\ heard[c] = 0
        /\ \A t \in Table : RowsOf(t, c) = {}
    BY <1>5 DEF Init, RpcInit, StoreInit, RowsOf
  <2>2. called[c] \notin LicenseMethod
    BY <2>1, PushAssumption
  <2> QED
    BY <2>1, <2>2
    DEF CallInv, Handling, RowsOfCall, StoredBeforeAnswer, Unbegun, Finished,
        LicenseMethod, Table
<1>6. QueryOfPast
  BY DEF Init, StoreInit, QueryOfPast, PageMatchesRequest, TotalCountsThePast
<1> QED
  BY <1>1, <1>3, <1>4, <1>5, <1>6 DEF PushInv, CallInv

(* Every step keeps it.                                                     *)
LEMMA PushStep == Generated /\ PushInv /\ [Next]_vars => PushInv'
<1> SUFFICES ASSUME Generated, PushInv, [Next]_vars PROVE PushInv'
  OBVIOUS
<1>1. RpcInv'
  BY PushStepIsRpcStep, RpcStep DEF PushInv
<1> QED
  BY <1>1, TypeStep, TablesStep, CallsStep, QueryStep DEF PushInv, CallInv

(* The invariant holds in every reachable state, if the tables agree.       *)
THEOREM PushInvariant == ASSUME Generated PROVE Spec => []PushInv
<1>1. PushInv /\ [Next]_vars => PushInv'
  BY PushStep
<1> QED
  BY <1>1, PushInit, PTL DEF Spec

(* Every variable keeps its type: what is written is of the message of the  *)
(* method that writes it.                                                   *)
THEOREM PushTypes == ASSUME Generated PROVE Spec => []TypeOK
  BY PushInvariant, PTL DEF PushInv

(* Each call runs the method it is of, or none.                             *)
THEOREM PushServesAsCalled == ASSUME Generated PROVE Spec => []ServedAsCalled
<1>1. PushInv => ServedAsCalled
  BY StubsServe DEF PushInv, Generated
<1> QED
  BY <1>1, PushInvariant, PTL

(* A push answered with success is stored, unless its insert failed, and    *)
(* was given to the callback once.                                          *)
THEOREM PushesAreStored == ASSUME Generated PROVE Spec => []AnsweredIsStored
<1>1. PushInv => AnsweredIsStored
  <2> SUFFICES ASSUME PushInv, NEW c \in Call, answer[c] = "ok"
               PROVE  \/ /\ called[c] = "PushLicenseData"
                         /\ hasLogger /\ c \notin lost => HistoryStored(c)
                         /\ hasCallback => heard[c] = 1
                      \/ /\ called[c] = "PushReadLog"
                         /\ hasLogger /\ c \notin lost => LogStored(c)
    BY DEF AnsweredIsStored, HistoryStored, LogStored
  <2>1. at[c] = "done"
    BY DEF PushInv, RpcInv, Progress
  <2>2. ran[c] = called[c] /\ ran[c] \in Own
    BY <2>1, RanIsOwn DEF Served
  <2> QED
    BY <2>1, <2>2 DEF PushInv, StoredBeforeAnswer, Finished, Own
<1> QED
  BY <1>1, PushInvariant, PTL

(* A call leaves one row at most in a table, of its own data, and ids grow  *)
(* with time.                                                               *)
THEOREM RowsOfCallsOnly == ASSUME Generated PROVE Spec => []RowsAreTheCalls
<1>1. PushInv => RowsAreTheCalls
  <2> SUFFICES ASSUME PushInv PROVE RowsAreTheCalls
    OBVIOUS
  <2>1. ASSUME NEW c \in Call, NEW t \in Table PROVE Cardinality(RowsOf(t, c)) <= 1
    <3>1. \A r, s \in RowsOf(t, c) : r = s
      BY <2>1 DEF PushInv, RowsOfCall
    <3>2. RowsOf(t, c) = {} \/ \E r : RowsOf(t, c) = {r}
      BY <3>1
    <3> QED
      <4>1. CASE RowsOf(t, c) = {}
        BY <4>1, FS_EmptySet
      <4>2. ASSUME NEW r, RowsOf(t, c) = {r} PROVE Cardinality(RowsOf(t, c)) <= 1
        <5>1. Cardinality({r}) = 1
          BY FS_Singleton
        <5> QED
          BY <4>2, <5>1
      <4> QED
        BY <3>2, <4>1, <4>2
  <2>2. ASSUME NEW r \in tables["read_history"]
        PROVE  called[r.message] = "PushLicenseData" /\ r.reader = data[r.message].reader_id
    <3>1. r.message \in Call
      BY <2>2, PushAssumption DEF PushInv, TypeOK, StoreTypeOK, Row, Table
    <3>2. r \in RowsOf("read_history", r.message)
      BY <2>2 DEF RowsOf
    <3> QED
      BY <3>1, <3>2 DEF PushInv, RowsOfCall
  <2>3. \A t \in Table : \A r, s \in tables[t] :
          (r.id = s.id => r = s) /\ (r.id < s.id => r.time <= s.time)
    BY DEF PushInv, TablesInOrder, TableInOrder
  <2> QED
    BY <2>1, <2>2, <2>3 DEF RowsAreTheCalls, Table
<1> QED
  BY <1>1, PushInvariant, PTL

(* The rows of an answer are of the reader and the level or status asked    *)
(* for, within the limit, and no row that was counted and left out is       *)
(* newer: also of the answers that an unreported error cut short.           *)
THEOREM PagesMatchRequests == ASSUME Generated PROVE Spec => []PageMatchesRequest
<1>1. PushInv => PageMatchesRequest
  BY DEF PushInv, QueryOfPast
<1> QED
  BY <1>1, PushInvariant, PTL

(* Of the rows there were when they were counted no more are answered, and  *)
(* the answer is as long as total and limit promise unless an error, which  *)
(* the caller is not told of, ended the stepping.                           *)
THEOREM TotalsCountThePast == ASSUME Generated PROVE Spec => []TotalCountsThePast
<1>1. PushInv => TotalCountsThePast
  BY DEF PushInv, QueryOfPast
<1> QED
  BY <1>1, PushInvariant, PTL

-----------------------------------------------------------------------------
(* Calls and handlers together.                                             *)

(* Whatever the tables of the stubs are: to its caller a push is an         *)
(* abstract call, the handlers' inserts and the end of the server included. *)
THEOREM PushImplementsCall == Spec => AbsCall!Spec
<1>1. Init => RpcInv /\ AbsCall!Init
  BY RpcInvInit, CallInit DEF Init
<1>2. RpcInv /\ [Next]_vars => RpcInv' /\ [AbsCall!Next]_(AbsCall!vars)
  BY PushStepIsRpcStep, RpcStep, CallStep
<1> QED
  BY <1>1, <1>2, PTL DEF Spec, AbsCall!Spec

(* No row is changed or deleted, by a query or by the end of the server;    *)
(* and a row is added only while its call runs: none of a call that was     *)
(* lost, refused, broken off or answered, though its caller may have given  *)
(* up.                                                                      *)
RowsAreOfRunningCalls ==
  [][\A t \in Table :
       /\ tables[t] \subseteq tables'[t]
       /\ \A r \in tables'[t] \ tables[t] : at[r.message] = "running"]_vars

THEOREM RowsComeWithTheirCalls == ASSUME Generated PROVE Spec => RowsAreOfRunningCalls
<1>1. ASSUME PushInv, [Next]_vars, NEW t \in Table
      PROVE  /\ tables[t] \subseteq tables'[t]
             /\ \A r \in tables'[t] \ tables[t] : at[r.message] = "running"
  <2>1. CASE UNCHANGED tables
    BY <2>1
  <2>2. CASE ~UNCHANGED tables
    <3>1. PICK u \in Table, reader \in Reader \cup {AnyText}, tag \in Tag, c \in Call :
            Inserts(u, reader, tag, c)
      BY <1>1, <2>2, TablesGrow
    <3>2. hpc[c] # "none"
      BY <3>1 DEF Inserts
    <3>3. at[c] = "running"
      BY <1>1, <3>2 DEF PushInv, Handling
    <3>4. TypeOK /\ TablesInOrder /\ Insert(u, reader, tag, c)
      BY <1>1, <3>1 DEF Inserts, PushInv
    <3>5. tables'[t] =
            IF t = u
            THEN tables[t] \cup {[id |-> Cardinality(tables[t]) + 1, time |-> clock,
                                  reader |-> reader, tag |-> tag, message |-> c]}
            ELSE tables[t]
      BY <1>1, <3>4 DEF Insert, TypeOK, StoreTypeOK
    <3> QED
      BY <3>3, <3>5
  <2> QED
    BY <2>1, <2>2
<1>2. PushInv /\ [Next]_vars =>
        [\A t \in Table :
           /\ tables[t] \subseteq tables'[t]
           /\ \A r \in tables'[t] \ tables[t] : at[r.message] = "running"]_vars
  BY <1>1
<1> QED
  BY <1>2, PushInvariant, PTL DEF Spec, RowsAreOfRunningCalls

-----------------------------------------------------------------------------
(* The stubs generated for license.LicenseReader agree, Connect's with      *)
(* gRPC's and each with its own, and leave the server its two methods.      *)
THEOREM LicenseStubsAgree ==
  ASSUME Stack = Stacks, ClientStub = LicenseClientStub,
         ServerStub = LicenseServerStub, Unimplemented = LicenseUnimplemented(Own)
  PROVE  Generated
<1>1. ASSUME NEW cs \in Stacks, NEW ss \in Stacks, NEW m \in LicenseMethod
      PROVE  LET s == LicenseClientStub[cs][m] IN
               /\ LicenseServerStub[ss][s.path].method = m
               /\ LicenseServerStub[ss][s.path].takes = s.sends
  <2> DEFINE path == <<"license.LicenseReader", m>>
  <2>1. LicenseClientStub[cs][m].path = path /\ LicenseClientStub[cs][m].sends = Input(m)
    BY DEF LicenseClientStub, Stacks, ConnectClient, ConnectField, ConnectProcedure,
       GrpcClient, FullMethodName
  <2>2. CASE ss = "connect"
    <3>1. path \in {ConnectProcedure[n] : n \in LicenseMethod}
      BY DEF ConnectProcedure
    <3>2. (CHOOSE n \in LicenseMethod : ConnectProcedure[n] = path) = m
      BY DEF ConnectProcedure
    <3>3. ConnectSwitch[path] = ConnectUnary[m]
      BY <3>1, <3>2 DEF ConnectSwitch
    <3> QED
      BY <2>1, <2>2, <3>3 DEF LicenseServerStub, ConnectUnary
  <2>3. CASE ss = "grpc"
    <3>1. path \in {"license.LicenseReader"} \X LicenseMethod /\ path[2] = m
      OBVIOUS
    <3>2. ServiceDesc[path] = GrpcUnary[m]
      BY <3>1 DEF ServiceDesc
    <3> QED
      BY <2>1, <2>3, <3>2 DEF LicenseServerStub, Stacks, GrpcUnary
  <2> QED
    BY <2>2, <2>3 DEF Stacks
<1>2. StubsAgree
  BY <1>1, PushAssumption DEF StubsAgree
<1>3. \A s \in Stack : Unimplemented[s] = LicenseMethod \ Own
  BY DEF LicenseUnimplemented, GrpcUnimplemented, ConnectUnimplemented, Stacks
<1> QED
  BY <1>2, <1>3 DEF Generated
=============================================================================

------------------------------ MODULE LogStore ------------------------------
(***************************************************************************)
(* The two tables of database.Logger and its queries.  Inserts come from   *)
(* several goroutines and processes; a filtered query is two statements,   *)
(* a COUNT and a SELECT, and rows are inserted between them.               *)
(***************************************************************************)
EXTENDS Naturals, FiniteSets

CONSTANTS
  Message,   \* what tells one insert from another
  Reader,    \* reader ids
  AnyText,   \* the empty text: no reader, or no filter
  MaxTime    \* bound: seconds that pass

ASSUME StoreAssumption == MaxTime \in Nat /\ AnyText \notin Reader

VARIABLES
  tables,    \* logs and read_history
  clock,
  qpc,       \* where the query is
  query,     \* its arguments
  total,     \* the rows its COUNT found
  upto,      \* the rows there were in all at that time
  page,      \* the rows its SELECT found
  cut        \* an error ended the stepping through them

storeVars == <<tables, clock, qpc, query, total, upto, page, cut>>
reading == <<qpc, query, total, upto, page, cut>>

Table == {"logs", "read_history"}

(* The column filtered on beside reader_id: level, or status.               *)
Tag == {"INFO", "ERROR", "success"}

Row == [id : Nat \ {0}, time : 0 .. MaxTime, reader : Reader \cup {AnyText},
        tag : Tag, message : Message]

Query == [table : Table, reader : Reader \cup {AnyText}, tag : Tag \cup {AnyText},
          start : Nat, end : Nat, limit : Nat]

NoQuery == [table |-> "logs", reader |-> AnyText, tag |-> AnyText,
            start |-> 0, end |-> 0, limit |-> 0]

StoreTypeOK ==
  /\ tables \in [Table -> SUBSET Row]
  /\ clock \in 0 .. MaxTime
  /\ qpc \in {"idle", "counted", "done"}
  /\ query \in Query
  /\ total \in Nat /\ upto \in Nat
  /\ page \subseteq Row
  /\ cut \in BOOLEAN

StoreInit ==
  /\ tables = [t \in Table |-> {}]
  /\ clock = 0
  /\ qpc = "idle" /\ query = NoQuery
  /\ total = 0 /\ upto = 0 /\ page = {} /\ cut = FALSE

Tick ==
  /\ clock < MaxTime
  /\ clock' = clock + 1
  /\ UNCHANGED <<tables, reading>>

-----------------------------------------------------------------------------
(* The id is AUTOINCREMENT, the time CURRENT_TIMESTAMP: what a record says  *)
(* of its time is not inserted.                                             *)
Insert(t, reader, tag, message) ==
  tables' =
    [tables EXCEPT ![t] = @ \cup
       {[id |-> Cardinality(@) + 1, time |-> clock,
         reader |-> reader, tag |-> tag, message |-> message]}]

LogReadHistory(reader, tag, message) == Insert("read_history", reader, tag, message)
LogMessageWithContext(level, message, reader) == Insert("logs", reader, level, message)
LogMessage(level, message) == LogMessageWithContext(level, message, AnyText)

-----------------------------------------------------------------------------
(* GetLogs and GetReadHistory.  strftime gives a text, the bound is an      *)
(* integer, and to SQLite every text is greater than every integer: a start *)
(* lets every row through, an end none.                                     *)
Where(q, rs) ==
  {r \in rs : /\ q.reader \in {AnyText, r.reader}
              /\ q.tag \in {AnyText, r.tag}
              /\ q.end = 0}

(* The rows that COUNT and SELECT find, each when it runs.                  *)
Counted(q) == Where(q, tables[q.table])

TotalAnyTag(q) == Cardinality(Counted([q EXCEPT !.tag = AnyText]))
Total(q) == Cardinality(Counted(q))

Count(t, q) ==
  /\ qpc = "idle" /\ q.table = t
  /\ qpc' = "counted"
  /\ query' = q
  /\ total' = Total(q)
  /\ upto' = Cardinality(tables[q.table])
  /\ UNCHANGED <<tables, clock, page, cut>>

(* The rows ORDER BY timestamp DESC LIMIT gives; among those of one second  *)
(* any.                                                                     *)
Unordered(rs, limit) ==
  {P \in SUBSET rs :
     Cardinality(P) = IF limit < Cardinality(rs) THEN limit ELSE Cardinality(rs)}
Newest(rs, limit) ==
  {P \in SUBSET rs :
     /\ Cardinality(P) = IF limit < Cardinality(rs) THEN limit ELSE Cardinality(rs)
     /\ \A r \in P, s \in rs \ P : s.time <= r.time}

(* rows.Next ends at an error as at the last row, and rows.Err is not asked: *)
(* the caller has the rows so far, and no error.                            *)
Scan(rs, limit) ==
  \/ page' \in Newest(rs, limit) /\ cut' = FALSE
  \/ cut' = TRUE /\ \E n \in 0 .. limit : page' \in Newest(rs, n)

(* Without a limit there is none, not even the 100 that is passed.          *)
Limit(q, rs) == IF q.limit > 0 THEN q.limit ELSE Cardinality(rs)

Select(t) ==
  /\ qpc = "counted" /\ query.table = t
  /\ qpc' = "done"
  /\ Scan(Counted(query), Limit(query, Counted(query)))
  /\ UNCHANGED <<tables, clock, query, total, upto>>

CountLogs(q) == Count("logs", q)
SelectLogs == Select("logs")
CountReadHistory(q) == Count("read_history", q)
SelectReadHistory == Select("read_history")

(* GetRecentLogs is the SELECT alone.                                       *)
GetRecentLogs(limit) ==
  /\ qpc = "idle"
  /\ qpc' = "done"
  /\ query' = [NoQuery EXCEPT !.limit = limit]
  /\ total' = 0 /\ upto' = 0
  /\ Scan(tables["logs"], limit)
  /\ UNCHANGED <<tables, clock>>

(* The caller has its answer, or the error of either statement.             *)
EndQuery ==
  /\ qpc # "idle"
  /\ qpc' = "idle" /\ query' = NoQuery
  /\ total' = 0 /\ upto' = 0 /\ page' = {} /\ cut' = FALSE
  /\ UNCHANGED <<tables, clock>>

Store(Q) ==
  \/ Tick
  \/ \E q \in Q : CountLogs(q) \/ CountReadHistory(q)
  \/ SelectLogs \/ SelectReadHistory
  \/ \E q \in Q : q.limit > 0 /\ GetRecentLogs(q.limit)
  \/ EndQuery

-----------------------------------------------------------------------------
(* The rows of an answer are what was asked for, as far as reader, level or *)
(* status and limit go, and no row that was counted and left out is newer:  *)
(* not even when an error cut the answer short.                             *)
PageMatchesRequest ==
  qpc = "done" =>
    /\ \A r \in page : /\ query.reader \in {AnyText, r.reader}
                       /\ query.tag \in {AnyText, r.tag}
    /\ query.limit > 0 => Cardinality(page) <= query.limit
    /\ \A r \in page, s \in Counted(query) \ page :
         s.id <= upto => s.time <= r.time

(* Count and rows are of two moments: of the rows there were at the first   *)
(* no more are answered than were counted, what came in between is beside   *)
(* them; and the answer is not shorter than count and limit make it, or the *)
(* 100 rows promised without one, unless an error cut it short.             *)
TotalCountsThePast ==
  qpc = "done" =>
    /\ Cardinality({r \in page : r.id <= upto}) <= total
    /\ ~cut => LET limit == IF query.limit > 0 THEN query.limit ELSE 100
               IN  Cardinality(page) >= IF total < limit THEN total ELSE limit

(* What is counted are the rows of the times asked for, of those there      *)
(* were: start_time and end_time bound a query (license.proto:58).          *)
TimesBoundTheQuery ==
  qpc = "counted" =>
    total = Cardinality({r \in tables[query.table] :
                           /\ r.id <= upto
                           /\ query.reader \in {AnyText, r.reader}
                           /\ query.tag \in {AnyText, r.tag}
                           /\ query.start <= r.time
                           /\ query.end # 0 => r.time <= query.end})
=============================================================================

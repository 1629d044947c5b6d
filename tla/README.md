# menkyo_go in TLA+

menkyo_go reads Japanese driving licences, car inspection certificates and other
cards on Windows smart card readers, writes what it read to SQLite and sends a
time card to a backend. This directory models the parts of it where order,
failure and concurrency matter, checks the models with TLC and proves their main
safety properties with TLAPS. File and line numbers are those of the repository.

## Inventory

| component | code | state | operations | hard behaviour | correct when |
|---|---|---|---|---|---|
| card session | `internal/nfc/license_reader.go` 105-222, `winscard.go` 157-293 | SCARDHANDLE, the session CMD_START opens, the LicenseData being filled in | ReadCard and its ten exchanges | each exchange may fail; the card may leave or be replaced between any two | nothing stays open; data is of one card; an undisturbed call is complete |
| card monitor | `license_reader.go` 225-359, `winscard.go` 318-362 | ReaderState of each reader, cardProcessed, lastCardID | one loop: wait, scan, up to three attempts, callback | snapshots go stale; all readers share the flags; waits fail; readers are unplugged | each card is reported, once, with its own data; a removal re-arms |
| reader start | `cmd/reader/main.go` 43-138, 285-325, 390-392 | the mutex `Global\MenkyoReaderMutex`, its handle | CreateMutexW, taskkill, ten attempts, initialisation | several readers start at once; taskkill races the attempts; NULL handles | one reader past the mutex |
| supervisor | `cmd/server/main.go` | restartCount, stopChan, the child process | start, wait, delay, stop | Ctrl+C reaches supervisor and reader separately; crashes leave orphans | a reader works; a stop leaves none |
| backend link | `cmd/reader/main.go` 140-283, `internal/woffcl` | woffSvClient, lastConnectedURL, stopChan, a WebSocket | GetBackendURL, setWoffSvClient, watchBackend, connectAndWatch | backends come and go; announcements are lost; reads have no deadline | the client is of a live backend when there is one |
| card callback | `cmd/reader/main.go` 106-143, 193-198, 285-388 | none of its own but woffSvClient; it ends with the process | settings, database, readers listed twice, history row, time card | two writes, either may fail; a timeout may hide a success; the process is ended anywhere and started again with the card still there; the client is replaced meanwhile | row and time card belong to the read they came from; one tap is doubled only by a restart or a swap |
| woff-sv client | `internal/woffsv/auth_client.go`, `proto/auth` | a connection | Heartbeat, CreateTimeCard | 5 s and 10 s timeouts, which the server does not share | a call without error has run, once; any call runs at most once |
| log database | `internal/database/logger.go` | tables logs and read_history | inserts, filtered queries with a count | count and query are two statements; inserts of other goroutines between them; queries without a limit | count and rows agree on the rows there were |
| license push | `internal/license`, `proto/license` | tables, one handler per request | PushLicenseData, PushReadLog, their client | success is answered although an insert failed; crashes | what is answered is stored, as far as the insert succeeded; rows are of one call each |
| generated stubs | `proto/auth/v1`, `proto/license` | - | the path and message of each method, on either side, by two generators | paths that are alike | a call runs the method it is of |
| configuration | `internal/config` | the environment | flag, environment, .env, default | .env is edited between two starts | a supervisor's readers have one id |
| log viewer, printobserver.py, scripts | `cmd/viewlogs`, ... | - | - | - | - |

How they interact. A supervisor starts the reader process, and starts it again
when it ends. A reader first makes itself the only one (mutex, taskkill), then
opens its database, asks woff-cl for the URL of the backend and connects to it,
starts the goroutine that watches for other URLs, and finally calls
`MonitorCards`, which never returns in normal work. `MonitorCards` calls
`ReadCard` for each new card and hands the outcome to the callback, which writes
a history row and sends a time card with the client that the watcher goroutine
may be replacing. The server that receives the card runs whether or not the reader
still waits, or still exists: after a restart the new process knows neither the card
that lies on the reader nor the calls of the old one. The README of the repository describes an earlier design, in
which `cmd/server` is a gRPC server; at this commit it is the supervisor, and
nothing starts the server of `internal/license`.

## Modules

| module | models | proofs |
|---|---|---|
| `Cards` | card types, CardIDs, and every result a ReadCard call can return; no state | `CardsProofs` |
| `ReadCardSpec` | what a caller of ReadCard may rely on: a call looks at one card | |
| `CardRead` | ReadCard exchange by exchange; implements `ReadCardSpec` | `CardReadProofs` |
| `CardMonitor` | the loop of MonitorCards over any number of readers, with ReadCard as one step whose outcomes are those of `ReadCardSpec` | `CardMonitorProofs` |
| `Taps` | what MonitorCards promises its callback about the cards of one reader; implemented by `CardMonitor`, built upon by `ReaderApp` | in `CardMonitorProofs` |
| `Takeover` | reader processes, the mutex, taskkill, supervisors | `TakeoverProofs` |
| `BackendLink` | setWoffSvClient, GetBackendURL and BackendWatcher | `BackendLinkProofs` |
| `CallSpec` | what the caller of a remote call with a deadline may rely on | |
| `Rpc` | unary calls through generated stubs, from client to server and back; implements `CallSpec` | `RpcProofs` |
| `AuthService`, `LicenseService` | the tables of the stubs generated for the two services, and their messages; no state | in the two below |
| `Config` | where the reader id comes from; no state | |
| `ReaderNames` | how ListReaders cuts its buffer into names; no state | |
| `ReaderApp` | the reader process from its start to the callback's return, with its ends and restarts, the history and the backends; on `Taps`, `Rpc`, `Config`, `AuthService`, `ReaderNames` | `ReaderAppProofs` |
| `LogStore` | the tables of the log database, inserts and queries | in `LicensePushProofs` |
| `LicensePush` | clients and server of license.LicenseReader; on `Rpc`, `LicenseService`, `LogStore` | `LicensePushProofs` |
| `MCCards`, `MCCardRead`, `MCMonitor`, `MCTakeover`, `MCBackendLink`, `MCReaderApp`, `MCLicensePush` | the instances TLC checks | |

**Cards and CardRead.** `pc` names the next exchange; the actions follow the order
of `Transmit` calls in the code, with the early returns (`Fail`) and the errors that
are only logged. A reply is "ok" (status 9000), "refused" (any other status) or
"failed" (an error of Transmit); a card that has left the reader since the handle
was opened can only fail. Hex strings are model values. The counter of remaining
reads is left out: nothing depends on it. Of the answer to CHECK_SHAKEN the code looks at the six
bytes, not at the status (license_reader.go:170); `SixBytes` says when they can be there.
SCardDisconnect is taken to succeed: its result is ignored (winscard.go:251).

**CardMonitor.** `ev[r]` and `cur[r]` are EventState and CurrentState of a reader,
as the visit (one stay of one card) they were taken of. The code tells visits apart
only by ATR and CardID, so `processed` holds ATRs; the visit numbers let the
properties speak of *this* card. A wait may return at any time, since it has a
timeout of a second, and the snapshot it leaves is that of the moment (a wait that
times out fills EventState in as well), so nothing depends on `cur`, of which only
`WaitsForNews` speaks. One call of `ReadCard` is one step here: the card is the one
on the reader at that moment, and `CardRead` shows that a call which takes many steps
looks at one card only, the one it connected to. The flag is the snapshot's ATR and the data is
of the card on the reader by then (license_reader.go:307, 334), so after a swap a card is
recorded under the other's flag and once more under its own; `RecordedAtMostTwice` says it gets
no worse. `told` and `recorded` are
observations, not state of the program; they stop counting at `CountCap`.

**Taps.** A stay of a card is seen (`Look`) unless it has been told before in the life of the
process, and is then told once (`Tell`): with an error, or with data of the card that is on the
reader by then, which may be a later one. `CardMonitor` with one reader implements this
(`TellsOfTaps`): the wait that returns with a card whose ATR is not flagged is `Look`, the end of
the last attempt is `Tell`, everything else of the loop is invisible. With two readers it does not,
as `MonitorRetold` shows. `Forget` is the start of another life.

**Takeover.** Each reader process is at one of the places of its `main`, and ends
with status 0 or 1; the supervisor is the loop of `cmd/server`. The mutex exists
while some process has a handle to it. taskkill marks every process of the name
`reader.exe` as dying; it dies, and its handles close, a moment later, which is what
the ten attempts wait for. The error of taskkill is discarded (main.go:46): where
`TaskkillMayFail`, it may not run, or be denied any process of another user, and the reader
goes on to its attempts with the old one alive. In `Named` are the processes whose program
file is `reader.exe` (a build with another name takes part in the mutex but is spared by
taskkill). Any process may be started by people or by a supervisor; how it ended is kept
only while a supervisor waits for it.

**BackendLink.** `mpc` is where the start of `main` is, `wpc` where the watcher is;
both call `setWoffSvClient`, never at the same time. A heartbeat succeeds only if the
backend is up, and may fail at any time, with a DNS error (tried again up to
`MaxAttempts`) or another (not). Messages of a WebSocket that breaks may be lost.
If no endpoint or secret is configured the program skips all of this. `watcher.Stop`
is deferred in `main`, which however always ends through `os.Exit` or `log.Fatalf`;
`Stop` models the operation of BackendWatcher, not something users can cause. The
heartbeat every 30 s only logs and is left out.

**CallSpec, Rpc and the services.** A call is opened, its request is lost, refused or
served, the method runs and ends or breaks off, and the caller has an answer or an
error; the deadline may pass at any place, and what the server does goes on.
`Rpc` takes the stubs as tables: what path, message type and protocol a client's method
sends (`ClientStub`), what a server runs for a path (`ServerStub`). `AuthService` and
`LicenseService` are these tables, put together the way the generated code does: for connect
the procedure constants, the fields of the client, the handlers and the switch on the path;
for gRPC the full method names and the service descriptor. A connect server takes calls of
gRPC clients, not the other way round, so a reader whose backend was built on gRPC
stubs has every call refused; both cases are in the runs.

**Config and ReaderNames.** `ReaderId` is the flag, else the environment, else the line of
.env, else "default", with the texts that count as absent. `Supervised` is what the
supervisor's readers are started with. Names of card readers are sequences of letters,
of which `AppAssumption` asks only that they are finitely many and that none is empty; the
buffer is a sequence in which 0 ends a name. What the service writes is any buffer in which
each name has a place (`Layouts`), the names end to end in whatever order; its size is counted,
a cell for each letter and each zero (`Cells`). The size was asked for by an earlier call, so
that cells beyond what is written hold zeros, and the second call fails if there are too few.

**ReaderApp.** `pc` is where the process is, from `database` (NewLogger) over the two
times the readers are listed to `watch` (in MonitorCards), `read` (a card is seen and being
read), then `row`, `fetch`, `send`, `wait` of the callback. `Die` ends it anywhere - a newcomer's
taskkill, Ctrl+C, log.Fatal - and `Launch` starts it again, with .env as it is by then. The
cards are those of one reader, and `See` and `CallBack` are steps of `Taps`, so that the model
covers every run of `CardMonitor` with one reader, swaps during the attempts included.
`link` is woffSvClient, which the start and the watcher set (`Relink`, whose details are
`BackendLink`'s). The stay of a card stands for its data; `cards` are the rows of the
backends. An answer whose log is nil ends the process (main.go:383 uses it unchecked). The
rows of the message log are left out here.

**LogStore.** A row has its id, its second, a reader and a level or status. A query is a
COUNT and a SELECT, two steps, `upto` an observation of how many rows there were at the
first. `Where` compares the times as SQLite does (logger.go:181): strftime gives a text, and
every text is greater than every integer, so that an end lets no row through and a start
all. Without a limit the query has an argument too many, which go-sqlite3 ignores, and no
limit: the 100 rows that license.proto:60 names as the default are not applied. Among rows of
one second any may be left out by a limit. An error while rows are stepped through ends
`rows.Next` like the last row does, and nothing asks `rows.Err` (logger.go:216, 251, 338): the
caller has fewer rows, no error and the full count. `Scan` has both ends; `cut` tells them
apart for the properties and is seen by no caller.

**LicensePush.** Each call has its message and, at the server, a handler with its own place
(`hpc`): history row, note in the log, callback, reply. Logger and callback may each be
nil. `Crash` ends all handlers where they are; the tables stay.

## Runs

| run | question | bounds | result |
|---|---|---|---|
| `CardRead` | does a call release what it takes and stick to one card? | 4 cards: two licences of one ATR, a certificate with a licence's ATR, a mobile card with two UIDs | holds; 15 thousand states |
| `MonitorOneReader` | is each new card reported once, truthfully, as `Taps` has it, and re-armed by removal? | 1 reader, 3 visits | holds; 0.3 million states |
| `MonitorTwoReaders` | do flags, data and states stay with their reader and card, and does every report raise a flag that was down? | 2 readers, 2 visits | holds; 1.8 million states |
| `MonitorStuckFlag` | does every removal clear the flags? | 1 reader, 1 visit | violated |
| `MonitorRetold` | is a card reported once with two readers? | 2 readers, 2 visits | violated |
| `TakeoverSupervised` | one reader past the mutex, one of the supervisor's own in the end, none after Ctrl+C? | 2 processes, 1 supervisor, 3 attempts, 1 accident (a crash of the supervisor or a start by hand); taskkill and CreateMutexW may fail | holds; 68 thousand states |
| `TakeoverByHand` | is there a reader to replace those being ended? | 2 readers by hand | violated |
| `BackendLink` | does the watcher survive, skip only what it has, reach a settled backend? | 2 URLs and localhost, 5 attempts, 3 changes of backend | holds; 85 thousand states |
| `BackendUnreached` | is a URL tried again after a failed heartbeat? | 2 attempts, 1 change | violated |
| `ReaderApp` | do row and time card belong to their read, through failures, late answers and restarts? | 2 stays of a card, 2 lives, 2 reports, 2 card readers (the name of one begins the other's), 2 backends, either stack at the backend; supervised, .env edited between starts, or by hand with the id of the environment | holds; 0.4 million states |
| `LicensePush` | is what is answered stored, each row of its call, and do count and page agree? | 2 calls, 1 reader id, 2 seconds, 4 queries, all pairs of stacks, with and without logger and callback (`MCInit`); calls are symmetric | holds; 1.6 million states |
| `LicenseTimes` | do start and end bound what a query counts? | as `LicensePush` | violated |

Why the bounds are enough. Three visits let one card replace another between
snapshot and attempt and a third come before the loop has looked again; two readers are
enough for one to disturb the other; the flags, the retries and the last CardID have
no other memory. In `Takeover` an orphan or a reader started by hand meets the reader of the
supervisor, or a dying one its successor, and three attempts have a first, a middle and a last
one. The one accident occupies one process and leaves the other to the supervisor: after two,
both can work for good, one of them by a NULL, and the instance would have none left to start.
More readers at once are covered by the theorems only. In `BackendLink` three changes let
a backend be announced, replaced and announced again, with an announcement lost on the way. In `ReaderApp` two lives and two stays
let one card be reported twice and a late answer meet another card's report, and two backends let
the client be replaced between fetch and use. In `LicensePush` two calls are two handlers at once, and
inserts before, between and after the two statements of a query; two seconds let a newer
row be left out if the order were wrong. Stacks, logger and callback have nothing to do with one
another in the code, so `MCInit` takes ten of their sixteen combinations: every one without a
logger, and of those with a logger, whose tables make most of the states, each stack with
itself, one with a callback and one without.

### What the violated runs show

* **MonitorStuckFlag.** The removal branch clears the processed flags only
  `if lastCardID != ""` (license_reader.go:349). After attempts that failed, or a
  card without an id, the flag set at 334 outlives the card, and the next tap of any
  card with that ATR is passed over.
* **MonitorRetold.** One map of flags serves all readers: an empty reader in the same
  scan clears the flag of the card lying on the other (353), which is read again.
* **TakeoverByHand.** `taskkill /F /IM reader.exe` ends the reader that runs it
  (main.go:45). Under a supervisor the next restart finds the mutex free
  (`SupervisedReaderWorks`); by hand no reader is left.
* **BackendUnreached.** After a heartbeat that failed for another reason than DNS the
  watcher waits for the next message (main.go:161-173, websocket.go:146), though main.go:232-233
  says the watcher is there for just this reconnection. `SettledBackendIsReached`
  states what does hold: announced again and again, the URL is reached.
* **LicenseTimes.** license.proto:58-59 has start_time and end_time as the bounds of a query;
  logger.go:181 compares the text of strftime with an integer, so that a query with an end
  counts no row and one with a start also the rows before it.

### Fairness

Only steps of the program are fair, never what people, cards or networks do:

* `CardMonitor`: the loop runs on (`WF Loop`); the smart card service does not answer
  every wait with an error for ever (`SF WaitReturns`), which the retry after a
  second counts on.
* `Takeover`: processes run on; starting a reader, creating the mutex, ending the old readers
  and initialising do not fail every time (`SF`), as the unlimited restarts of the supervisor
  count on. For taskkill this means that the readers are of one user: it may fail now and then,
  but one that is denied the old reader for ever leaves the supervisor without its own.
  Crashes and starts by hand are bounded (`MaxAccidents`): a supervisor whose reader is
  killed by a newcomer each time would never get one working.
* `BackendLink`: goroutines run on; a dial, a heartbeat to a live backend and the read
  of a message that is there succeed at some time if tried again and again (`SF`).
  Nothing makes woff-cl announce a URL: `SettledBackendIsReached` has that as its premise.
* `ReaderApp`: a process that is not ended goes on through its callback (`WF Callback`),
  which has no wait without a deadline: the context of CreateTimeCard ends after 10 s
  whatever the backend does. That every call returns, as `CallSpec` has it, is derived from it
  by the run.
* `LicensePush` is about safety only and assumes none.

`CHECK_DEADLOCK FALSE` is in `TakeoverByHand`, where two readers that have ended
each other leave nothing to do once the starts by hand are used up, and in `ReaderApp`, where
the process may have ended for good, no start left, with no card to move.

## Proofs

All theorems hold for every value of the constants that satisfies the assumptions
of the modules (`CardsAssumption`, `MonitorAssumption`, `TakeoverAssumption`,
`LinkAssumption`, `TapAssumption`, `RpcAssumption`, `ConfigAssumption`, `AppAssumption`, `StoreAssumption`,
`PushAssumption`): any set of cards, number of readers, processes, supervisors,
attempts and backends.

* **CardReadProofs.** `ReadInvariant` is inductive: it ties each place of the call to
  what holds there - the handle is open exactly while a call runs, `held` is a card,
  and on a clean path the data filled in so far is the card's true type, UID and
  expiry date and the session is open. `HandleIsClosed`, `CleanCallEnds` and
  `CleanCallCompletes` follow. `ReadCardImplements` maps every step to a step of
  `ReadCardSpec` or to a stutter; the point of it is `Disconnect`, where the data must
  be one of `ReadResults(held)`, so the invariant carries for every place
  the partial data possible there. `CardsProofs` has the facts on `Cards` it cites.
* **CardMonitorProofs.** `GeneralInv` holds for any number of readers: visits are
  numbered in the order of arrival and a snapshot is never ahead of its reader
  (`VisitsInOrder`); between the decision to read and the report the snapshot shows a card
  whose ATR is not flagged, and success means complete data (`Reading`). Neither
  `DataIsFresh` nor `ProcessedWasTold` is inductive without them. They give `TypeCorrect`,
  `ProcessedWasToldHolds`, `DataIsFreshHolds` and `NoErrorMeansReadHolds`.
  `WaitsForNewsHolds` needs only that the readers already passed in a scan are
  acknowledged (`ScannedAcknowledged`).
  `ReportRaisesFlagHolds` is what is left of "reported once" when readers share the flags: a
  report is of a card whose ATR was not flagged, and flags it, and flags come down only all
  together, at a reader seen empty, when the last card had a CardID. So a card is reported
  again only behind such a removal, be it of another reader's card as in `MonitorRetold`.
  `DataIsOfItsVisitHolds` ties the data kept between attempts to the card it was read from,
  through the results `ReadCardSpec` allows, so that `CompleteDataIsOfTheCard` can say what a
  report without error contains: a licence is reported as a licence, with its own expiry date
  and the CardID this makes, even if the card was swapped since the loop woke. Its
  second half bounds the cause of `MonitorStuckFlag` among reads that succeed: only cards not
  taken for licences, whose UID was not read.
  `OneReaderInv` adds what one reader alone guarantees - the reader holds the newest visit
  or none, a newcomer is untold, a visit told already is flagged for as long as it
  may still be seen, no later card's data is recorded while the loop works on a snapshot,
  and a visit is recorded at most once more than it was told - from which `OneReaderTellsOnce` and `OneReaderRecordsTwice` follow.
  `OneReaderTellsOfTaps` maps each step to one of `Taps` or to a stutter; that what `Look` sees is
  untold is the one fact that needs `OneReaderInv`. `MonitorRetold` shows
  that the assumption of one reader is needed.
* **TakeoverProofs.** `TakeoverInvariant` says which places of `main` go with an open
  handle, that a working reader either has the handle or got there by a NULL, and that
  the mutex has one owner: `MutexExcludesReaders` follows, and
  where CreateMutexW never fails, `OneReaderAtATime`. `NamedReadersDoNotRetry` is the positive side of
  `TakeoverByHand`: where taskkill does not fail, a reader whose program is `reader.exe` is among
  those its own taskkill ends, so it never comes to the ten attempts, and works only if its first
  CreateMutexW made the mutex. The NULL that main.go:82 lets pass then does harm only to a reader
  of another name: `NamedReadersExclude` proves, under the same assumption, that readers all called
  `reader.exe` work one at a time even when CreateMutexW fails. Both have
  `TaskkillMayFail = FALSE` as a hypothesis, since main.go:46 discards the error: a taskkill that
  fails and a NULL on the last attempt together do give two such readers, which
  `MutexExcludesReaders` allows and which needs no such hypothesis.
  `StopEndsTheChild` is the action property on the supervisor's stop.
* **BackendLinkProofs.** `LinkInvariant`: the start and the watcher never call
  setWoffSvClient at once, a call has a target (the watcher's one of woff-cl's), and
  a remembered URL is the client's. It gives `LinkTypes`, `SkippingIsHarmless` and
  `WatcherEndsOnlyOnStop`. `ClientIsNeverLost` looks at the steps: only a heartbeat that succeeded
  changes the client, to one of a backend that is up; no failure takes away a client there is.
  The step `Relink` of `ReaderApp` rests on it.
  `StopIsFinal` says what a stop leaves to be done: a call of setWoffSvClient that has begun, or
  the message of a read that has; behind them the watcher is at its look at stopChan, and neither
  client nor remembered URL changes again. That the watcher then ends is `StopEndsWatcher`,
  which is about fairness and stays with TLC.
* **RpcProofs.** `RpcInv`: a call is on its way once it is made, is answered
  without error only when its method is done, and what ran is what the server's table
  gives. `RpcImplementsCall` maps each step to one of `CallSpec`; `Work` forgets
  everything of a request but whether its method has begun or is done, so a refusal and a
  loss are stutters. `AgreeingStubsServe` has a hypothesis, `StubsAgree`: for what a
  client sends, the server's table has the method called. `AuthStubsAgree` and `LicenseStubsAgree`
  show it of the tables of the generated code, in every pair of stacks.
* **ReaderAppProofs.** `AppInv`: a life reports stays in the order they came, none twice, and sees none
  older than what it has read (`ReportsInOrder`, which is what makes
  `SecondCardNeedsSwapOrRestart` hold once cards are tied to calls); beyond
  the insert the callback's report has its row (`CurrentHasRow`); a call carries the
  read of its report and the id of its row (`CallsOfReads`), and goes on carrying it after the
  process has ended; a time card is what a call asked for, and is there when its
  method is done (`CardsOfCalls`). None of the properties of the time cards is
  inductive alone: a card may be recorded by a call whose process is long gone, so the
  invariant speaks of calls, not of the process. `FlagIsId` is for supervised readers.
  `OneCardPerReport` and `NothingIsTakenBack` say what the restarts leave alone: a report
  has at most one time card, of the stay reported or a later one, and no step removes a report, a
  row or a time card, changes a request that was sent, or records a card but while
  its method runs. `LivesAreOfTaps` maps every step to one of `Taps`, a stutter or, when the process
  ends, `Forget`; with `OneReaderTellsOfTaps` it joins the two models: what the callback
  relies on within a life is no more than what the loop of MonitorCards keeps.
  `WholeNames` is about data alone: from any buffer the service may write, exactly the names
  it was filled with are cut (`ListingIsWhole`). A buffer is given by the places of its
  names, so a cell belongs to one name or is a zero, and `NamesAreCutApart` needs no induction over
  the names. That there is a layout for every set of names (`NamesFit`) does: the induction
  theorems of the library take an operator, so it goes by a smallest set that had none
  (`Least`).
* **LicensePushProofs.** `PushInv`: ids run from 1 to the number of rows, in the order of
  time; a handler runs exactly while its call does; it inserts once and before it answers
  (`RowsOfCall`, `StoredBeforeAnswer`); what a query counted are the rows whose id is at most
  the number there was (`QueryOfPast`), which rows inserted later do not change. A page is as
  long as count and limit make it unless an error cut it short (`ScanOf`, `LimitOf`), and even then
  leaves out no row newer than one it has.
  `RowsComeWithTheirCalls` is the step form: tables only grow, and a row appears while its call
  runs, never for one that was lost, refused, broken off or answered. `PushImplementsCall` maps
  the service to `CallSpec` with its handlers and crashes, whatever the stubs are: it
  needs no `Generated`.
  The hypothesis `Generated` adds to `StubsAgree` that the two pushes are the only methods of the
  server's own, as `LicenseStubsAgree` shows of the generated code.

Every safety property of the passing runs is stated by a theorem. Among those that no run states are
`OneReaderAtATime`, `NamedReadersDoNotRetry`, `NamedReadersExclude`, `ClientIsNeverLost`, `StopIsFinal`,
`DataIsOfItsVisitHolds`, `CompleteDataIsOfTheCard`, `OneCardPerReport`, `NothingIsTakenBack`,
`LivesAreOfTaps`, `RowsComeWithTheirCalls` and `PushImplementsCall`.

Only model-checked: that every call of `ReaderApp` returns (the fairness of
`ImplementsCallSpec`; its safety is `AppImplementsCall`), and every liveness property (`RemovalRearms`, `FreshCardIsTold`,
`SupervisedReaderWorks`, `CtrlCStops`, `SettledBackendIsReached`, `StopEndsWatcher`),
since fairness and ENABLED are out of the prover's reach.

## Plan

Done, in this order: `Cards`, `ReadCardSpec` and `CardRead`; `CardMonitor` on top of
them; `Takeover`; `BackendLink`; `CallSpec`, `Rpc` and the tables of the services; `Taps` and
`ReaderApp` on them; `LogStore` and `LicensePush`; the proofs of each. What could follow:

1. Several readers in `Taps` and `ReaderApp`: the promise is weaker then, since the flags are
   shared, and what is left of it has to be found first.
2. A run on README.md:114 (a read is "recorded in both databases"), which the lost insert and the
   timeout of `ReaderApp` refute.
3. The message log in `ReaderApp`, if properties about it are wanted.

## Not modelled

* Two supervisors on one machine, whose readers end each other in turn: whether that goes
  on for ever depends on delays alone.
* `cmd/viewlogs`: it prints what a query returns, and does not compile at this commit.
  `printobserver.py` is the program the reader was ported from and needs modules that are not
  here. Scripts build the programs.
* `InsertTimeCard` and `NewClientWithDB` of `internal/license`: they call a service whose
  stubs are not in the repository. `GetServerConfig`, and the settings other than the reader
  id, have no caller or take the same way.
* `ConnectDirect` and `Control` of winscard.go have no caller; `Release` runs after MonitorCards
  has returned, which it does only when no reader is found.
* The heartbeat ticker, and the messages both programs write to the log while they work: nothing
  reads them back.
* The times of queried rows: the driver returns CURRENT_TIMESTAMP columns in another form than the
  one logger.go:225 and :359 parse, so they are zero whatever is stored.
* The messages of auth.v1 that no code of the repository sends or reads, and the protobuf
  runtime.

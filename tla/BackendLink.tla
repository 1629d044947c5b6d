----------------------------- MODULE BackendLink -----------------------------
(***************************************************************************)
(* How the reader gets, and keeps, its client of the woff-sv backend       *)
(* (setWoffSvClient and its callers in cmd/reader/main.go; BackendWatcher  *)
(* and Client in internal/woffcl).  At the start the URL is asked of       *)
(* woff-cl once, with localhost to fall back on; from then on a goroutine  *)
(* listens on a WebSocket for other URLs.  woff-cl, the network and the    *)
(* backends come and go as they like.                                      *)
(***************************************************************************)
EXTENDS Naturals, Sequences

CONSTANTS
  URL,                 \* backends woff-cl may name
  Localhost,           \* http://localhost:50051
  NoURL,
  MaxAttempts,         \* maxRetries of setWoffSvClient, 5 in the code
  AnnouncesOnConnect,  \* woff-cl tells a new WebSocket what it knows
  MaxMoves             \* bound: changes of the backend during a run

ASSUME LinkAssumption ==
  /\ Localhost \notin URL
  /\ NoURL \notin URL \cup {Localhost}
  /\ MaxAttempts \in Nat \ {0}
  /\ AnnouncesOnConnect \in BOOLEAN
  /\ MaxMoves \in Nat

Target == URL \cup {Localhost}

VARIABLES
  backend,   \* the URL woff-cl knows, or NoURL
  up,        \* the backends that answer
  moves,     \* changes of backend so far
  conn,      \* the WebSocket is connected
  inbox,     \* messages on it: a URL, or NoURL for "waiting"
  mpc,       \* where the start of main is
  wpc,       \* where the watcher goroutine is
  target,    \* the URL setWoffSvClient is connecting to
  attempt,   \* its attempts so far
  client,    \* woffSvClient: its URL, NoURL for nil
  last,      \* lastConnectedURL, NoURL for ""
  stop       \* stopChan is closed

outside == <<backend, up, moves>>
wire == <<conn, inbox>>
link == <<client, last>>
vars == <<outside, wire, mpc, wpc, target, attempt, link, stop>>

WatcherPCs == {"off", "top", "dial", "next", "read", "callback", "pause", "done"}

TypeOK ==
  /\ backend \in URL \cup {NoURL}
  /\ up \subseteq Target
  /\ moves \in 0 .. MaxMoves
  /\ conn \in BOOLEAN
  /\ inbox \in Seq(URL \cup {NoURL})
  /\ mpc \in {"fetch", "connect", "run"}
  /\ wpc \in WatcherPCs
  /\ target \in Target \cup {NoURL}
  /\ attempt \in 0 .. MaxAttempts
  /\ client \in Target \cup {NoURL}
  /\ last \in URL \cup {NoURL}
  /\ stop \in BOOLEAN

Init ==
  /\ backend \in URL \cup {NoURL}
  /\ up \in SUBSET Target
  /\ moves = 0
  /\ conn = FALSE
  /\ inbox = << >>
  /\ mpc = "fetch"
  /\ wpc = "off"
  /\ target = NoURL
  /\ attempt = 0
  /\ client = NoURL
  /\ last = NoURL
  /\ stop = FALSE

-----------------------------------------------------------------------------
(* woff-cl, the backends and the network.                                   *)

(* Another backend registers, or the one woff-cl knows goes away.           *)
Move(u) ==
  /\ u # backend
  /\ moves < MaxMoves
  /\ moves' = moves + 1
  /\ backend' = u
  /\ inbox' = IF conn THEN Append(inbox, u) ELSE inbox
  /\ UNCHANGED <<up, conn, mpc, wpc, target, attempt, link, stop>>

ComeUp(u) ==
  /\ u \notin up
  /\ up' = up \cup {u}
  /\ UNCHANGED <<backend, moves, wire, mpc, wpc, target, attempt, link, stop>>

GoDown(u) ==
  /\ u \in up
  /\ up' = up \ {u}
  /\ UNCHANGED <<backend, moves, wire, mpc, wpc, target, attempt, link, stop>>

(* What was on the way when the WebSocket broke may be lost.                *)
Break ==
  /\ conn
  /\ conn' = FALSE
  /\ \E n \in 0 .. Len(inbox) : inbox' = SubSeq(inbox, 1, n)
  /\ UNCHANGED <<outside, mpc, wpc, target, attempt, link, stop>>

Outside ==
  \/ \E u \in URL \cup {NoURL} : Move(u)
  \/ \E u \in Target : ComeUp(u) \/ GoDown(u)
  \/ Break

-----------------------------------------------------------------------------
(* setWoffSvClient, called by the start of main and by the watcher.         *)

Begin(u) == target' = u /\ attempt' = 1

(* The watcher remembers a URL only when the call succeeded.                *)
RemembersAny(ok) == target
Remembered(ok) == IF ok THEN target ELSE last

Return(ok) ==
  /\ IF mpc = "connect"
     THEN mpc' = "run" /\ wpc' = "top" /\ last' = last      \* watcher.Start
     ELSE mpc' = mpc /\ wpc' = "next" /\ last' = Remembered(ok)
  /\ target' = NoURL
  /\ attempt' = 0
  /\ UNCHANGED <<outside, wire, stop>>

Connecting == mpc = "connect" \/ wpc = "callback"

HeartbeatOk ==
  /\ Connecting
  /\ target \in up
  /\ client' = target
  /\ Return(TRUE)

(* Only a name that does not resolve is tried again.                        *)
OneTooMany == attempt <= MaxAttempts
AttemptsLeft == attempt < MaxAttempts

HeartbeatNoHost ==
  /\ Connecting
  /\ IF AttemptsLeft
     THEN /\ attempt' = attempt + 1
          /\ UNCHANGED <<outside, wire, mpc, wpc, target, last, stop>>
     ELSE Return(FALSE)
  /\ UNCHANGED client

HeartbeatFails ==
  /\ Connecting
  /\ Return(FALSE)
  /\ UNCHANGED client

SetClient == HeartbeatOk \/ HeartbeatNoHost \/ HeartbeatFails

-----------------------------------------------------------------------------
(* The start of main.                                                       *)

GetBackendURL ==
  /\ mpc = "fetch"
  /\ \/ backend # NoURL /\ Begin(backend)
     \/ Begin(Localhost)             \* an error, or no URL: offline mode
  /\ mpc' = "connect"
  /\ UNCHANGED <<outside, wire, wpc, link, stop>>

(* Stop, which main defers.                                                 *)
Stop ==
  /\ mpc = "run"
  /\ ~stop
  /\ stop' = TRUE
  /\ UNCHANGED <<outside, wire, mpc, wpc, target, attempt, link>>

-----------------------------------------------------------------------------
(* The watcher.  WatchTop is the loop of watchBackend, WatchNext the one of *)
(* connectAndWatch; both look at stopChan without waiting.                  *)

GotoW(to) == wpc' = to /\ UNCHANGED <<outside, mpc, target, attempt, link, stop>>

WatchTop ==
  /\ wpc = "top"
  /\ GotoW(IF stop THEN "done" ELSE "dial")
  /\ UNCHANGED wire

Dial ==
  /\ wpc = "dial"
  /\ conn' = TRUE
  /\ inbox' = IF AnnouncesOnConnect THEN <<backend>> ELSE << >>
  /\ GotoW("next")

AfterFailedDialEnd == "done"
AfterFailedDial == "pause"

DialFails ==
  /\ wpc = "dial"
  /\ GotoW(AfterFailedDial)
  /\ UNCHANGED wire

(* A return from connectAndWatch closes the WebSocket.                      *)
CloseConn == conn' = FALSE /\ inbox' = << >>

StopUnseen == FALSE
StopSeen == stop

WatchNext ==
  /\ wpc = "next"
  /\ IF StopSeen THEN GotoW("done") /\ CloseConn
                 ELSE GotoW("read") /\ UNCHANGED wire

ReadFails ==
  /\ wpc = "read"
  /\ ~conn
  /\ inbox = << >>
  /\ CloseConn
  /\ GotoW("pause")

(* "waiting", or the URL of the last success: nothing to do.                *)
ReadNothingNew ==
  /\ wpc = "read"
  /\ inbox # << >>
  /\ Head(inbox) \in {NoURL, last}
  /\ inbox' = Tail(inbox)
  /\ conn' = conn
  /\ GotoW("next")

ReadBackend ==
  /\ wpc = "read"
  /\ inbox # << >>
  /\ Head(inbox) \notin {NoURL, last}
  /\ inbox' = Tail(inbox)
  /\ Begin(Head(inbox))
  /\ wpc' = "callback"
  /\ UNCHANGED <<outside, conn, mpc, link, stop>>

(* A select of stopChan and the five seconds.                               *)
Pause ==
  /\ wpc = "pause"
  /\ \/ stop /\ GotoW("done")
     \/ GotoW("top")
  /\ UNCHANGED wire

Watcher ==
  \/ WatchTop \/ Dial \/ DialFails \/ WatchNext
  \/ ReadFails \/ ReadNothingNew \/ ReadBackend \/ Pause

Next == Outside \/ SetClient \/ GetBackendURL \/ Stop \/ Watcher

Spec == Init /\ [][Next]_vars

(* The goroutines run on; a dial and a heartbeat that could succeed again   *)
(* and again succeed at some time, and a message that arrives again and     *)
(* again is read before the WebSocket breaks at some time.                  *)
Fairness ==
  /\ WF_vars(GetBackendURL) /\ WF_vars(SetClient) /\ WF_vars(Watcher)
  /\ SF_vars(Dial) /\ SF_vars(ReadBackend) /\ SF_vars(HeartbeatOk)

FairSpec == Spec /\ Fairness

-----------------------------------------------------------------------------
(* The URL the watcher skips as already connected is the client's: skipping *)
(* it loses nothing, whatever failed in between.                            *)
SkippedIsClient == last # NoURL => client = last

(* The watcher outlives every failure but a stop.                           *)
EndsOnlyOnStop == wpc = "done" => stop

(* A backend that stays registered and up, and whose announcement reaches   *)
(* the watcher again and again (on new WebSockets, say), becomes the        *)
(* client's for good, however many heartbeats failed before.                *)
SettledBackendIsReached ==
  \A u \in URL :
    (/\ <>[](backend = u /\ u \in up /\ ~stop)
     /\ []<>(wpc = "read" /\ inbox # << >> /\ Head(inbox) = u))
      => <>[](client = u)

(* A stop ends the watcher, also one that comes during a callback, between   *)
(* two attempts or while it dials; only a read that has begun hides it.      *)
StopEndsWatcher == (stop /\ wpc # "read") ~> wpc = "done"

(* What watching the URL is for, says main.go:232-233: reconnecting after a *)
(* heartbeat failed.                                                        *)
ReconnectsAfterFailure ==
  \A u \in URL :
    <>[](backend = u /\ u \in up /\ ~stop) => <>(client = u)
=============================================================================

-------------------------- MODULE BackendLinkProofs --------------------------
(***************************************************************************)
(* What setWoffSvClient and the watcher keep true, for every number of     *)
(* backends, attempts and messages.                                        *)
(***************************************************************************)
EXTENDS BackendLink, TLAPS

(* The start of main and the watcher never call setWoffSvClient at the same *)
(* time: the watcher runs only when the start is over.                      *)
OneCaller == mpc = "run" <=> wpc # "off"

(* A call has a URL to connect to, the watcher's one of woff-cl's; before   *)
(* the watcher runs it has remembered none.                                 *)
CallHasTarget ==
  /\ mpc = "connect" => target \in Target
  /\ wpc = "callback" => target \in URL
  /\ mpc # "run" => last = NoURL

(* The inductive invariant.                                                 *)
LinkInv == TypeOK /\ OneCaller /\ CallHasTarget /\ SkippedIsClient /\ EndsOnlyOnStop

(* A new WebSocket has at most one message on it.                           *)
LEMMA ShortInboxes ==
  /\ << >> \in Seq(URL \cup {NoURL})
  /\ \A u \in URL \cup {NoURL} : <<u>> \in Seq(URL \cup {NoURL})
<1>1. \A S : << >> \in Seq(S)
  OBVIOUS
<1>2. \A S : \A u \in S : <<u>> \in Seq(S)
  OBVIOUS
<1> QED
  BY <1>1, <1>2

(* What a failed or a successful call leaves behind.                        *)
LEMMA ReturnKeeps ==
  ASSUME LinkInv, Connecting, NEW ok \in BOOLEAN, Return(ok),
         IF ok THEN client' = target ELSE client' = client
  PROVE  LinkInv'
<1> USE DEF LinkInv
<1>1. CASE mpc = "connect"
  <2>1. mpc' = "run" /\ wpc' = "top" /\ last' = NoURL
    BY <1>1 DEF Return, CallHasTarget
  <2>2. client' \in Target \cup {NoURL}
    BY <1>1 DEF TypeOK, CallHasTarget
  <2>3. TypeOK'
    BY <2>1, <2>2, LinkAssumption DEF Return, TypeOK, WatcherPCs, outside, wire
  <2> QED
    BY <2>1, <2>3, LinkAssumption
    DEF OneCaller, CallHasTarget, SkippedIsClient, EndsOnlyOnStop
<1>2. CASE mpc # "connect"
  <2>1. mpc = "run" /\ wpc = "callback" /\ target \in URL
    BY <1>2 DEF Connecting, OneCaller, CallHasTarget
  <2>2. mpc' = "run" /\ wpc' = "next" /\ last' = IF ok THEN target ELSE last
    BY <1>2, <2>1 DEF Return, Remembered
  <2>3. client' \in Target \cup {NoURL}
    BY <2>1 DEF TypeOK, Target
  <2>4. TypeOK'
    BY <2>1, <2>2, <2>3, LinkAssumption DEF Return, TypeOK, WatcherPCs, outside, wire
  <2>5. SkippedIsClient'
    BY <2>2 DEF SkippedIsClient
  <2> QED
    BY <2>2, <2>4, <2>5 DEF OneCaller, CallHasTarget, EndsOnlyOnStop
<1> QED
  BY <1>1, <1>2

(* Every step keeps the invariant.                                          *)
LEMMA LinkStep == LinkInv /\ [Next]_vars => LinkInv'
<1> SUFFICES ASSUME LinkInv, [Next]_vars PROVE LinkInv'
  OBVIOUS
<1> USE DEF LinkInv
<1>1. CASE Outside
  <2>1. UNCHANGED <<mpc, wpc, target, attempt, client, last, stop>>
    BY <1>1 DEF Outside, Move, ComeUp, GoDown, Break, link
  <2>2. inbox' \in Seq(URL \cup {NoURL})
    <3>1. CASE Break
      <4>1. PICK n \in 0 .. Len(inbox) : inbox' = SubSeq(inbox, 1, n)
        BY <3>1 DEF Break
      <4> QED
        BY <4>1 DEF TypeOK
    <3>2. ASSUME NEW u \in URL \cup {NoURL}, Move(u) PROVE inbox' \in Seq(URL \cup {NoURL})
      BY <3>2 DEF Move, TypeOK
    <3> QED
      BY <1>1, <3>1, <3>2 DEF Outside, ComeUp, GoDown, wire, TypeOK
  <2>3. backend' \in URL \cup {NoURL} /\ moves' \in 0 .. MaxMoves
    <3>1. ASSUME NEW u \in URL \cup {NoURL}, Move(u)
          PROVE  backend' \in URL \cup {NoURL} /\ moves' \in 0 .. MaxMoves
      BY <3>1, LinkAssumption DEF Move, TypeOK
    <3> QED
      BY <1>1, <3>1 DEF Outside, ComeUp, GoDown, Break, TypeOK, outside
  <2>4. up' \subseteq Target
    BY <1>1 DEF Outside, Move, ComeUp, GoDown, Break, TypeOK, outside
  <2>5. conn' \in BOOLEAN
    BY <1>1 DEF Outside, Move, ComeUp, GoDown, Break, TypeOK, wire
  <2> QED
    BY <2>1, <2>2, <2>3, <2>4, <2>5
    DEF TypeOK, OneCaller, CallHasTarget, SkippedIsClient, EndsOnlyOnStop
<1>2. CASE HeartbeatOk
  BY <1>2, ReturnKeeps DEF HeartbeatOk
<1>3. CASE HeartbeatNoHost
  <2>1. CASE AttemptsLeft
    BY <1>3, <2>1, LinkAssumption
    DEF HeartbeatNoHost, AttemptsLeft, TypeOK, OneCaller, CallHasTarget,
        SkippedIsClient, EndsOnlyOnStop, outside, wire
  <2>2. CASE ~AttemptsLeft
    BY <1>3, <2>2, ReturnKeeps DEF HeartbeatNoHost
  <2> QED
    BY <2>1, <2>2
<1>4. CASE HeartbeatFails
  BY <1>4, ReturnKeeps DEF HeartbeatFails
<1>5. CASE GetBackendURL
  BY <1>5, LinkAssumption
  DEF GetBackendURL, Begin, TypeOK, OneCaller, CallHasTarget, SkippedIsClient,
      EndsOnlyOnStop, Target, outside, wire, link
<1>6. CASE Stop
  BY <1>6 DEF Stop, TypeOK, OneCaller, CallHasTarget, SkippedIsClient,
     EndsOnlyOnStop, outside, wire, link
<1>7. CASE Watcher
  <2>1. /\ UNCHANGED <<outside, mpc, link, stop>>
        /\ wpc # "off" /\ wpc' \in WatcherPCs \ {"off"}
        /\ wpc' = "done" => stop
    BY <1>7 DEF Watcher, WatchTop, Dial, DialFails, AfterFailedDial, WatchNext,
       StopSeen, ReadFails, ReadNothingNew, ReadBackend, Pause, GotoW, WatcherPCs
  <2>2. CASE ReadBackend
    <3>1. Head(inbox) \in URL /\ inbox' \in Seq(URL \cup {NoURL})
      BY <2>2 DEF ReadBackend, TypeOK
    <3> QED
      BY <2>1, <2>2, <3>1, LinkAssumption
      DEF ReadBackend, Begin, TypeOK, OneCaller, CallHasTarget, SkippedIsClient,
          EndsOnlyOnStop, Target, outside, link
  <2>3. CASE ~ReadBackend
    <3>1. wpc' # "callback" /\ UNCHANGED <<target, attempt>>
      BY <1>7, <2>3 DEF Watcher, WatchTop, Dial, DialFails, AfterFailedDial,
         WatchNext, ReadFails, ReadNothingNew, Pause, GotoW
    <3>2. inbox' \in Seq(URL \cup {NoURL}) /\ conn' \in BOOLEAN
      <4>1. CASE Dial
        <5>1. backend \in URL \cup {NoURL}
          BY DEF TypeOK
        <5>2. conn' = TRUE /\ inbox' \in {<<backend>>, << >>}
          BY <4>1 DEF Dial
        <5> QED
          BY <5>1, <5>2, ShortInboxes
      <4>2. CASE WatchNext
        BY <4>2, ShortInboxes DEF WatchNext, CloseConn, TypeOK, wire
      <4>3. CASE ReadFails
        BY <4>3, ShortInboxes DEF ReadFails, CloseConn
      <4>4. CASE ReadNothingNew
        BY <4>4 DEF ReadNothingNew, TypeOK
      <4>5. CASE WatchTop \/ DialFails \/ Pause
        BY <4>5 DEF WatchTop, DialFails, Pause, TypeOK, wire
      <4> QED
        BY <1>7, <2>3, <4>1, <4>2, <4>3, <4>4, <4>5 DEF Watcher
    <3> QED
      BY <2>1, <3>1, <3>2
      DEF TypeOK, OneCaller, CallHasTarget, SkippedIsClient, EndsOnlyOnStop,
          outside, link
  <2> QED
    BY <2>2, <2>3
<1>8. CASE UNCHANGED vars
  BY <1>8 DEF vars, outside, wire, link, TypeOK, OneCaller, CallHasTarget,
     SkippedIsClient, EndsOnlyOnStop
<1> QED
  BY <1>1, <1>2, <1>3, <1>4, <1>5, <1>6, <1>7, <1>8 DEF Next, SetClient

(* The invariant holds from the start on.                                   *)
THEOREM LinkInvariant == Spec => []LinkInv
<1>1. Init => LinkInv
  <2> SUFFICES ASSUME Init PROVE LinkInv
    OBVIOUS
  <2>1. up \subseteq Target /\ backend \in URL \cup {NoURL}
    BY DEF Init
  <2>2. inbox \in Seq(URL \cup {NoURL})
    BY ShortInboxes DEF Init
  <2>3. moves \in 0 .. MaxMoves /\ attempt \in 0 .. MaxAttempts
    BY LinkAssumption DEF Init
  <2>4. TypeOK
    BY <2>1, <2>2, <2>3 DEF Init, TypeOK, WatcherPCs
  <2> QED
    BY <2>4 DEF Init, LinkInv, OneCaller, CallHasTarget, SkippedIsClient, EndsOnlyOnStop
<1> QED
  BY <1>1, LinkStep, PTL DEF Spec

(* Every variable keeps its type: no call makes more than MaxAttempts       *)
(* attempts.                                                                *)
THEOREM LinkTypes == Spec => []TypeOK
  BY LinkInvariant, PTL DEF LinkInv

(* A URL the watcher passes over as connected is the one the client has.    *)
THEOREM SkippingIsHarmless == Spec => []SkippedIsClient
  BY LinkInvariant, PTL DEF LinkInv

(* No failure ends the watcher.                                             *)
THEOREM WatcherEndsOnlyOnStop == Spec => []EndsOnlyOnStop
  BY LinkInvariant, PTL DEF LinkInv
-----------------------------------------------------------------------------
(* Steps.                                                                   *)

(* Main defers the stop when its start is over.                             *)
StopAfterStart == stop => mpc = "run"

LEMMA StopStep == LinkInv /\ StopAfterStart /\ [Next]_vars => StopAfterStart'
<1> SUFFICES ASSUME LinkInv, StopAfterStart, [Next]_vars PROVE StopAfterStart'
  OBVIOUS
<1> USE DEF StopAfterStart
<1>1. CASE SetClient
  BY <1>1 DEF SetClient, HeartbeatOk, HeartbeatNoHost, HeartbeatFails, Return
<1>2. CASE Outside
  BY <1>2 DEF Outside, Move, ComeUp, GoDown, Break
<1>3. CASE GetBackendURL \/ Stop
  BY <1>3 DEF GetBackendURL, Stop
<1>4. CASE Watcher
  BY <1>4 DEF Watcher, WatchTop, Dial, DialFails, WatchNext, ReadFails,
     ReadNothingNew, ReadBackend, Pause, GotoW
<1>5. CASE UNCHANGED vars
  BY <1>5 DEF vars
<1> QED
  BY <1>1, <1>2, <1>3, <1>4, <1>5 DEF Next

(* The client and the remembered URL change only when a call of             *)
(* setWoffSvClient ends.                                                    *)
LEMMA LinkChanges ==
  ASSUME LinkInv, [Next]_vars, ~UNCHANGED link
  PROVE  /\ Connecting
         /\ client' # client => client' = target /\ target \in up /\ mpc' = "run"
<1>1. CASE HeartbeatOk
  <2>1. mpc' = "run"
    BY <1>1 DEF HeartbeatOk, Return, LinkInv, OneCaller, Connecting
  <2> QED
    BY <1>1, <2>1 DEF HeartbeatOk
<1>2. CASE HeartbeatNoHost \/ HeartbeatFails
  BY <1>2 DEF HeartbeatNoHost, HeartbeatFails
<1>3. CASE Outside \/ GetBackendURL \/ Stop
  BY <1>3 DEF Outside, Move, ComeUp, GoDown, Break, GetBackendURL, Stop
<1>4. CASE Watcher
  BY <1>4 DEF Watcher, WatchTop, Dial, DialFails, WatchNext, ReadFails,
     ReadNothingNew, ReadBackend, Pause, GotoW
<1>5. CASE UNCHANGED vars
  BY <1>5 DEF vars
<1> QED
  BY <1>1, <1>2, <1>3, <1>4, <1>5 DEF Next, SetClient

(* The callback's client, once there is one, is never nil again, and a      *)
(* client takes another's place only when its own backend has answered:     *)
(* neither a failed heartbeat nor a backend that went away, nor what        *)
(* woff-cl says, costs the reader the client it has (main.go:146-187).      *)
(* ReaderApp's Relink, which a client's callback may find at any time, is   *)
(* such a step.                                                             *)
ClientIsOnlyReplaced ==
  [][client' # client => client' \in Target \cap up /\ mpc' = "run"]_vars

THEOREM ClientIsNeverLost == Spec => ClientIsOnlyReplaced
<1>1. ASSUME LinkInv, [Next]_vars, client' # client
      PROVE  client' \in Target \cap up /\ mpc' = "run"
  BY <1>1, LinkChanges DEF LinkInv, TypeOK, link
<1>2. LinkInv /\ [Next]_vars =>
        [client' # client => client' \in Target \cap up /\ mpc' = "run"]_vars
  BY <1>1
<1> QED
  BY <1>2, LinkInvariant, PTL DEF Spec, ClientIsOnlyReplaced

(* A stop that finds the watcher neither reading nor in a call of           *)
(* setWoffSvClient is the end of both: it reads no further URL, and client  *)
(* and remembered URL stay what they are.  One that comes during a read     *)
(* lets at most the URL then read through.                                  *)
StopEndsRelinking ==
  [][stop /\ wpc \notin {"read", "callback"} =>
       /\ UNCHANGED link
       /\ stop' /\ wpc' \notin {"read", "callback"}]_vars

(* ... for behind the call the watcher looks at stopChan again.             *)
CallEndsBehindStop ==
  [][stop /\ wpc = "callback" => wpc' \in {"callback", "next"}]_vars

LEMMA StopHolds ==
  ASSUME LinkInv, StopAfterStart, [Next]_vars, stop
  PROVE  /\ stop'
         /\ wpc \notin {"read", "callback"} =>
              UNCHANGED link /\ wpc' \notin {"read", "callback"}
         /\ wpc = "callback" => wpc' \in {"callback", "next"}
<1>1. mpc = "run"
  BY DEF StopAfterStart
<1>2. CASE SetClient
  <2>1. wpc = "callback"
    BY <1>1, <1>2
    DEF SetClient, HeartbeatOk, HeartbeatNoHost, HeartbeatFails, Connecting
  <2> QED
    BY <1>1, <1>2, <2>1
    DEF SetClient, HeartbeatOk, HeartbeatNoHost, HeartbeatFails, Return
<1>3. CASE Outside
  BY <1>3 DEF Outside, Move, ComeUp, GoDown, Break
<1>4. CASE GetBackendURL \/ Stop
  BY <1>1, <1>4 DEF GetBackendURL, Stop
<1>5. CASE Watcher
  BY <1>5 DEF Watcher, WatchTop, Dial, DialFails, AfterFailedDial, WatchNext,
     StopSeen, ReadFails, ReadNothingNew, ReadBackend, Pause, GotoW
<1>6. CASE UNCHANGED vars
  BY <1>6 DEF vars
<1> QED
  BY <1>2, <1>3, <1>4, <1>5, <1>6 DEF Next

THEOREM StopIsFinal == Spec => StopEndsRelinking /\ CallEndsBehindStop
<1>1. Init => StopAfterStart
  BY DEF Init, StopAfterStart
<1>2. LinkInv /\ StopAfterStart /\ [Next]_vars =>
        [stop /\ wpc \notin {"read", "callback"} =>
           /\ UNCHANGED link
           /\ stop' /\ wpc' \notin {"read", "callback"}]_vars
  BY StopHolds
<1>3. LinkInv /\ StopAfterStart /\ [Next]_vars =>
        [stop /\ wpc = "callback" => wpc' \in {"callback", "next"}]_vars
  BY StopHolds
<1> QED
  BY <1>1, <1>2, <1>3, LinkInvariant, StopStep, PTL
  DEF Spec, StopEndsRelinking, CallEndsBehindStop
=============================================================================

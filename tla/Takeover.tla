------------------------------ MODULE Takeover ------------------------------
(***************************************************************************)
(* Who runs the reader.  Reader processes exclude one another with a named *)
(* Windows mutex, a new one ending the old ones with taskkill (the first   *)
(* lines of main in cmd/reader/main.go); a supervisor (cmd/server/main.go) *)
(* starts a reader, waits for its end and starts it again.  Supervisors    *)
(* crash and leave their reader behind, people start readers by hand, and  *)
(* Ctrl+C reaches a supervisor and its reader at different times.          *)
(***************************************************************************)
EXTENDS Naturals

CONSTANTS
  Proc,           \* reader processes; one that ended may run again
  NoProc,
  Named,          \* those whose program file is called reader.exe
  Supervisor,
  MaxTries,       \* attempts to get the mutex after taskkill, 10 in the code
  CreateMayFail,  \* CreateMutexW can return NULL
  TaskkillMayFail, \* taskkill may not run, or be denied a process
  MaxAccidents    \* bound: supervisor crashes and readers started by hand

ASSUME TakeoverAssumption ==
  /\ NoProc \notin Proc
  /\ Named \subseteq Proc
  /\ MaxTries \in Nat \ {0}
  /\ CreateMayFail \in BOOLEAN
  /\ TaskkillMayFail \in BOOLEAN
  /\ MaxAccidents \in Nat

VARIABLES
  rpc,      \* where each reader process is
  handle,   \* it has an open handle to the mutex object
  tries,    \* attempts made after taskkill that failed
  lastErr,  \* the error of the last CreateMutexW
  sigR,     \* readers with an undelivered Ctrl+C
  spc,      \* where each supervisor is
  child,    \* the reader process it waits for
  failed,   \* its restartCount is not zero
  sig,      \* it was sent Ctrl+C
  stop,     \* its stopChan is closed
  accidents \* crashes and starts by hand so far

readers == <<rpc, handle, tries, lastErr, sigR>>
supervisors == <<spc, child, failed, sig, stop>>
vars == <<readers, supervisors, accidents>>

Running == {"create", "close", "kill", "try", "tryClose", "decide", "init", "monitor"}
Ended == {"exit0", "exit1"}
ReaderPCs == Running \cup Ended \cup {"none", "dying"}

(* A reader that got past the mutex.                                        *)
Working == {"init", "monitor"}

Up == {"loop", "sleep", "start", "watch"}
SupervisorPCs == Up \cup {"stopped", "crashed"}

TypeOK ==
  /\ rpc \in [Proc -> ReaderPCs]
  /\ handle \in [Proc -> BOOLEAN]
  /\ tries \in [Proc -> 0 .. MaxTries - 1]
  /\ lastErr \in [Proc -> {"none", "exists", "null"}]
  /\ sigR \subseteq Proc
  /\ spc \in [Supervisor -> SupervisorPCs]
  /\ child \in [Supervisor -> Proc \cup {NoProc}]
  /\ failed \in [Supervisor -> BOOLEAN]
  /\ sig \in [Supervisor -> BOOLEAN]
  /\ stop \in [Supervisor -> BOOLEAN]
  /\ accidents \in 0 .. MaxAccidents

Init ==
  /\ rpc = [p \in Proc |-> "none"]
  /\ handle = [p \in Proc |-> FALSE]
  /\ tries = [p \in Proc |-> 0]
  /\ lastErr = [p \in Proc |-> "none"]
  /\ sigR = {}
  /\ spc = [s \in Supervisor |-> "loop"]
  /\ child = [s \in Supervisor |-> NoProc]
  /\ failed = [s \in Supervisor |-> FALSE]
  /\ sig = [s \in Supervisor |-> FALSE]
  /\ stop = [s \in Supervisor |-> FALSE]
  /\ accidents = 0

-----------------------------------------------------------------------------
(* A reader process.                                                        *)

(* The mutex object lives as long as some process has a handle to it.       *)
MutexExists == \E p \in Proc : handle[p]

Goto(p, to) == rpc' = [rpc EXCEPT ![p] = to]
Open(p) == handle' = [handle EXCEPT ![p] = TRUE]
Close(p) == handle' = [handle EXCEPT ![p] = FALSE]

(* The end of a process closes its handles and forgets its locals; how it    *)
(* ended is kept for the supervisor that waits for it.                      *)
Waited(p) == \E s \in Supervisor : child[s] = p

End(p, how) ==
  /\ Goto(p, IF Waited(p) THEN how ELSE "none")
  /\ Close(p)
  /\ sigR' = sigR \ {p}
  /\ tries' = [tries EXCEPT ![p] = 0]
  /\ lastErr' = [lastErr EXCEPT ![p] = "none"]

(* CreateMutexW opens the object also when it exists, and says so.          *)
Errno == IF MutexExists THEN "exists" ELSE "none"

CreateMutex(p) ==
  /\ rpc[p] = "create"
  /\ Open(p)
  /\ lastErr' = [lastErr EXCEPT ![p] = Errno]
  /\ Goto(p, IF MutexExists THEN "close" ELSE "init")
  /\ UNCHANGED <<tries, sigR, supervisors, accidents>>

CreateMutexFails(p) ==
  /\ rpc[p] = "create"
  /\ CreateMayFail
  /\ End(p, "exit1")
  /\ UNCHANGED <<supervisors, accidents>>

CloseMutex(p) ==
  /\ rpc[p] = "close"
  /\ Close(p)
  /\ Goto(p, "kill")
  /\ UNCHANGED <<tries, lastErr, sigR, supervisors, accidents>>

(* taskkill /F /IM reader.exe is to end every process of that name, the one *)
(* that runs it included.  Its error is discarded: it may not have run, or  *)
(* have been denied access to any of them but its own reader.               *)
NoVictims(p) == {}
Victims(p) == { q \in Named : rpc[q] \in Running }
Spares(p, killed) == killed = {} \/ {p} \cap Victims(p) \subseteq killed

Kill(p, killed) ==
  /\ rpc[p] = "kill"
  /\ rpc' = [q \in Proc |-> IF q \in killed THEN "dying"
                            ELSE IF q = p THEN "try" ELSE rpc[q]]
  /\ UNCHANGED <<handle, tries, lastErr, sigR, supervisors, accidents>>

KillOldReaderProcesses(p) == Kill(p, Victims(p))

TaskkillFails(p) ==
  /\ TaskkillMayFail
  /\ \E killed \in SUBSET Victims(p) : Spares(p, killed) /\ Kill(p, killed)

(* One attempt of the loop after it; AfterTry is where the loop goes when   *)
(* the attempt did not get the mutex.                                       *)
TriesLeftOneMore(p) == tries[p] < MaxTries
TriesLeft(p) == tries[p] + 1 < MaxTries

AfterTry(p) ==
  /\ tries' = [tries EXCEPT ![p] = IF TriesLeft(p) THEN @ + 1 ELSE 0]
  /\ Goto(p, IF TriesLeft(p) THEN "try" ELSE "decide")

TryMutex(p) ==
  /\ rpc[p] = "try"
  /\ Open(p)
  /\ lastErr' = [lastErr EXCEPT ![p] = Errno]
  /\ IF MutexExists
     THEN Goto(p, "tryClose") /\ UNCHANGED tries
     ELSE Goto(p, "init") /\ tries' = [tries EXCEPT ![p] = 0]
  /\ UNCHANGED <<sigR, supervisors, accidents>>

TryMutexFails(p) ==
  /\ rpc[p] = "try"
  /\ CreateMayFail
  /\ lastErr' = [lastErr EXCEPT ![p] = "null"]
  /\ AfterTry(p)
  /\ UNCHANGED <<handle, sigR, supervisors, accidents>>

TryClose(p) ==
  /\ rpc[p] = "tryClose"
  /\ Close(p)
  /\ AfterTry(p)
  /\ UNCHANGED <<lastErr, sigR, supervisors, accidents>>

NeverGivesUp(p) == FALSE

(* Only ERROR_ALREADY_EXISTS on the last attempt ends the process.          *)
GivesUp(p) == lastErr[p] = "exists"

Decide(p) ==
  /\ rpc[p] = "decide"
  /\ IF GivesUp(p) THEN End(p, "exit1")
                   ELSE Goto(p, "init") /\ UNCHANGED <<handle, tries, lastErr, sigR>>
  /\ UNCHANGED <<supervisors, accidents>>

(* Database, clients and smart card context; each failure is fatal.         *)
InitOk(p) ==
  /\ rpc[p] = "init"
  /\ Goto(p, "monitor")
  /\ UNCHANGED <<handle, tries, lastErr, sigR, supervisors, accidents>>

InitFails(p) ==
  /\ rpc[p] = "init"
  /\ End(p, "exit1")
  /\ UNCHANGED <<supervisors, accidents>>

(* MonitorCards returns an error, or the process crashes.                   *)
MonitorFails(p) ==
  /\ rpc[p] = "monitor"
  /\ End(p, "exit1")
  /\ UNCHANGED <<supervisors, accidents>>

(* Ctrl+C: os.Exit(0) once the handler is installed, death before.          *)
Interrupted(p) ==
  /\ p \in sigR
  /\ rpc[p] \in Running
  /\ End(p, IF rpc[p] = "monitor" THEN "exit0" ELSE "exit1")
  /\ UNCHANGED <<supervisors, accidents>>

(* A process that was told to terminate does so a moment later.             *)
Die(p) ==
  /\ rpc[p] = "dying"
  /\ End(p, "exit1")
  /\ UNCHANGED <<supervisors, accidents>>

ReaderStep(p) ==
  \/ CreateMutex(p) \/ CreateMutexFails(p) \/ CloseMutex(p)
  \/ KillOldReaderProcesses(p) \/ TaskkillFails(p)
  \/ TryMutex(p) \/ TryMutexFails(p) \/ TryClose(p) \/ Decide(p)
  \/ InitOk(p) \/ InitFails(p)
  \/ Interrupted(p) \/ Die(p)

-----------------------------------------------------------------------------
(* A supervisor.                                                            *)

GotoS(s, to) == spc' = [spc EXCEPT ![s] = to]

IgnoresStop(s) == IF failed[s] THEN "sleep" ELSE "start"

(* The head of the loop: stopChan first, then the delay after a failure.    *)
LoopHead(s) ==
  IF stop[s] THEN "stopped" ELSE IF failed[s] THEN "sleep" ELSE "start"

Loop(s) ==
  /\ spc[s] = "loop"
  /\ GotoS(s, LoopHead(s))
  /\ UNCHANGED <<readers, child, failed, sig, stop, accidents>>

(* The delay is a plain Sleep: a stop is not seen during it.                *)
SleepEnds(s) ==
  /\ spc[s] = "sleep"
  /\ GotoS(s, "start")
  /\ UNCHANGED <<readers, child, failed, sig, stop, accidents>>

StartReader(s) ==
  /\ spc[s] = "start"
  /\ \E p \in Proc :
       /\ rpc[p] = "none"
       /\ Goto(p, "create")
       /\ child' = [child EXCEPT ![s] = p]
  /\ GotoS(s, "watch")
  /\ UNCHANGED <<handle, tries, lastErr, sigR, failed, sig, stop, accidents>>

StartFails(s) ==
  /\ spc[s] = "start"
  /\ failed' = [failed EXCEPT ![s] = TRUE]
  /\ GotoS(s, "loop")
  /\ UNCHANGED <<readers, child, sig, stop, accidents>>

(* The two branches of the select while a reader runs.                      *)
ChildExited(s) ==
  /\ spc[s] = "watch"
  /\ rpc[child[s]] \in Ended
  /\ failed' = [failed EXCEPT ![s] = rpc[child[s]] = "exit1"]
  /\ Goto(child[s], "none")
  /\ child' = [child EXCEPT ![s] = NoProc]
  /\ GotoS(s, "loop")
  /\ UNCHANGED <<handle, tries, lastErr, sigR, sig, stop, accidents>>

(* A process that nobody waits for any more.                                *)
Left(p) == IF rpc[p] \in Ended THEN "none" ELSE rpc[p]

NotKilled(p) == Left(p)

(* Process.Kill; it fails only on a process that has already ended.         *)
Killed(p) == IF rpc[p] \in Running THEN "dying" ELSE Left(p)

StopChild(s) ==
  /\ spc[s] = "watch"
  /\ stop[s]
  /\ Goto(child[s], Killed(child[s]))
  /\ child' = [child EXCEPT ![s] = NoProc]
  /\ GotoS(s, "stopped")
  /\ UNCHANGED <<handle, tries, lastErr, sigR, failed, sig, stop, accidents>>

(* The goroutine that waits for the signal.                                 *)
CloseStop(s) ==
  /\ spc[s] \in Up
  /\ sig[s]
  /\ ~stop[s]
  /\ stop' = [stop EXCEPT ![s] = TRUE]
  /\ UNCHANGED <<readers, spc, child, failed, sig, accidents>>

SupervisorStep(s) ==
  \/ Loop(s) \/ SleepEnds(s) \/ StartReader(s) \/ StartFails(s)
  \/ ChildExited(s) \/ StopChild(s) \/ CloseStop(s)

-----------------------------------------------------------------------------
(* People and accidents.                                                    *)

StartByHand(p) ==
  /\ accidents < MaxAccidents
  /\ accidents' = accidents + 1
  /\ rpc[p] = "none"
  /\ Goto(p, "create")
  /\ UNCHANGED <<handle, tries, lastErr, sigR, supervisors>>

(* The console sends Ctrl+C to the supervisor and to its reader.            *)
CtrlC(s) ==
  /\ spc[s] \in Up
  /\ ~sig[s]
  /\ sig' = [sig EXCEPT ![s] = TRUE]
  /\ sigR' = sigR \cup { p \in {child[s]} \ {NoProc} : rpc[p] \in Running }
  /\ UNCHANGED <<rpc, handle, tries, lastErr, spc, child, failed, stop, accidents>>

(* A supervisor that crashes leaves its reader running.                     *)
Crash(s) ==
  /\ spc[s] \in Up
  /\ accidents < MaxAccidents
  /\ accidents' = accidents + 1
  /\ GotoS(s, "crashed")
  /\ rpc' = [p \in Proc |-> IF p = child[s] THEN Left(p) ELSE rpc[p]]
  /\ child' = [child EXCEPT ![s] = NoProc]
  /\ UNCHANGED <<handle, tries, lastErr, sigR, failed, sig, stop>>

RunAgain(s) ==
  /\ spc[s] \in {"stopped", "crashed"}
  /\ GotoS(s, "loop")
  /\ failed' = [failed EXCEPT ![s] = FALSE]
  /\ sig' = [sig EXCEPT ![s] = FALSE]
  /\ stop' = [stop EXCEPT ![s] = FALSE]
  /\ UNCHANGED <<readers, child, accidents>>

Next ==
  \/ \E p \in Proc : ReaderStep(p) \/ MonitorFails(p) \/ StartByHand(p)
  \/ \E s \in Supervisor : SupervisorStep(s) \/ CtrlC(s) \/ Crash(s) \/ RunAgain(s)

Spec == Init /\ [][Next]_vars

(* Every process and goroutine runs on; starting a reader, creating the     *)
(* mutex, taskkill and the initialisation do not fail for ever.             *)
Fairness ==
  /\ \A p \in Proc : WF_vars(ReaderStep(p))
  /\ \A s \in Supervisor :
       /\ WF_vars(Loop(s)) /\ WF_vars(SleepEnds(s)) /\ WF_vars(ChildExited(s))
       /\ WF_vars(StopChild(s)) /\ WF_vars(CloseStop(s))
       /\ WF_vars(StartReader(s) \/ StartFails(s)) /\ SF_vars(StartReader(s))
  /\ SF_vars(\E p \in Proc : CreateMutex(p) \/ TryMutex(p))
  /\ SF_vars(\E p \in Proc : KillOldReaderProcesses(p))
  /\ SF_vars(\E p \in Proc : InitOk(p))

FairSpec == Spec /\ Fairness

-----------------------------------------------------------------------------
(* Of two readers past the mutex, whoever starts and ends readers in        *)
(* whatever order, one got there because CreateMutexW returned NULL on the  *)
(* last attempt, which the test after the loop takes for success.           *)
MutexExcludes ==
  \A p, q \in Proc :
    rpc[p] \in Working /\ rpc[q] \in Working /\ p # q
      => "null" \in {lastErr[p], lastErr[q]}

(* A supervisor that stops leaves no running reader of its own: also when   *)
(* the stop comes during the delay and a reader is started after it.        *)
StopLeavesNoReader ==
  [][\A s \in Supervisor :
       spc[s] # "stopped" /\ spc'[s] = "stopped" /\ child[s] # NoProc
         => rpc'[child[s]] \notin Running]_vars

(* A supervisor gets a reader of its own working, whatever it finds: an old  *)
(* reader that a crash left behind, or one started by hand, unless that is  *)
(* one taskkill does not know by its name.  The first reader it starts ends *)
(* itself along with the old one; a later one finds the mutex free.         *)
SupervisedReaderWorks ==
  \A s \in Supervisor :
    (spc[s] \in Up /\ ~sig[s])
      ~> (\/ child[s] # NoProc /\ rpc[child[s]] = "monitor"
          \/ sig[s] \/ spc[s] = "crashed"
          \/ \E p \in Proc \ Named : handle[p])

(* Ctrl+C ends the supervisor, even when its reader's normal exit wins the   *)
(* race and another reader is started first.                                 *)
CtrlCStops == \A s \in Supervisor : sig[s] ~> spc[s] \in {"stopped", "crashed"}

(* What the takeover is for: while old readers are being ended, a reader is *)
(* there to replace them.                                                    *)
TakeoverLeavesAReader ==
  (\E p \in Proc : rpc[p] = "dying") => \E q \in Proc : rpc[q] \in Running
=============================================================================

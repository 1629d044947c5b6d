--------------------------- MODULE TakeoverProofs ---------------------------
(***************************************************************************)
(* What the mutex and the supervisor guarantee whatever the number of      *)
(* processes, attempts and crashes.                                        *)
(*                                                                         *)
(* MutexExcludes is not inductive: that two readers past the mutex differ  *)
(* in their last CreateMutexW follows from who holds a handle, and that a  *)
(* reader without one saw NULL from what lastErr is before "decide".       *)
(***************************************************************************)
EXTENDS Takeover, TLAPS

(* A reader past the mutex holds a handle or got there on a NULL.           *)
HoldsOrNull ==
  \A p \in Proc : rpc[p] \in Working /\ ~handle[p] => lastErr[p] = "null"

(* One reader at most is past the mutex with a handle.                      *)
OneHolder ==
  \A p, q \in Proc :
    rpc[p] \in Working /\ handle[p] /\ rpc[q] \in Working /\ handle[q] => p = q

(* A reader between two attempts has no handle; the error that the test     *)
(* after the loop sees is the last attempt's, which did not get the mutex.  *)
LastAttemptFailed ==
  \A p \in Proc :
    /\ rpc[p] = "tryClose" => lastErr[p] = "exists"
    /\ rpc[p] = "decide" => lastErr[p] \in {"exists", "null"}
    /\ rpc[p] \in {"kill", "try", "decide"} => ~handle[p]

(* A supervisor has a child exactly while it waits for one.                 *)
ChildWhileWatching ==
  \A s \in Supervisor :
    IF spc[s] = "watch" THEN child[s] \in Proc ELSE child[s] = NoProc

TakeoverInv ==
  TypeOK /\ HoldsOrNull /\ OneHolder /\ LastAttemptFailed /\ ChildWhileWatching

-----------------------------------------------------------------------------
(* No process runs and no supervisor waits at first.                        *)
LEMMA TakeoverInit == Init => TakeoverInv
<1> SUFFICES ASSUME Init PROVE TakeoverInv
  OBVIOUS
<1>1. 0 \in 0 .. MaxTries - 1 /\ 0 \in 0 .. MaxAccidents
  BY TakeoverAssumption
<1>2. TypeOK
  BY <1>1 DEF Init, TypeOK, ReaderPCs, Running, Ended, SupervisorPCs, Up
<1> QED
  BY <1>2 DEF Init, TakeoverInv, HoldsOrNull, OneHolder, LastAttemptFailed,
     ChildWhileWatching, Working

(* The counter of attempts stays below its bound.                           *)
LEMMA NextTry ==
  ASSUME NEW p \in Proc, TypeOK, TriesLeft(p)
  PROVE  tries[p] + 1 \in 0 .. MaxTries - 1
  BY TakeoverAssumption DEF TypeOK, TriesLeft

(* The end of a process keeps the types of what it changes.                 *)
LEMMA EndType ==
  ASSUME NEW p \in Proc, NEW how \in Ended, TypeOK, End(p, how)
  PROVE  /\ rpc' \in [Proc -> ReaderPCs]
         /\ handle' \in [Proc -> BOOLEAN]
         /\ tries' \in [Proc -> 0 .. MaxTries - 1]
         /\ lastErr' \in [Proc -> {"none", "exists", "null"}]
         /\ sigR' \subseteq Proc
<1>1. 0 \in 0 .. MaxTries - 1
  BY TakeoverAssumption
<1> QED
  BY <1>1 DEF End, Goto, Close, TypeOK, ReaderPCs

(* It disturbs nothing but the process itself.                              *)
LEMMA EndKeeps ==
  ASSUME NEW p \in Proc, NEW how \in Ended, TakeoverInv, End(p, how)
  PROVE  HoldsOrNull' /\ OneHolder' /\ LastAttemptFailed'
<1>1. /\ rpc' = [rpc EXCEPT ![p] = IF Waited(p) THEN how ELSE "none"]
      /\ \A q \in Proc : q # p => /\ rpc'[q] = rpc[q]
                                  /\ handle'[q] = handle[q]
                                  /\ lastErr'[q] = lastErr[q]
  BY DEF End, Goto, Close, TakeoverInv, TypeOK
<1>2. rpc'[p] \in Ended \cup {"none"}
  BY <1>1 DEF TakeoverInv, TypeOK
<1>3. rpc'[p] \notin Working /\ rpc'[p] \notin {"kill", "try", "tryClose", "decide"}
  BY <1>2 DEF Ended, Working
<1> QED
  BY <1>1, <1>3 DEF TakeoverInv, HoldsOrNull, OneHolder, LastAttemptFailed

-----------------------------------------------------------------------------
(* A step of a reader keeps the invariant.                                  *)
LEMMA ReaderKeeps ==
  ASSUME TakeoverInv, NEW p \in Proc, ReaderStep(p) \/ MonitorFails(p)
  PROVE  TakeoverInv'
<1> USE DEF TakeoverInv
<1>a. /\ UNCHANGED <<supervisors, accidents>>
      /\ ChildWhileWatching'
  BY DEF ReaderStep, MonitorFails, CreateMutex, CreateMutexFails, CloseMutex,
     KillOldReaderProcesses, TaskkillFails, Kill, TryMutex, TryMutexFails, TryClose,
     Decide, InitOk, InitFails, Interrupted, Die, supervisors, ChildWhileWatching
<1>b. ASSUME /\ rpc' \in [Proc -> ReaderPCs]
             /\ handle' \in [Proc -> BOOLEAN]
             /\ tries' \in [Proc -> 0 .. MaxTries - 1]
             /\ lastErr' \in [Proc -> {"none", "exists", "null"}]
             /\ sigR' \subseteq Proc
      PROVE  TypeOK'
  BY <1>a, <1>b DEF TypeOK, supervisors
<1>c. \A how \in Ended : End(p, how) => TakeoverInv'
  BY <1>a, <1>b, EndType, EndKeeps
<1>d. "exit0" \in Ended /\ "exit1" \in Ended /\ 0 \in 0 .. MaxTries - 1
  BY TakeoverAssumption DEF Ended
<1>e. Errno \in {"none", "exists", "null"}
  BY DEF Errno
<1>1. CASE CreateMutex(p)
  <2> USE <1>1 DEF CreateMutex, Open, Goto
  <2>1. TypeOK'
    BY <1>b, <1>e DEF TypeOK, ReaderPCs, Running
  <2>2. rpc'[p] = IF MutexExists THEN "close" ELSE "init"
    BY DEF TypeOK
  <2>3. \A q \in Proc : q # p => /\ rpc'[q] = rpc[q]
                                 /\ handle'[q] = handle[q]
                                 /\ lastErr'[q] = lastErr[q]
    BY DEF TypeOK
  <2>4. handle'[p] = TRUE
    BY DEF TypeOK
  <2>5. HoldsOrNull' /\ LastAttemptFailed'
    BY <2>2, <2>3, <2>4 DEF HoldsOrNull, LastAttemptFailed
  <2>6. OneHolder'
    BY <2>2, <2>3 DEF OneHolder, MutexExists, Working
  <2> QED
    BY <1>a, <2>1, <2>5, <2>6
<1>2. CASE CreateMutexFails(p)
  BY <1>2, <1>c, <1>d DEF CreateMutexFails
<1>3. CASE CloseMutex(p)
  <2> USE <1>3 DEF CloseMutex, Close, Goto
  <2>1. TypeOK'
    BY <1>b DEF TypeOK, ReaderPCs, Running
  <2>2. rpc'[p] = "kill" /\ lastErr' = lastErr /\ ~handle'[p]
    BY DEF TypeOK
  <2>3. \A q \in Proc : q # p => rpc'[q] = rpc[q] /\ handle'[q] = handle[q]
    BY DEF TypeOK
  <2> QED
    BY <1>a, <2>1, <2>2, <2>3
    DEF HoldsOrNull, LastAttemptFailed, OneHolder, Working
<1>4. ASSUME NEW killed, Kill(p, killed) PROVE TakeoverInv'
  <2> USE <1>4 DEF Kill
  <2>1. TypeOK'
    BY <1>b DEF TypeOK, ReaderPCs, Running
  <2>2. \A q \in Proc : rpc'[q] \in {rpc[q], "dying"} \/ (q = p /\ rpc'[q] = "try")
    BY DEF TypeOK
  <2>3. handle' = handle /\ lastErr' = lastErr
    OBVIOUS
  <2> QED
    BY <1>a, <2>1, <2>2, <2>3
    DEF HoldsOrNull, LastAttemptFailed, OneHolder, Working
<1>5. CASE TryMutex(p)
  <2> USE <1>5 DEF TryMutex, Open, Goto
  <2>1. TypeOK'
    BY <1>b, <1>d, <1>e DEF TypeOK, ReaderPCs, Running
  <2>2. rpc'[p] = IF MutexExists THEN "tryClose" ELSE "init"
    BY DEF TypeOK
  <2>3. \A q \in Proc : q # p => /\ rpc'[q] = rpc[q]
                                 /\ handle'[q] = handle[q]
                                 /\ lastErr'[q] = lastErr[q]
    BY DEF TypeOK
  <2>4. handle'[p] = TRUE /\ (MutexExists => lastErr'[p] = "exists")
    BY DEF TypeOK, Errno
  <2>5. HoldsOrNull' /\ LastAttemptFailed'
    BY <2>2, <2>3, <2>4 DEF HoldsOrNull, LastAttemptFailed
  <2>6. OneHolder'
    BY <2>2, <2>3 DEF OneHolder, MutexExists, Working
  <2> QED
    BY <1>a, <2>1, <2>5, <2>6
<1>6. CASE TryMutexFails(p)
  <2> USE <1>6 DEF TryMutexFails, AfterTry, Goto
  <2>1. TypeOK'
    BY <1>b, <1>d, NextTry DEF TypeOK, ReaderPCs, Running
  <2>2. rpc'[p] \in {"try", "decide"} /\ lastErr'[p] = "null" /\ handle' = handle
    BY DEF TypeOK
  <2>3. \A q \in Proc : q # p => rpc'[q] = rpc[q] /\ lastErr'[q] = lastErr[q]
    BY DEF TypeOK
  <2> QED
    BY <1>a, <2>1, <2>2, <2>3
    DEF HoldsOrNull, LastAttemptFailed, OneHolder, Working
<1>7. CASE TryClose(p)
  <2> USE <1>7 DEF TryClose, AfterTry, Close, Goto
  <2>1. TypeOK'
    BY <1>b, <1>d, NextTry DEF TypeOK, ReaderPCs, Running
  <2>2. /\ rpc'[p] \in {"try", "decide"} /\ ~handle'[p]
        /\ lastErr' = lastErr /\ lastErr[p] = "exists"
    BY DEF TypeOK, LastAttemptFailed
  <2>3. \A q \in Proc : q # p => rpc'[q] = rpc[q] /\ handle'[q] = handle[q]
    BY DEF TypeOK
  <2> QED
    BY <1>a, <2>1, <2>2, <2>3
    DEF HoldsOrNull, LastAttemptFailed, OneHolder, Working
<1>8. CASE Decide(p)
  <2>1. CASE GivesUp(p)
    BY <1>8, <2>1, <1>c, <1>d DEF Decide
  <2>2. CASE ~GivesUp(p)
    <3> USE <1>8, <2>2 DEF Decide, Goto
    <3>1. TypeOK'
      BY <1>b DEF TypeOK, ReaderPCs, Running
    <3>2. lastErr[p] = "null"
      BY DEF LastAttemptFailed, GivesUp
    <3>3. rpc'[p] = "init" /\ lastErr' = lastErr /\ handle' = handle
      BY DEF TypeOK
    <3>4. \A q \in Proc : q # p => rpc'[q] = rpc[q]
      BY DEF TypeOK
    <3> QED
      BY <1>a, <3>1, <3>2, <3>3, <3>4
      DEF HoldsOrNull, LastAttemptFailed, OneHolder, Working
  <2> QED
    BY <2>1, <2>2
<1>9. CASE InitOk(p)
  <2> USE <1>9 DEF InitOk, Goto
  <2>1. TypeOK'
    BY <1>b DEF TypeOK, ReaderPCs, Running
  <2>2. /\ rpc[p] = "init" /\ rpc'[p] = "monitor"
        /\ \A q \in Proc : q # p => rpc'[q] = rpc[q]
    BY DEF TypeOK
  <2> QED
    BY <1>a, <2>1, <2>2
    DEF HoldsOrNull, LastAttemptFailed, OneHolder, Working
<1>10. CASE InitFails(p)
  BY <1>10, <1>c, <1>d DEF InitFails
<1>11. CASE MonitorFails(p)
  BY <1>11, <1>c, <1>d DEF MonitorFails
<1>12. CASE Interrupted(p)
  <2>1. (IF rpc[p] = "monitor" THEN "exit0" ELSE "exit1") \in Ended
    BY <1>d
  <2> QED
    BY <1>12, <2>1, <1>c DEF Interrupted
<1>13. CASE Die(p)
  BY <1>13, <1>c, <1>d DEF Die
<1> QED
  BY <1>1, <1>2, <1>3, <1>4, <1>5, <1>6, <1>7, <1>8, <1>9, <1>10, <1>11, <1>12,
     <1>13 DEF ReaderStep, KillOldReaderProcesses, TaskkillFails

(* So does a step of a supervisor, and what people and accidents do.        *)
LEMMA SupervisorKeeps ==
  ASSUME TakeoverInv, NEW s \in Supervisor,
         SupervisorStep(s) \/ CtrlC(s) \/ Crash(s) \/ RunAgain(s)
  PROVE  TakeoverInv'
<1> USE DEF TakeoverInv
<1>1. /\ UNCHANGED <<handle, tries, lastErr>>
      /\ spc' \in [Supervisor -> SupervisorPCs]
      /\ child' \in [Supervisor -> Proc \cup {NoProc}]
      /\ failed' \in [Supervisor -> BOOLEAN]
      /\ sig' \in [Supervisor -> BOOLEAN]
      /\ stop' \in [Supervisor -> BOOLEAN]
      /\ sigR' \subseteq Proc
      /\ accidents' \in 0 .. MaxAccidents
  <2> USE DEF TypeOK, GotoS, SupervisorPCs, Up, readers
  <2>1. CASE Loop(s)
    BY <2>1 DEF Loop, LoopHead
  <2>2. CASE SleepEnds(s)
    BY <2>2 DEF SleepEnds
  <2>3. CASE StartReader(s)
    BY <2>3 DEF StartReader
  <2>4. CASE StartFails(s)
    BY <2>4 DEF StartFails
  <2>5. CASE ChildExited(s)
    <3>1. (rpc[child[s]] = "exit1") \in BOOLEAN
      BY Zenon
    <3> QED
      BY <2>5, <3>1 DEF ChildExited
  <2>6. CASE StopChild(s)
    BY <2>6 DEF StopChild
  <2>7. CASE CloseStop(s)
    BY <2>7 DEF CloseStop
  <2>8. CASE CtrlC(s)
    BY <2>8 DEF CtrlC, ChildWhileWatching
  <2>9. CASE Crash(s)
    BY <2>9, TakeoverAssumption DEF Crash
  <2>10. CASE RunAgain(s)
    BY <2>10 DEF RunAgain
  <2> QED
    BY <2>1, <2>2, <2>3, <2>4, <2>5, <2>6, <2>7, <2>8, <2>9, <2>10
    DEF SupervisorStep
<1>2. ChildWhileWatching'
  BY DEF SupervisorStep, Loop, LoopHead, SleepEnds, StartReader, StartFails,
     ChildExited, StopChild, CloseStop, CtrlC, Crash, RunAgain, GotoS, TypeOK,
     ChildWhileWatching, Up, readers
<1>3. \A p \in Proc : rpc'[p] \in {rpc[p], "create", "none", "dying"}
  BY DEF SupervisorStep, Loop, SleepEnds, StartReader, StartFails, ChildExited,
     StopChild, Killed, Left, CloseStop, CtrlC, Crash, RunAgain, Goto, TypeOK, readers,
     ChildWhileWatching
<1>4. rpc' \in [Proc -> ReaderPCs]
  BY <1>3 DEF SupervisorStep, Loop, SleepEnds, StartReader, StartFails, ChildExited,
     StopChild, Killed, Left, CloseStop, CtrlC, Crash, RunAgain, Goto, TypeOK, readers,
     ReaderPCs, Running
<1>5. TypeOK'
  BY <1>1, <1>4 DEF TypeOK
<1>6. HoldsOrNull' /\ OneHolder' /\ LastAttemptFailed'
  BY <1>1, <1>3 DEF HoldsOrNull, OneHolder, LastAttemptFailed, Working
<1> QED
  BY <1>2, <1>5, <1>6

(* So does a start by hand.                                                 *)
LEMMA HandKeeps ==
  ASSUME TakeoverInv, NEW p \in Proc, StartByHand(p)
  PROVE  TakeoverInv'
<1> USE DEF TakeoverInv
<1>1. /\ UNCHANGED <<handle, tries, lastErr, sigR, supervisors>>
      /\ accidents' \in 0 .. MaxAccidents
  BY TakeoverAssumption DEF StartByHand, TypeOK
<1>2. \A q \in Proc : rpc'[q] \in {rpc[q], "create"}
  BY DEF StartByHand, Goto, TypeOK
<1>3. rpc' \in [Proc -> ReaderPCs]
  BY DEF StartByHand, Goto, TypeOK, ReaderPCs, Running
<1>4. TypeOK'
  BY <1>1, <1>3 DEF TypeOK, supervisors
<1>5. ChildWhileWatching'
  BY <1>1 DEF ChildWhileWatching, supervisors
<1>6. HoldsOrNull' /\ OneHolder' /\ LastAttemptFailed'
  BY <1>1, <1>2 DEF HoldsOrNull, OneHolder, LastAttemptFailed, Working
<1> QED
  BY <1>4, <1>5, <1>6

(* Whatever readers, supervisors and people do, the invariant holds.        *)
THEOREM TakeoverInvariant == Spec => []TakeoverInv
<1>1. TakeoverInv /\ [Next]_vars => TakeoverInv'
  <2> SUFFICES ASSUME TakeoverInv, [Next]_vars PROVE TakeoverInv'
    OBVIOUS
  <2>1. CASE UNCHANGED vars
    BY <2>1 DEF TakeoverInv, TypeOK, HoldsOrNull, OneHolder, LastAttemptFailed,
       ChildWhileWatching, vars, readers, supervisors
  <2>2. CASE Next
    BY <2>2, ReaderKeeps, SupervisorKeeps, HandKeeps DEF Next
  <2> QED
    BY <2>1, <2>2
<1> QED
  BY <1>1, TakeoverInit, PTL DEF Spec

-----------------------------------------------------------------------------
(* Every variable keeps its type: the loop over CreateMutexW never makes    *)
(* more than MaxTries attempts.                                             *)
THEOREM TakeoverTypes == Spec => []TypeOK
  BY TakeoverInvariant, PTL DEF TakeoverInv

(* Two readers are past the mutex only after a CreateMutexW that returned   *)
(* NULL on the last attempt.                                                *)
THEOREM MutexExcludesReaders == Spec => []MutexExcludes
<1>1. TakeoverInv => MutexExcludes
  <2> SUFFICES ASSUME TakeoverInv, NEW p \in Proc, NEW q \in Proc,
                      rpc[p] \in Working, rpc[q] \in Working, p # q
               PROVE  "null" \in {lastErr[p], lastErr[q]}
    BY DEF MutexExcludes
  <2>1. ~handle[p] \/ ~handle[q]
    BY DEF TakeoverInv, OneHolder
  <2> QED
    BY <2>1 DEF TakeoverInv, HoldsOrNull
<1> QED
  BY <1>1, TakeoverInvariant, PTL

(* Where CreateMutexW does not return NULL, no reader sees it in lastErr.   *)
NoNull == CreateMayFail = FALSE => \A p \in Proc : lastErr[p] # "null"

(* The second start that the first lines of main guard against: at most one *)
(* reader is past the mutex.                                                *)
OneReaderWorks ==
  \A p, q \in Proc : rpc[p] \in Working /\ rpc[q] \in Working => p = q

(* So the check for a second start holds as long as the system can create   *)
(* the mutex.                                                               *)
THEOREM OneReaderAtATime == CreateMayFail = FALSE => (Spec => []OneReaderWorks)
<1> SUFFICES ASSUME CreateMayFail = FALSE PROVE Spec => []OneReaderWorks
  OBVIOUS
<1>1. Init => NoNull
  BY DEF Init, NoNull
<1>2. TypeOK /\ NoNull /\ [Next]_vars => NoNull'
  <2> SUFFICES ASSUME TypeOK, NoNull, [Next]_vars, CreateMayFail = FALSE,
                      NEW q \in Proc
               PROVE  lastErr'[q] # "null"
    BY DEF NoNull
  <2> USE DEF TypeOK, NoNull
  <2>1. CASE UNCHANGED vars
    BY <2>1 DEF vars, readers
  <2>2. ASSUME NEW p \in Proc, ReaderStep(p) \/ MonitorFails(p)
        PROVE  lastErr'[q] # "null"
    BY <2>2 DEF ReaderStep, MonitorFails, CreateMutex, CreateMutexFails, CloseMutex,
       KillOldReaderProcesses, TaskkillFails, Kill, TryMutex, TryMutexFails, TryClose,
       Decide, InitOk, InitFails, Interrupted, Die, End, Errno
  <2>3. ASSUME NEW p \in Proc, StartByHand(p)
        PROVE  lastErr'[q] # "null"
    BY <2>3 DEF StartByHand
  <2>4. ASSUME NEW s \in Supervisor,
               SupervisorStep(s) \/ CtrlC(s) \/ Crash(s) \/ RunAgain(s)
        PROVE  lastErr'[q] # "null"
    BY <2>4 DEF SupervisorStep, Loop, SleepEnds, StartReader, StartFails, ChildExited,
       StopChild, CloseStop, CtrlC, Crash, RunAgain, readers
  <2> QED
    BY <2>1, <2>2, <2>3, <2>4 DEF Next
<1>3. Spec => []NoNull
  BY <1>1, <1>2, TakeoverTypes, PTL DEF Spec
<1>4. NoNull /\ MutexExcludes => OneReaderWorks
  BY DEF NoNull, MutexExcludes, OneReaderWorks
<1> QED
  BY <1>3, <1>4, MutexExcludesReaders, PTL

(* A reader.exe is among those its own taskkill ends, if that does what it  *)
(* is to do: it never comes to the loop of attempts, and works only when    *)
(* its first CreateMutexW made the mutex, to which it then has a handle.    *)
NamedMadeTheMutex ==
  \A p \in Named :
    /\ rpc[p] \notin {"try", "tryClose", "decide"}
    /\ rpc[p] \in Working => handle[p]

LEMMA NamedStep ==
  TaskkillMayFail = FALSE /\ TypeOK /\ NamedMadeTheMutex /\ [Next]_vars
    => NamedMadeTheMutex'
<1> SUFFICES ASSUME TaskkillMayFail = FALSE, TypeOK, NamedMadeTheMutex, [Next]_vars,
                    NEW q \in Named
             PROVE  /\ rpc'[q] \notin {"try", "tryClose", "decide"}
                    /\ rpc'[q] \in Working => handle'[q]
  BY DEF NamedMadeTheMutex
<1>0. /\ q \in Proc /\ rpc[q] \notin {"try", "tryClose", "decide"}
      /\ rpc[q] \in Working => handle[q]
  BY TakeoverAssumption DEF NamedMadeTheMutex
<1> USE <1>0 DEF TypeOK, Working
<1>1. CASE UNCHANGED vars
  BY <1>1 DEF vars, readers
<1>2. ASSUME NEW p \in Proc, NEW how \in Ended, End(p, how)
      PROVE  /\ rpc'[q] \notin {"try", "tryClose", "decide"}
             /\ rpc'[q] \in Working => handle'[q]
  BY <1>2 DEF End, Goto, Close, Ended
<1>3. ASSUME NEW p \in Proc, KillOldReaderProcesses(p)
      PROVE  /\ rpc'[q] \notin {"try", "tryClose", "decide"}
             /\ rpc'[q] \in Working => handle'[q]
  BY <1>3 DEF KillOldReaderProcesses, Kill, Victims, Running
<1>4. ASSUME NEW p \in Proc, CreateMutex(p) \/ CloseMutex(p) \/ InitOk(p)
      PROVE  /\ rpc'[q] \notin {"try", "tryClose", "decide"}
             /\ rpc'[q] \in Working => handle'[q]
  BY <1>4 DEF CreateMutex, CloseMutex, InitOk, Goto, Open, Close
<1>5. ASSUME NEW p \in Proc,
             TryMutex(p) \/ TryMutexFails(p) \/ TryClose(p) \/ (Decide(p) /\ ~GivesUp(p))
      PROVE  /\ rpc'[q] \notin {"try", "tryClose", "decide"}
             /\ rpc'[q] \in Working => handle'[q]
  <2>1. p # q
    BY <1>5 DEF TryMutex, TryMutexFails, TryClose, Decide
  <2> QED
    BY <1>5, <2>1
    DEF TryMutex, TryMutexFails, TryClose, Decide, AfterTry, Goto, Open, Close
<1>6. ASSUME NEW p \in Proc, StartByHand(p)
      PROVE  /\ rpc'[q] \notin {"try", "tryClose", "decide"}
             /\ rpc'[q] \in Working => handle'[q]
  BY <1>6 DEF StartByHand, Goto
<1>7. ASSUME NEW s \in Supervisor, SupervisorStep(s) \/ CtrlC(s) \/ Crash(s) \/ RunAgain(s)
      PROVE  /\ rpc'[q] \notin {"try", "tryClose", "decide"}
             /\ rpc'[q] \in Working => handle'[q]
  BY <1>7 DEF SupervisorStep, Loop, SleepEnds, StartReader, StartFails, ChildExited,
     StopChild, Killed, Left, CloseStop, CtrlC, Crash, RunAgain, Goto, readers
<1> QED
  BY <1>1, <1>2, <1>3, <1>4, <1>5, <1>6, <1>7
  DEF Next, ReaderStep, TaskkillFails, MonitorFails, CreateMutexFails, Decide, InitFails,
      Interrupted, Die, Ended

(* As long as taskkill does not fail, no reader.exe makes an attempt after  *)
(* it: the loop of attempts serves readers of another name, and those that  *)
(* a failed taskkill leaves alive.                                          *)
THEOREM NamedReadersDoNotRetry ==
  TaskkillMayFail = FALSE => (Spec => []NamedMadeTheMutex)
<1> SUFFICES ASSUME TaskkillMayFail = FALSE PROVE Spec => []NamedMadeTheMutex
  OBVIOUS
<1>1. Init => NamedMadeTheMutex
  BY TakeoverAssumption DEF Init, NamedMadeTheMutex, Working
<1>2. TypeOK /\ NamedMadeTheMutex /\ [Next]_vars => NamedMadeTheMutex'
  BY NamedStep
<1> QED
  BY <1>1, <1>2, TakeoverTypes, PTL DEF Spec

(* So where taskkill does not fail and every reader is a reader.exe, one at *)
(* most works at a time even when CreateMutexW fails: two at once need the  *)
(* NULL that the test after the loop takes for success, and beside it a     *)
(* taskkill that failed or a reader it does not know by its name.           *)
THEOREM NamedReadersExclude ==
  TaskkillMayFail = FALSE /\ Named = Proc => (Spec => []OneReaderWorks)
<1> SUFFICES ASSUME TaskkillMayFail = FALSE, Named = Proc PROVE Spec => []OneReaderWorks
  OBVIOUS
<1>1. NamedMadeTheMutex /\ TakeoverInv => OneReaderWorks
  BY DEF NamedMadeTheMutex, TakeoverInv, OneHolder, OneReaderWorks
<1>2. Spec => []NamedMadeTheMutex
  BY NamedReadersDoNotRetry
<1> QED
  BY <1>1, <1>2, TakeoverInvariant, PTL

(* A supervisor that stops has ended the reader it was waiting for; one     *)
(* that stops at the head of its loop waits for none.                       *)
THEOREM StopEndsTheChild == Spec => StopLeavesNoReader
<1>1. TakeoverInv /\ [Next]_vars =>
        [\A s \in Supervisor :
           spc[s] # "stopped" /\ spc'[s] = "stopped" /\ child[s] # NoProc
             => rpc'[child[s]] \notin Running]_vars
  <2> SUFFICES ASSUME TakeoverInv, Next, NEW s \in Supervisor,
                      spc[s] # "stopped", spc'[s] = "stopped", child[s] # NoProc
               PROVE  rpc'[child[s]] \notin Running
    OBVIOUS
  <2>1. spc[s] = "watch" /\ child[s] \in Proc
    BY DEF TakeoverInv, ChildWhileWatching
  <2>2. PICK t \in Supervisor : SupervisorStep(t) \/ CtrlC(t) \/ Crash(t) \/ RunAgain(t)
    BY <2>1 DEF Next, ReaderStep, MonitorFails, CreateMutex, CreateMutexFails,
       CloseMutex, KillOldReaderProcesses, TaskkillFails, Kill, TryMutex,
       TryMutexFails, TryClose, Decide, InitOk, InitFails, Interrupted, Die,
       StartByHand, supervisors
  <2>3. StopChild(s)
    BY <2>1, <2>2 DEF SupervisorStep, Loop, SleepEnds, StartReader, StartFails,
       ChildExited, StopChild, CloseStop, CtrlC, Crash, RunAgain, GotoS,
       TakeoverInv, TypeOK
  <2>4. rpc'[child[s]] = Killed(child[s])
    BY <2>1, <2>3 DEF StopChild, Goto, TakeoverInv, TypeOK
  <2> QED
    BY <2>4 DEF Killed, Left, Running, Ended
<1> QED
  BY <1>1, TakeoverInvariant, PTL DEF Spec, StopLeavesNoReader
=============================================================================

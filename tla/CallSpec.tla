------------------------------ MODULE CallSpec ------------------------------
(***************************************************************************)
(* What the caller of a unary remote call with a deadline may rely on.  The *)
(* method runs at most once, and has run to its end when the call returns   *)
(* without error.  A call that returned an error may have run, wholly or in *)
(* part, not at all, or may still run later.  Rpc implements this.          *)
(***************************************************************************)
CONSTANT Call

VARIABLES
  answer,   \* what the caller has: "idle", "open", "ok" or "error"
  work      \* how far the method got: "none", "begun" or "done"

vars == <<answer, work>>

Init ==
  /\ answer = [c \in Call |-> "idle"]
  /\ work = [c \in Call |-> "none"]

Open(c) ==
  /\ answer[c] = "idle"
  /\ answer' = [answer EXCEPT ![c] = "open"]
  /\ UNCHANGED work

(* Also after the caller has given up.                                      *)
Begin(c) ==
  /\ answer[c] \in {"open", "error"}
  /\ work[c] = "none"
  /\ work' = [work EXCEPT ![c] = "begun"]
  /\ UNCHANGED answer

End(c) ==
  /\ work[c] = "begun"
  /\ work' = [work EXCEPT ![c] = "done"]
  /\ UNCHANGED answer

ReturnOk(c) ==
  /\ answer[c] = "open"
  /\ work[c] = "done"
  /\ answer' = [answer EXCEPT ![c] = "ok"]
  /\ UNCHANGED work

ReturnError(c) ==
  /\ answer[c] = "open"
  /\ answer' = [answer EXCEPT ![c] = "error"]
  /\ UNCHANGED work

Next ==
  \E c \in Call :
    Open(c) \/ Begin(c) \/ End(c) \/ ReturnOk(c) \/ ReturnError(c)

Spec == Init /\ [][Next]_vars

(* Every call returns.                                                      *)
FairSpec ==
  /\ Spec
  /\ \A c \in Call : WF_vars(ReturnOk(c) \/ ReturnError(c))
=============================================================================

----------------------------- MODULE RpcProofs ------------------------------
(***************************************************************************)
(* What calls through generated stubs keep true, for every table of stubs  *)
(* and every number of calls.  The modules of programs that call or serve  *)
(* show that their steps are steps of RpcNext, or leave the calls alone,   *)
(* and take these facts over.                                              *)
(***************************************************************************)
EXTENDS Rpc, TLAPS

Served == {"running", "broken", "done"}

(* A call is on its way once it is made; it is answered without error only  *)
(* when its method is done; what ran is what the server's table gives.      *)
Progress(c) ==
  /\ answer[c] = "idle" <=> at[c] = "none"
  /\ answer[c] = "ok" => at[c] = "done"
  /\ at[c] # "none" => called[c] \in Method
  /\ IF at[c] \in Served THEN Implemented(c) /\ ran[c] = Serves(c)
     ELSE ran[c] = NoMethod

(* The inductive invariant.                                                 *)
RpcInv == RpcTypeOK /\ \A c \in Call : Progress(c)

(* The server's table, for what the client sends, has the method called and *)
(* the type of its message.                                                 *)
StubsAgree ==
  \A cs, ss \in Stack : \A m \in Method :
    LET s == ClientStub[cs][m] IN
      s.path \in DOMAIN ServerStub[ss] =>
        /\ ServerStub[ss][s.path].method = m
        /\ ServerStub[ss][s.path].takes = s.sends

-----------------------------------------------------------------------------
(* The invariant holds before any call is made.                             *)
LEMMA RpcInvInit == RpcInit /\ cstack \in Stack /\ sstack \in Stack => RpcInv
  BY DEF RpcInit, RpcInv, RpcTypeOK, Place, Progress, Served

(* What is known of a call the step does not touch stays known.             *)
LEMMA ProgressOfOthers ==
  ASSUME NEW c, Progress(c), UNCHANGED <<cstack, sstack>>,
         called'[c] = called[c], answer'[c] = answer[c], at'[c] = at[c],
         ran'[c] = ran[c]
  PROVE  Progress(c)'
  BY DEF Progress, Implemented, Known, Serves, Sent

(* A step of a call whose method stays the same keeps what the tables give. *)
LEMMA SameTables ==
  ASSUME NEW c, UNCHANGED <<cstack, sstack>>, called'[c] = called[c]
  PROVE  /\ Implemented(c)' <=> Implemented(c)
         /\ Serves(c)' = Serves(c)
  BY DEF Implemented, Known, Serves, Sent

(* Every step of a call, and the end of a server, keep the invariant.       *)
LEMMA RpcStep == RpcInv /\ [RpcNext]_rpcVars => RpcInv'
<1> SUFFICES ASSUME RpcInv, [RpcNext]_rpcVars PROVE RpcInv'
  OBVIOUS
<1> USE DEF RpcInv
<1>1. ASSUME NEW c \in Call, NEW m \in Method, Invoke(c, m) PROVE RpcInv'
  <2>1. RpcTypeOK'
    BY <1>1 DEF Invoke, RpcTypeOK, Place
  <2>2. Progress(c)'
    <3>1. ran'[c] = NoMethod
      BY <1>1 DEF Invoke, Progress, Served
    <3>2. called'[c] = m /\ answer'[c] = "open" /\ at'[c] = "sent"
      BY <1>1 DEF Invoke, RpcTypeOK
    <3> QED
      BY <3>1, <3>2 DEF Progress, Served
  <2>3. ASSUME NEW d \in Call, d # c PROVE Progress(d)'
    BY <1>1, <2>3, ProgressOfOthers DEF Invoke, RpcTypeOK
  <2> QED
    BY <2>1, <2>2, <2>3
<1>2. ASSUME NEW c \in Call, ReturnOk(c) \/ ReturnError(c) PROVE RpcInv'
  <2>1. PICK a \in {"ok", "error"} : Return(c, a) /\ (a = "ok" => at[c] = "done")
    BY <1>2 DEF ReturnOk, ReturnError
  <2>2. RpcTypeOK'
    BY <2>1 DEF Return, RpcTypeOK
  <2>3. Progress(c)'
    <3>1. answer[c] = "open" /\ answer'[c] = a /\ UNCHANGED <<cstack, sstack, called, at, ran>>
      BY <2>1 DEF Return, RpcTypeOK
    <3> QED
      BY <2>1, <3>1, SameTables DEF Progress
  <2>4. ASSUME NEW d \in Call, d # c PROVE Progress(d)'
    BY <2>1, <2>4, ProgressOfOthers DEF Return, RpcTypeOK
  <2> QED
    BY <2>2, <2>3, <2>4
<1>3. ASSUME NEW c \in Call, NotServed(c) \/ Begin(c) \/ End(c) \/ Break(c)
      PROVE  RpcInv'
  <2>1. PICK from, to \in Place :
          /\ Move(c, from, to)
          /\ \/ from = "sent" /\ to = "dropped" /\ UNCHANGED ran
             \/ /\ from = "sent" /\ to = "running"
                /\ Implemented(c) /\ ran' = [ran EXCEPT ![c] = Serves(c)]
             \/ from = "running" /\ to \in {"done", "broken"} /\ UNCHANGED ran
    BY <1>3 DEF NotServed, Lose, RefuseUnknown, RefuseMessage, Refuse, Begin, End, Break,
       Place
  <2>2. Serves(c) \in Method \/ ~Implemented(c)
    BY RpcAssumption DEF Implemented, Known, Serves, RpcTypeOK
  <2>3. RpcTypeOK'
    BY <2>1, <2>2 DEF Move, RpcTypeOK, Place
  <2>4. Progress(c)'
    <3>1. at[c] = from /\ at'[c] = to /\ UNCHANGED <<cstack, sstack, called, answer>>
      BY <2>1 DEF Move, RpcTypeOK
    <3>2. ran'[c] = IF to = "running" THEN Serves(c) ELSE ran[c]
      BY <2>1 DEF RpcTypeOK
    <3> QED
      BY <2>1, <3>1, <3>2, SameTables DEF Progress, Served
  <2>5. ASSUME NEW d \in Call, d # c PROVE Progress(d)'
    BY <2>1, <2>5, ProgressOfOthers DEF Move, RpcTypeOK
  <2> QED
    BY <2>3, <2>4, <2>5
<1>4. CASE BreakAll
  <2>1. RpcTypeOK'
    BY <1>4 DEF BreakAll, RpcTypeOK, Place
  <2>2. ASSUME NEW c \in Call PROVE Progress(c)'
    <3>1. at'[c] = IF at[c] = "running" THEN "broken" ELSE at[c]
      BY <1>4 DEF BreakAll
    <3> QED
      BY <1>4, <3>1, SameTables DEF BreakAll, Progress, Served
  <2> QED
    BY <2>1, <2>2
<1>5. CASE UNCHANGED rpcVars
  <2>1. RpcTypeOK'
    BY <1>5 DEF rpcVars, RpcTypeOK
  <2> QED
    BY <1>5, <2>1, ProgressOfOthers DEF rpcVars
<1> QED
  BY <1>1, <1>2, <1>3, <1>4, <1>5 DEF RpcNext

(* Every variable of the calls keeps its type.                              *)
THEOREM RpcTypes == RpcSpec => []RpcTypeOK
<1>1. RpcInv => RpcTypeOK
  BY DEF RpcInv
<1> QED
  BY <1>1, RpcInvInit, RpcStep, PTL DEF RpcSpec

-----------------------------------------------------------------------------
(* With tables that agree, what is known of a call says what ran for it.    *)
LEMMA StubsServe == StubsAgree /\ RpcInv => ServedAsCalled
<1> SUFFICES ASSUME StubsAgree, RpcInv, NEW c \in Call, ran[c] # NoMethod
             PROVE  /\ ran[c] = called[c]
                    /\ ServerStub[sstack][Sent(c).path].takes = Sent(c).sends
  BY DEF ServedAsCalled
<1>1. at[c] \in Served /\ Implemented(c) /\ ran[c] = Serves(c) /\ called[c] \in Method
  BY DEF RpcInv, Progress, Served
<1>2. cstack \in Stack /\ sstack \in Stack
  BY DEF RpcInv, RpcTypeOK
<1> QED
  BY <1>1, <1>2 DEF StubsAgree, Implemented, Known, Serves, Sent

(* Whichever stubs the two sides use, each call runs the method it is of,   *)
(* on a message of the type that method takes, if the tables agree.         *)
THEOREM AgreeingStubsServe ==
  ASSUME StubsAgree PROVE RpcSpec => []ServedAsCalled
<1>1. RpcInv => ServedAsCalled
  BY StubsServe
<1> QED
  BY <1>1, RpcInvInit, RpcStep, PTL DEF RpcSpec

-----------------------------------------------------------------------------
(* A call as its caller sees it.                                            *)

(* No call is made at first.                                                *)
LEMMA CallInit == RpcInit => AbsCall!Init
  BY DEF RpcInit, AbsCall!Init, Work

(* What a step does to the work of a call.                                  *)
LEMMA WorkOfOne ==
  ASSUME NEW c \in Call, NEW p, at \in [Call -> Place], at' = [at EXCEPT ![c] = p]
  PROVE  Work' = [Work EXCEPT ![c] = CASE p = "done" -> "done"
                                       [] p \in {"running", "broken"} -> "begun"
                                       [] OTHER -> "none"]
  BY DEF Work

(* Every step is one of the abstract call, or one its caller cannot see: a  *)
(* request lost or refused, a method that breaks off, a server that ends.   *)
LEMMA CallStep == RpcInv /\ [RpcNext]_rpcVars => [AbsCall!Next]_(AbsCall!vars)
<1> SUFFICES ASSUME RpcInv, [RpcNext]_rpcVars
             PROVE  AbsCall!Next \/ UNCHANGED <<answer, Work>>
  BY DEF AbsCall!vars
<1>0. at \in [Call -> Place] /\ answer \in [Call -> {"idle", "open", "ok", "error"}]
  BY DEF RpcInv, RpcTypeOK
<1>1. ASSUME NEW c \in Call, NEW m \in Method, Invoke(c, m)
      PROVE  AbsCall!Open(c)
  <2>1. at[c] = "none" /\ at' = [at EXCEPT ![c] = "sent"]
    BY <1>1 DEF Invoke, RpcInv, Progress
  <2>2. Work' = Work
    BY <1>0, <2>1 DEF Work
  <2> QED
    BY <1>1, <2>2 DEF Invoke, AbsCall!Open
<1>2. ASSUME NEW c \in Call, ReturnOk(c) PROVE AbsCall!ReturnOk(c)
  BY <1>2 DEF ReturnOk, Return, Work, AbsCall!ReturnOk
<1>3. ASSUME NEW c \in Call, ReturnError(c) PROVE AbsCall!ReturnError(c)
  BY <1>3 DEF ReturnError, Return, Work, AbsCall!ReturnError
<1>4. ASSUME NEW c \in Call, NotServed(c) PROVE UNCHANGED <<answer, Work>>
  <2>1. at[c] = "sent" /\ at' = [at EXCEPT ![c] = "dropped"] /\ UNCHANGED answer
    BY <1>4 DEF NotServed, Lose, RefuseUnknown, RefuseMessage, Refuse, Move
  <2> QED
    BY <1>0, <2>1 DEF Work
<1>5. ASSUME NEW c \in Call, Begin(c) PROVE AbsCall!Begin(c)
  <2>1. at[c] = "sent" /\ at' = [at EXCEPT ![c] = "running"] /\ UNCHANGED answer
    BY <1>5 DEF Begin, Move
  <2>2. answer[c] \in {"open", "error"}
    BY <1>0, <2>1 DEF RpcInv, Progress
  <2>3. Work[c] = "none" /\ Work' = [Work EXCEPT ![c] = "begun"]
    BY <1>0, <2>1, WorkOfOne DEF Work
  <2> QED
    BY <2>1, <2>2, <2>3 DEF AbsCall!Begin
<1>6. ASSUME NEW c \in Call, End(c) PROVE AbsCall!End(c)
  <2>1. at[c] = "running" /\ at' = [at EXCEPT ![c] = "done"] /\ UNCHANGED answer
    BY <1>6 DEF End, Move
  <2>2. Work[c] = "begun" /\ Work' = [Work EXCEPT ![c] = "done"]
    BY <1>0, <2>1, WorkOfOne DEF Work
  <2> QED
    BY <2>1, <2>2 DEF AbsCall!End
<1>7. ASSUME NEW c \in Call, Break(c) PROVE UNCHANGED <<answer, Work>>
  <2>1. at[c] = "running" /\ at' = [at EXCEPT ![c] = "broken"] /\ UNCHANGED answer
    BY <1>7 DEF Break, Move
  <2> QED
    BY <1>0, <2>1 DEF Work
<1>8. CASE BreakAll
  BY <1>8 DEF BreakAll, Work
<1>9. CASE UNCHANGED rpcVars
  BY <1>9 DEF rpcVars, Work
<1> QED
  BY <1>1, <1>2, <1>3, <1>4, <1>5, <1>6, <1>7, <1>8, <1>9 DEF RpcNext, AbsCall!Next

(* A method runs at most once, has run when its caller is told so, and may  *)
(* yet run when its caller has given up: a call through the stubs is an     *)
(* abstract call.                                                           *)
THEOREM RpcImplementsCall == RpcSpec => AbsCall!Spec
<1>1. RpcInit => AbsCall!Init
  BY CallInit
<1> QED
  BY <1>1, RpcInvInit, RpcStep, CallStep, PTL DEF RpcSpec, AbsCall!Spec
=============================================================================

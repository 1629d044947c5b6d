-------------------------------- MODULE Rpc ---------------------------------
(***************************************************************************)
(* Unary calls through generated stubs (proto/auth, proto/license), from   *)
(* the client's method to the server's and back, each with a deadline.     *)
(* The stubs are tables: what path, message and protocol a client's method *)
(* sends, and which method a server runs for a path.  Modules of services  *)
(* give the tables; modules of programs that call, or serve, extend this   *)
(* one and add to Begin and End what the method does.                      *)
(***************************************************************************)

CONSTANTS
  Call,           \* the calls of a run
  Method,         \* the methods of the service
  NoMethod,
  Stack,          \* the generators of stubs: Connect and gRPC
  ClientStub,     \* per stack and method: path, message type and protocol sent
  ServerStub,     \* per stack, for the paths it knows: method, message type
                  \* and protocols taken
  Unimplemented   \* per stack: methods that only say they are not implemented

ASSUME RpcAssumption ==
  \A s \in Stack : \A p \in DOMAIN ServerStub[s] : ServerStub[s][p].method \in Method

Place == {"none", "sent", "dropped", "running", "broken", "done"}

VARIABLES
  cstack,   \* the stack of the client
  sstack,   \* the stack of the server
  called,   \* the method a call is of
  answer,   \* what its caller has
  at,       \* how far the request got
  ran       \* the method the server ran for it, or NoMethod

rpcVars == <<cstack, sstack, called, answer, at, ran>>

RpcTypeOK ==
  /\ cstack \in Stack
  /\ sstack \in Stack
  /\ called \in [Call -> Method \cup {NoMethod}]
  /\ answer \in [Call -> {"idle", "open", "ok", "error"}]
  /\ at \in [Call -> Place]
  /\ ran \in [Call -> Method \cup {NoMethod}]

RpcInit ==
  /\ called = [c \in Call |-> NoMethod]
  /\ answer = [c \in Call |-> "idle"]
  /\ at = [c \in Call |-> "none"]
  /\ ran = [c \in Call |-> NoMethod]

-----------------------------------------------------------------------------
(* The client.                                                              *)

Invoke(c, m) ==
  /\ answer[c] = "idle"
  /\ called' = [called EXCEPT ![c] = m]
  /\ answer' = [answer EXCEPT ![c] = "open"]
  /\ at' = [at EXCEPT ![c] = "sent"]
  /\ UNCHANGED <<cstack, sstack, ran>>

Return(c, a) ==
  /\ answer[c] = "open"
  /\ answer' = [answer EXCEPT ![c] = a]
  /\ UNCHANGED <<cstack, sstack, called, at, ran>>

ReturnOkAnyhow(c) == at[c] \in {"dropped", "broken", "done"} /\ Return(c, "ok")
ReturnOk(c) == at[c] = "done" /\ Return(c, "ok")

(* The server's error, a broken connection, or the deadline: the client     *)
(* cannot tell them apart, and what the server does goes on.                *)
ReturnError(c) == Return(c, "error")

-----------------------------------------------------------------------------
(* The network and the server's stub.                                       *)

Move(c, from, to) ==
  /\ at[c] = from
  /\ at' = [at EXCEPT ![c] = to]
  /\ UNCHANGED <<cstack, sstack, called, answer>>

Lose(c) == Move(c, "sent", "dropped") /\ UNCHANGED ran

Sent(c) == ClientStub[cstack][called[c]]

(* The server speaks the client's protocol and has a method at the path.    *)
Known(c) ==
  /\ Sent(c).path \in DOMAIN ServerStub[sstack]
  /\ Sent(c).protocol \in ServerStub[sstack][Sent(c).path].protocols

Serves(c) == ServerStub[sstack][Sent(c).path].method

Implemented(c) == Known(c) /\ Serves(c) \notin Unimplemented[sstack]

(* Not found, another protocol, not implemented, or a message that does not *)
(* decode: no method of the server runs.                                    *)
Refuse(c) == Move(c, "sent", "dropped") /\ UNCHANGED ran

RefuseUnknown(c) == Refuse(c) /\ ~Implemented(c)

RefuseMessage(c) == Refuse(c) /\ Implemented(c)

(* A message of another type than the method takes may decode as well.      *)
Begin(c) ==
  /\ Move(c, "sent", "running")
  /\ Implemented(c)
  /\ ran' = [ran EXCEPT ![c] = Serves(c)]

End(c) == Move(c, "running", "done") /\ UNCHANGED ran

(* The method returns an error.                                             *)
Break(c) == Move(c, "running", "broken") /\ UNCHANGED ran

(* The server dies.                                                         *)
BreakAll ==
  /\ at' = [c \in Call |-> IF at[c] = "running" THEN "broken" ELSE at[c]]
  /\ UNCHANGED <<cstack, sstack, called, answer, ran>>

(* No method runs for the request.                                          *)
NotServed(c) == Lose(c) \/ RefuseUnknown(c) \/ RefuseMessage(c)

RpcNext ==
  \/ \E c \in Call :
       \/ \E m \in Method : Invoke(c, m)
       \/ ReturnOk(c) \/ ReturnError(c)
       \/ NotServed(c) \/ Begin(c) \/ End(c) \/ Break(c)
  \/ BreakAll

RpcSpec ==
  /\ RpcInit /\ cstack \in Stack /\ sstack \in Stack
  /\ [][RpcNext]_rpcVars

-----------------------------------------------------------------------------
(* Each call runs the method it is of, on a message of the type that method *)
(* takes, and no other whose path is alike, whichever stubs the two sides   *)
(* use.                                                                     *)
ServedAsCalled ==
  \A c \in Call : ran[c] # NoMethod =>
    /\ ran[c] = called[c]
    /\ ServerStub[sstack][Sent(c).path].takes = Sent(c).sends

(* A call through the stubs is a call of CallSpec.                          *)
Work ==
  [c \in Call |-> CASE at[c] = "done" -> "done"
                    [] at[c] \in {"running", "broken"} -> "begun"
                    [] OTHER -> "none"]

AbsCall == INSTANCE CallSpec WITH work <- Work
ImplementsCallSpec == AbsCall!FairSpec
=============================================================================

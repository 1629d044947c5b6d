---------------------------- MODULE AuthService -----------------------------
(***************************************************************************)
(* auth.v1.AuthService, the service of the backend: its methods, their     *)
(* messages and the stubs generated for Connect and for gRPC.  The         *)
(* generators write the same line for each method, so each table is one    *)
(* function; the paths, of which some are prefixes of others, are pairs.   *)
(***************************************************************************)

AuthMethod == {
  "Heartbeat", "GetAuthorizationURL", "ExchangeCode", "GetProfile",
  "RefreshToken", "VerifyToken", "ListUsers", "UpdateUserRoles",
  "DeleteUser", "RestoreUser", "GetTimeCard", "ListTimeCards",
  "CreateTimeCard", "UpdateTimeCard", "DeleteTimeCard", "GetTimeCardLog",
  "ListTimeCardLogs", "ListTimeCardLogsByCardID", "CreateTimeCardLog",
  "UpdateTimeCardLog", "DeleteTimeCardLog"}

(* The message a method takes; no two methods share one.                    *)
Input(m) == <<"Request", m>>

(* What is used of the messages of CreateTimeCardLog.  A reply without a    *)
(* log decodes to a nil pointer.                                            *)
NilLog == [card_id |-> 0]
CreateTimeCardLogRequest(cards, ips) == [card_id : cards, machine_ip : ips]
TimeCardLog(cards, ips) == [card_id : cards, machine_ip : ips]
TimeCardLogResponse(cards, ips) == [log : TimeCardLog(cards, ips) \cup {NilLog}]

-----------------------------------------------------------------------------
(* Connect.                                                                 *)

ConnectProcedure == [m \in AuthMethod |-> <<"auth.v1.AuthService", m>>]

(* A field of the client holds the path, the method that uses it the type   *)
(* of the request.                                                          *)
ConnectField ==
  [m \in AuthMethod |-> [path |-> ConnectProcedure[m], protocol |-> "connect"]]

ConnectClient ==
  [m \in AuthMethod |->
     [path |-> ConnectField[m].path, protocol |-> ConnectField[m].protocol,
      sends |-> Input(m)]]

(* A handler per method, and the switch on the path of a request.           *)
ConnectUnary ==
  [m \in AuthMethod |->
     [method |-> m, takes |-> Input(m), protocols |-> {"connect", "grpc", "grpc-web"}]]

ConnectSwitch ==
  [p \in {ConnectProcedure[m] : m \in AuthMethod} |->
     ConnectUnary[CHOOSE m \in AuthMethod : ConnectProcedure[m] = p]]

-----------------------------------------------------------------------------
(* gRPC.                                                                    *)

FullMethodName == [m \in AuthMethod |-> <<"auth.v1.AuthService", m>>]

GrpcClient ==
  [m \in AuthMethod |->
     [path |-> FullMethodName[m], sends |-> Input(m), protocol |-> "grpc"]]

GrpcUnary ==
  [m \in AuthMethod |->
     [method |-> m, takes |-> Input(m), protocols |-> {"grpc"}]]

(* A server finds service and method of a path by their names.              *)
ServiceDesc ==
  [p \in {"auth.v1.AuthService"} \X AuthMethod |-> GrpcUnary[p[2]]]

(* The methods a server that embeds the generated one answers as not        *)
(* implemented, when it has its own of some.                                *)
ConnectUnimplemented(own) == AuthMethod \ own
GrpcUnimplemented(own) == AuthMethod \ own

-----------------------------------------------------------------------------
Stacks == {"connect", "grpc"}

AuthClientStub == [s \in Stacks |-> IF s = "connect" THEN ConnectClient ELSE GrpcClient]
AuthServerStub == [s \in Stacks |-> IF s = "connect" THEN ConnectSwitch ELSE ServiceDesc]
AuthUnimplemented(own) ==
  [s \in Stacks |-> IF s = "connect" THEN ConnectUnimplemented(own)
                    ELSE GrpcUnimplemented(own)]
=============================================================================

--------------------------- MODULE LicenseService ---------------------------
(***************************************************************************)
(* license.LicenseReader: its methods, their messages and the stubs        *)
(* generated for gRPC, which the program uses, and for Connect.            *)
(***************************************************************************)

LicenseMethod == {"PushLicenseData", "PushReadLog", "GetLogs", "GetReadHistory"}

(* The message a method takes.                                              *)
Input(m) ==
  CASE m = "PushLicenseData" -> "LicenseData"
    [] m = "PushReadLog" -> "ReadLog"
    [] m = "GetLogs" -> "GetLogsRequest"
    [] m = "GetReadHistory" -> "GetReadHistoryRequest"

(* What is used of the messages.                                            *)
LicenseData(readers) == [reader_id : readers]
ReadLog(readers, statuses) == [reader_id : readers, status : statuses]

-----------------------------------------------------------------------------
(* gRPC.                                                                    *)

FullMethodName == [m \in LicenseMethod |-> <<"license.LicenseReader", m>>]

GrpcClient ==
  [m \in LicenseMethod |->
     [path |-> FullMethodName[m], sends |-> Input(m), protocol |-> "grpc"]]

GrpcUnary ==
  [m \in LicenseMethod |->
     [method |-> m, takes |-> Input(m), protocols |-> {"grpc"}]]

(* The rows of a service description, in which a row may name the wrong     *)
(* handler.                                                                 *)
ServiceDescSwapped ==
  [p \in {"license.LicenseReader"} \X LicenseMethod |->
     GrpcUnary[IF p[2] = "GetLogs" THEN "PushReadLog" ELSE p[2]]]
ServiceDesc ==
  [p \in {"license.LicenseReader"} \X LicenseMethod |-> GrpcUnary[p[2]]]

-----------------------------------------------------------------------------
(* Connect.                                                                 *)

ConnectProcedure == [m \in LicenseMethod |-> <<"license.LicenseReader", m>>]

ConnectField ==
  [m \in LicenseMethod |-> [path |-> ConnectProcedure[m], protocol |-> "connect"]]

ConnectClient ==
  [m \in LicenseMethod |->
     [path |-> ConnectField[m].path, protocol |-> ConnectField[m].protocol,
      sends |-> Input(m)]]

ConnectUnary ==
  [m \in LicenseMethod |->
     [method |-> m, takes |-> Input(m), protocols |-> {"connect", "grpc", "grpc-web"}]]

ConnectSwitch ==
  [p \in {ConnectProcedure[m] : m \in LicenseMethod} |->
     ConnectUnary[CHOOSE m \in LicenseMethod : ConnectProcedure[m] = p]]

-----------------------------------------------------------------------------
(* A server has methods of its own; the one it embeds, or starts from, says *)
(* of the others that they are not implemented.                             *)
GrpcUnimplemented(own) == LicenseMethod \ own
ConnectUnimplemented(own) == LicenseMethod \ own

Stacks == {"connect", "grpc"}

LicenseClientStub ==
  [s \in Stacks |-> IF s = "connect" THEN ConnectClient ELSE GrpcClient]
LicenseServerStub ==
  [s \in Stacks |-> IF s = "connect" THEN ConnectSwitch ELSE ServiceDesc]
LicenseUnimplemented(own) ==
  [s \in Stacks |-> IF s = "connect" THEN ConnectUnimplemented(own)
                    ELSE GrpcUnimplemented(own)]
=============================================================================

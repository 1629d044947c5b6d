---------------------------- MODULE MCReaderApp -----------------------------
(* Two card readers, of which one's name begins like the other's; a         *)
(* supervisor without settings, whose .env is edited later, or a reader     *)
(* named by the environment; backends that have what the reader calls.      *)
EXTENDS ReaderApp

MCCall == 1 .. MaxReports
MCDevice == {<<1>>, <<1, 2>>}
MCSettings ==
  {[flag |-> Unset, env |-> Unset, file |-> Unset, supervised |-> TRUE],
   [flag |-> Unset, env |-> "n1", file |-> Unset, supervised |-> FALSE]}
MCUnimplemented == AuthUnimplemented({"Heartbeat", "CreateTimeCardLog"})
=============================================================================

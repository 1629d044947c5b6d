------------------------------- MODULE Config -------------------------------
(***************************************************************************)
(* Where a reader's id comes from (internal/config, and the flags of       *)
(* cmd/reader and cmd/server): the flag, the environment, the .env file,   *)
(* the default.  The supervisor settles it once and hands it down as a     *)
(* flag.  The other settings differ only in having no flag.                *)
(***************************************************************************)
CONSTANTS
  Name,        \* texts that name a reader
  EmptyText,
  Unset,       \* a variable, flag or line of .env that is not there
  DefaultId    \* "default"

ASSUME ConfigAssumption ==
  /\ Unset \notin Name \cup {EmptyText, DefaultId}
  /\ EmptyText \notin Name \cup {DefaultId}

Text == Name \cup {EmptyText, DefaultId}
Value == Text \cup {Unset}

(* godotenv.Load adds what the environment lacks, and overwrites nothing,   *)
(* not even a variable set to nothing.                                      *)
LoadEnv(env, file) == IF env = Unset THEN file ELSE env

(* os.Getenv gives an empty text for a variable that is not there.          *)
Setting(env) == IF env \in {Unset, EmptyText} THEN DefaultId ELSE env

(* The flag's default is the setting.                                       *)
Flagged(flag, setting) == IF flag = Unset THEN setting ELSE flag

ReaderId(flag, env, file) == Flagged(flag, Setting(LoadEnv(env, file)))

(* What a supervisor starts its readers with: its id as a flag, and its     *)
(* environment, with what .env added to it.                                 *)
SupervisedNoFlag(flag, env, file) ==
  [flag |-> Unset, env |-> LoadEnv(env, file)]
Supervised(flag, env, file) ==
  [flag |-> ReaderId(flag, env, file), env |-> LoadEnv(env, file)]
=============================================================================

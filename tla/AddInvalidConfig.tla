--------------------------- MODULE AddInvalidConfig ---------------------------
(***************************************************************************)
(* add_invalid_config of helpers/common.py: adds a configuration file the  *)
(* server must reject, restarts it, takes the file away again and looks in *)
(* the last lines of the error log for the message.  Calls follow each     *)
(* other, mostly with the same message.                                    *)
(*                                                                         *)
(* visible tells from which calls the message is among the last lines of   *)
(* the log; whatever the server logs may push it out of them.  The server  *)
(* and its reloader are external.                                          *)
(***************************************************************************)
EXTENDS Naturals

CONSTANT MaxCalls

AddInvalidConfigAssumption == MaxCalls \in Nat

VARIABLES
    file,       \* config.path
    merged,     \* the uid of the config is in the preprocessed file
    server, loaded,  \* loaded: what file was when the server read it
    visible,    \* subset of {"old", "new"}
    logged,     \* history: the server has logged the message in this call
    pc, calls,
    restart, recover,  \* arguments; recover: recover_config is not None
    exception,  \* one is on its way through the finally
    stuck       \* history: the clean-up itself has raised

vars == <<file, merged, server, loaded, visible, logged, pc, calls, restart, recover,
          exception, stuck>>

host == <<file, merged, server, loaded, visible, logged>>

args == <<calls, restart, recover>>

TypeOK ==
    /\ file \in {"none", "invalid", "recover"} /\ loaded \in {"none", "invalid", "recover"}
    /\ merged \in BOOLEAN /\ server \in {"up", "down"} /\ logged \in BOOLEAN
    /\ visible \subseteq {"old", "new"}
    /\ pc \in {"idle", "prepare", "add", "wait", "restart", "remove", "again", "look",
               "ok", "raised"}
    /\ calls \in 0..MaxCalls
    /\ {restart, recover, exception, stuck} \subseteq BOOLEAN
    /\ pc \in {"look", "ok"} => ~exception

Init ==
    /\ file = "none" /\ merged = FALSE /\ server = "up" /\ loaded = "none"
    /\ visible = {} /\ logged = FALSE
    /\ pc = "idle" /\ calls = 0
    /\ restart = TRUE /\ recover = FALSE /\ exception = FALSE /\ stuck = FALSE

-----------------------------------------------------------------------------
(***************************************************************************)
(* A server that reads an invalid file logs the message, or something else *)
(* of its own.  A reload is one step, unlike that of AddConfig: a message  *)
(* that comes after the call whose file was read has ended is left out.    *)
(***************************************************************************)
Reads(f) ==
    \/ visible' \in SUBSET visible /\ UNCHANGED logged
    \/ f = "invalid" /\ visible' = visible \cup {"new"} /\ logged' = TRUE

Reload ==
    /\ server = "up" /\ pc # "idle"
    /\ Reads(file)
    /\ merged' = (file = "invalid")
    /\ UNCHANGED <<file, server, loaded, pc, args, exception, stuck>>

(* restart_clickhouse: a server comes up only on a good configuration *)
Restarts ==
    /\ Reads(file)
    /\ merged' = (file = "invalid")
    /\ loaded' = file
    /\ server' = IF file = "invalid" THEN "down" ELSE "up"
    /\ UNCHANGED file

-----------------------------------------------------------------------------
Call ==
    /\ pc \in {"idle", "ok", "raised"} /\ calls < MaxCalls
    /\ file # "invalid" /\ server = "up"
    /\ calls' = calls + 1
    /\ restart' \in BOOLEAN /\ recover' \in BOOLEAN
    /\ visible' = IF visible = {} THEN {} ELSE {"old"}
    /\ logged' = FALSE /\ exception' = FALSE /\ stuck' = FALSE
    /\ pc' = "prepare"
    /\ UNCHANGED <<file, merged, server, loaded>>

(* Mistake: the lines are appended to the log, and are too few *)
PrepareTooFew ==
    /\ pc = "prepare" /\ pc' = "add"
    /\ UNCHANGED <<host, args, exception, stuck>>

(* the error log is overwritten *)
Prepare ==
    /\ pc = "prepare" /\ pc' = "add"
    /\ visible' = {}
    /\ UNCHANGED <<file, merged, server, loaded, logged, args, exception, stuck>>

Add ==
    /\ pc = "add" /\ pc' = "wait"
    /\ file' = "invalid"
    /\ UNCHANGED <<merged, server, loaded, visible, logged, args, exception, stuck>>

WaitMerged ==
    /\ pc = "wait" /\ merged
    /\ pc' = IF restart THEN "restart" ELSE "remove"
    /\ UNCHANGED <<host, args, exception, stuck>>

RestartInvalid ==
    /\ pc = "restart" /\ pc' = "remove"
    /\ Restarts
    /\ UNCHANGED <<args, exception, stuck>>

(* Mistake: the clean-up is not in a finally *)
RaisesAtOnce ==
    /\ pc \in {"prepare", "add", "wait", "restart"}
    /\ exception' = TRUE /\ pc' = "raised"
    /\ UNCHANGED <<host, args, stuck>>

(* A command raises, or the file is not merged in time *)
Raises ==
    /\ pc \in {"prepare", "add", "wait", "restart"}
    /\ exception' = TRUE /\ pc' = "remove"
    /\ UNCHANGED <<host, args, stuck>>

Remove ==
    /\ pc = "remove" /\ pc' = "again"
    /\ file' = IF recover THEN "recover" ELSE "none"
    /\ UNCHANGED <<merged, server, loaded, visible, logged, args, exception, stuck>>

(* The second restart, made when there is no recover_config, changes nothing more *)
RestartAgain ==
    /\ pc = "again"
    /\ IF restart THEN Restarts ELSE UNCHANGED host
    /\ pc' = IF exception THEN "raised" ELSE "look"
    /\ UNCHANGED <<args, exception, stuck>>

CleanUpRaises ==
    /\ pc \in {"remove", "again"}
    /\ stuck' = TRUE /\ pc' = "raised"
    /\ UNCHANGED <<host, args, exception>>

(* tail | grep finds the message, or does not until the time is up *)
Look ==
    /\ pc = "look"
    /\ \/ visible # {} /\ pc' = "ok"
       \/ pc' = "raised"
    /\ UNCHANGED <<host, args, exception, stuck>>

(* The tests may end here *)
Over == pc \in {"ok", "raised"} /\ UNCHANGED vars

Next ==
    \/ Reload \/ Call \/ Prepare \/ Add \/ WaitMerged \/ RestartInvalid \/ Raises
    \/ Remove \/ RestartAgain \/ CleanUpRaises \/ Look \/ Over

Spec == Init /\ [][Next]_vars

-----------------------------------------------------------------------------
(***************************************************************************)
(* A call that passes has seen the message of its own config: the one an   *)
(* earlier call left in the error log does not count ("Check that          *)
(* ClickHouse errors when trying to load invalid configuration file").     *)
(***************************************************************************)
MessageIsOwn == pc = "ok" => logged

(***************************************************************************)
(* However a call ends, the invalid file is gone and, when it restarts the *)
(* server, the server is up on the good configuration; only an exception   *)
(* of the clean-up itself leaves them.                                     *)
(***************************************************************************)
InvalidConfigIsGone ==
    pc \in {"ok", "raised"} /\ ~stuck =>
        file # "invalid" /\ (restart => server = "up" /\ loaded # "invalid")
=============================================================================

------------------------------ MODULE RetryScripts ------------------------------
(***************************************************************************)
(* The retry loops outside the test programs: retry.sh and dockerd-start.sh*)
(* of docker/dind.  What they try again is external and may fail every     *)
(* time.                                                                   *)
(***************************************************************************)
EXTENDS Naturals

CONSTANTS
    Retries,      \* values of the first argument of retry.sh
    DockerTries   \* 100 in dockerd-start.sh

RetryScriptsAssumption ==
    Retries \subseteq Nat /\ DockerTries \in Nat \ {0}

VARIABLES script, limit, try, exit,
    done      \* history: the last try was successful

vars == <<script, limit, try, exit, done>>

TypeOK ==
    /\ script \in {"retry", "dockerd"} /\ limit \in Retries \cup {DockerTries}
    /\ try \in 0..limit
    /\ exit \in {"none", "0", "1"} /\ done \in BOOLEAN

Init ==
    /\ \/ script = "retry" /\ limit \in Retries
       \/ script = "dockerd" /\ limit = DockerTries
    /\ try = 0 /\ exit = "none" /\ done = FALSE

(* until [ "$try" -ge $retries ]: exitcode=0 is what it starts with *)
Retry ==
    /\ script = "retry" /\ exit = "none"
    /\ IF try >= limit
         THEN exit' = (IF try = 0 THEN "0" ELSE "1") /\ UNCHANGED <<try, done>>
         ELSE /\ done' \in BOOLEAN
              /\ try' = IF done' THEN try ELSE try + 1
              /\ exit' = IF done' THEN "0" ELSE "none"
    /\ UNCHANGED <<script, limit>>

(* docker info && break *)
DockerInfo ==
    /\ script = "dockerd" /\ exit = "none"
    /\ done' \in BOOLEAN
    /\ try' = IF done' THEN try ELSE try + 1
    /\ exit' = CASE done' -> "0" [] ~done' /\ try' >= limit -> "1" [] OTHER -> "none"
    /\ UNCHANGED <<script, limit>>

Ended == exit # "none" /\ UNCHANGED vars

Next == Retry \/ DockerInfo \/ Ended

Spec == Init /\ [][Next]_vars /\ WF_vars(Next)

-----------------------------------------------------------------------------
(***************************************************************************)
(* retry.sh and dockerd-start.sh end with exit code 0 exactly when the     *)
(* last try was successful, or when retry.sh was asked for no try at all   *)
(* and so has never run the command.                                       *)
(***************************************************************************)
ExitCodeOfLastTry ==
    exit # "none" => (exit = "0" <=> done \/ (script = "retry" /\ limit = 0))

(***************************************************************************)
(* The scripts give up: dockerd-start.sh after 100 tries ("10 sec max").   *)
(***************************************************************************)
ScriptEnds == <>(exit # "none")
=============================================================================

--------------------------- MODULE ClickHouseServer ---------------------------
(***************************************************************************)
(* The life of the ClickHouse server of one node (class ClickHouseNode of  *)
(* helpers/cluster.py): stop_clickhouse, start_clickhouse,                 *)
(* restart_clickhouse and the stop, start and restart of the whole         *)
(* container, run by test threads against a server process that is slow,   *)
(* hangs, crashes or is shut down by a query.                              *)
(*                                                                         *)
(* The operations know the server by the file /tmp/clickhouse-server.pid   *)
(* only.  The server itself is external: it is modelled from how the code  *)
(* uses it.  It writes the file when it comes up, refuses to come up next  *)
(* to another one that is up, and removes the file when it ends in order;  *)
(* a container keeps the file when it is stopped.                          *)
(***************************************************************************)
EXTENDS Naturals, FiniteSets

CONSTANTS
    Threads,
    MaxPid,      \* servers launched in a behaviour
    MaxCrashes,  \* servers that die or are shut down by somebody else
    MaxPolls,    \* rounds of a retries() loop
    KillEvery,   \* every so many rounds of the wait for the end: kill -KILL
    NoPid, Garbage

ASSUME ClickHouseServerAssumption ==
    /\ MaxPid \in Nat /\ MaxCrashes \in Nat /\ MaxPolls \in Nat
    /\ KillEvery \in Nat \ {0}
    /\ NoPid \notin Nat /\ Garbage \notin Nat /\ NoPid # Garbage

Pids == 1..MaxPid

(* What a thread can be asked to do *)
Ops == {"stop_clickhouse", "start_clickhouse", "restart_clickhouse",
        "stop", "start", "restart"}

VARIABLES
    container,  \* "up" or "stopped"
    proc,       \* what became of each server launched
    pidfile,    \* /tmp/clickhouse-server.pid
    crashes,
    pc, op, pid, polls,  \* per thread; pid is the local variable of that name
    before,     \* history: servers up when the operation was called
    result      \* history: how the last operation ended

vars == <<container, proc, pidfile, crashes, pc, op, pid, polls, before, result>>

server == <<container, proc, pidfile, crashes>>

(***************************************************************************)
(* A server process is starting (no file yet), booting (file written),     *)
(* running (answers queries), stopping (had kill -TERM), killed (had kill  *)
(* -KILL), and at last dead.                                               *)
(***************************************************************************)
Up(p) == proc[p] \in {"booting", "running"}

Alive(p) == proc[p] \notin {"none", "dead"}

(* A server that is up, or still ends in order, owns the data and the file *)
Owns(p) == Up(p) \/ proc[p] = "stopping"

(* Steps of an operation that run a command inside the container *)
Inside == {"check", "check_cat", "safe", "find", "find_cat", "term", "kill", "ps",
           "rm", "first", "first_cat", "launch", "pidwait", "healthy"}

TypeOK ==
    /\ container \in {"up", "stopped"}
    /\ proc \in [Pids -> {"none", "starting", "booting", "running", "stopping",
                          "killed", "dead"}]
    /\ pidfile \in Pids \cup {NoPid}
    /\ crashes \in 0..MaxCrashes
    /\ pc \in [Threads -> Inside \cup {"idle", "compose"}]
    /\ op \in [Threads -> Ops]
    /\ pid \in [Threads -> Pids \cup {NoPid, Garbage}]
    /\ polls \in [Threads -> 0..MaxPolls]
    /\ before \in [Threads -> SUBSET Pids]
    /\ result \in [Threads -> {"none", "ok", "raised", "already running"}]

(* after Cluster.up(): the container runs and has no server yet *)
Init ==
    /\ container = "up"
    /\ proc = [p \in Pids |-> "none"]
    /\ pidfile = NoPid
    /\ crashes = 0
    /\ pc = [t \in Threads |-> "idle"]
    /\ op = [t \in Threads |-> "start_clickhouse"]
    /\ pid = [t \in Threads |-> NoPid]
    /\ polls = [t \in Threads |-> 0]
    /\ before = [t \in Threads |-> {}]
    /\ result = [t \in Threads |-> "none"]

-----------------------------------------------------------------------------
(***************************************************************************)
(* The server                                                              *)
(***************************************************************************)
ComesUp(p) ==
    /\ proc[p] = "starting"
    /\ IF \E q \in Pids : Owns(q)
         THEN proc' = [proc EXCEPT ![p] = "dead"] /\ UNCHANGED pidfile
         ELSE proc' = [proc EXCEPT ![p] = "booting"] /\ pidfile' = p
    /\ UNCHANGED <<container, crashes>>

Serves(p) ==
    /\ proc[p] = "booting"
    /\ proc' = [proc EXCEPT ![p] = "running"]
    /\ UNCHANGED <<container, pidfile, crashes>>

Dies(p) ==
    /\ proc[p] \in {"stopping", "killed"}
    /\ proc' = [proc EXCEPT ![p] = "dead"]
    /\ pidfile' = IF proc[p] = "stopping" THEN NoPid ELSE pidfile
    /\ UNCHANGED <<container, crashes>>

(* A crash, a kill -KILL sent by a test, or the query SYSTEM SHUTDOWN *)
Crashes(p) ==
    /\ crashes < MaxCrashes
    /\ \/ Alive(p) /\ proc' = [proc EXCEPT ![p] = "dead"]
       \/ proc[p] = "running" /\ proc' = [proc EXCEPT ![p] = "stopping"]
    /\ crashes' = crashes + 1
    /\ UNCHANGED <<container, pidfile>>

Server(p) ==
    /\ ComesUp(p) \/ Serves(p) \/ Dies(p) \/ Crashes(p)
    /\ UNCHANGED <<pc, op, pid, polls, before, result>>

-----------------------------------------------------------------------------
(***************************************************************************)
(* The operations                                                          *)
(***************************************************************************)
Goto(t, step) ==
    /\ pc' = [pc EXCEPT ![t] = step]
    /\ polls' = [polls EXCEPT ![t] = 0]
    /\ UNCHANGED <<op, before, result>>

Ends(t, how) ==
    /\ pc' = [pc EXCEPT ![t] = "idle"]
    /\ polls' = [polls EXCEPT ![t] = 0]
    /\ result' = [result EXCEPT ![t] = how]
    /\ UNCHANGED <<op, before>>

Call(t, o) ==
    /\ pc[t] = "idle"
    /\ op' = [op EXCEPT ![t] = o]
    /\ pc' = [pc EXCEPT ![t] =
                CASE o = "stop_clickhouse" -> "safe"
                  [] o = "start_clickhouse" -> "first"
                  [] o = "start" -> "compose"
                  [] OTHER -> "check"]
    /\ pid' = [pid EXCEPT ![t] = NoPid]
    /\ before' = [before EXCEPT ![t] = {p \in Pids : Up(p)}]
    /\ result' = [result EXCEPT ![t] = "none"]
    /\ UNCHANGED <<server, polls>>

(* docker exec into a container that is stopped: no terminal, an exception *)
Unreachable(t) ==
    /\ pc[t] \in Inside /\ container = "stopped"
    /\ Ends(t, "raised")
    /\ UNCHANGED <<server, pid>>

In(t, step) == pc[t] = step /\ container = "up"

(***************************************************************************)
(* clickhouse_pid(): ls, and then cat.  Between the two the file can go,   *)
(* and cat's error message is returned as if it was the pid.               *)
(***************************************************************************)
Catted == IF pidfile = NoPid THEN Garbage ELSE pidfile

(* Where each operation goes once its stop is done, or was not needed *)
AfterStop(t) ==
    CASE op[t] = "stop_clickhouse" -> Ends(t, "ok")
      [] op[t] = "restart_clickhouse" -> Goto(t, "first")
      [] OTHER -> Goto(t, "compose")

(* if self.clickhouse_pid(): self.stop_clickhouse(...) *)
CheckLs(t) ==
    /\ In(t, "check")
    /\ IF pidfile = NoPid THEN AfterStop(t) ELSE Goto(t, "check_cat")
    /\ UNCHANGED <<server, pid>>

CheckCat(t) ==
    /\ In(t, "check_cat")
    /\ Goto(t, "safe")
    /\ UNCHANGED <<server, pid>>

(* safe=True: queries that need a server, or else an exception *)
Safe(t) ==
    /\ In(t, "safe")
    /\ IF \E p \in Pids : proc[p] = "running"
         THEN Goto(t, "find")
         ELSE Ends(t, "raised")
    /\ UNCHANGED <<server, pid>>

(* safe=False *)
Unsafe(t) ==
    /\ In(t, "safe")
    /\ Goto(t, "find")
    /\ UNCHANGED <<server, pid>>

FindLs(t) ==
    /\ In(t, "find")
    /\ pid' = [pid EXCEPT ![t] = NoPid]
    /\ Goto(t, IF pidfile = NoPid THEN "term" ELSE "find_cat")
    /\ UNCHANGED server

FindCat(t) ==
    /\ In(t, "find_cat")
    /\ pid' = [pid EXCEPT ![t] = Catted]
    /\ Goto(t, "term")
    /\ UNCHANGED server

(* kill -TERM, which must succeed: not so for None, for the message of cat *)
(* or for a process that is gone                                           *)
Term(t) ==
    /\ In(t, "term")
    /\ IF pid[t] \in Pids /\ Alive(pid[t])
         THEN /\ proc' = [proc EXCEPT ![pid[t]] =
                            IF @ = "killed" THEN @ ELSE "stopping"]
              /\ Goto(t, "kill")
         ELSE /\ Ends(t, "raised")
              /\ UNCHANGED proc
    /\ UNCHANGED <<container, pidfile, crashes, pid>>

(***************************************************************************)
(* The wait until ps does not find the pid: every KillEvery rounds the     *)
(* server has kill -KILL first.                                            *)
(***************************************************************************)
Kills(t) == polls[t] > 0 /\ polls[t] % KillEvery = 0

Kill(t) ==
    /\ In(t, "kill")
    /\ proc' = IF Kills(t) /\ Alive(pid[t]) THEN [proc EXCEPT ![pid[t]] = "killed"]
               ELSE proc
    /\ pc' = [pc EXCEPT ![t] = "ps"]
    /\ UNCHANGED <<container, pidfile, crashes, op, pid, polls, before, result>>

Again(t) ==
    /\ pc' = [pc EXCEPT ![t] = "kill"]
    /\ polls' = [polls EXCEPT ![t] = @ + 1]
    /\ UNCHANGED <<op, before, result>>

(* Mistakes in this wait: the exit code of ps is not looked at, the wait   *)
(* is left quietly when its time is up, never, or one round too late       *)
PsIgnored(t) ==
    /\ In(t, "ps")
    /\ Goto(t, "rm")
    /\ UNCHANGED <<server, pid>>

PsQuietly(t) ==
    /\ In(t, "ps")
    /\ IF Alive(pid[t]) /\ polls[t] < MaxPolls THEN Again(t) ELSE Goto(t, "rm")
    /\ UNCHANGED <<server, pid>>

PsForever(t) ==
    /\ In(t, "ps") /\ ~Alive(pid[t])
    /\ Goto(t, "rm")
    /\ UNCHANGED <<server, pid>>

PsTooOften(t) ==
    /\ In(t, "ps")
    /\ IF Alive(pid[t]) /\ polls[t] <= MaxPolls THEN Again(t) ELSE Goto(t, "rm")
    /\ UNCHANGED <<server, pid>>

Ps(t) ==
    /\ In(t, "ps")
    /\ CASE ~Alive(pid[t]) -> Goto(t, "rm")
         [] Alive(pid[t]) /\ polls[t] < MaxPolls -> Again(t)
         [] OTHER -> Ends(t, "raised")
    /\ UNCHANGED <<server, pid>>

(* A mistake: the server is trusted to remove its file *)
RmNothing(t) ==
    /\ In(t, "rm")
    /\ AfterStop(t)
    /\ UNCHANGED <<server, pid>>

Rm(t) ==
    /\ In(t, "rm")
    /\ pidfile' = NoPid
    /\ AfterStop(t)
    /\ UNCHANGED <<container, proc, crashes, pid>>

(***************************************************************************)
(* docker-compose stop, start or restart of the container.  Stopping it    *)
(* ends every process in it.                                               *)
(***************************************************************************)
Compose(t) ==
    /\ pc[t] = "compose"
    /\ container' = IF op[t] = "stop" THEN "stopped" ELSE "up"
    /\ proc' = IF op[t] = "start" THEN proc
               ELSE [p \in Pids |-> IF Alive(p) THEN "dead" ELSE proc[p]]
    /\ \/ op[t] = "stop" /\ Ends(t, "ok")
       \/ op[t] # "stop" /\ Goto(t, "first")
       \/ op[t] # "stop" /\ Ends(t, "ok")    \* start_clickhouse=False
    /\ UNCHANGED <<pidfile, crashes, pid>>

(* five tries and docker-compose still fails *)
ComposeFails(t) ==
    /\ pc[t] = "compose"
    /\ Ends(t, "raised")
    /\ UNCHANGED <<server, pid>>

(* start_clickhouse: "already running" if there is a pid *)
FirstLs(t) ==
    /\ In(t, "first")
    /\ Goto(t, IF pidfile = NoPid THEN "launch" ELSE "first_cat")
    /\ UNCHANGED <<server, pid>>

FirstCat(t) ==
    /\ In(t, "first_cat")
    /\ pid' = [pid EXCEPT ![t] = Catted]
    /\ Ends(t, "already running")
    /\ UNCHANGED server

Launch(t) ==
    /\ In(t, "launch")
    /\ \E p \in Pids :
         /\ proc[p] = "none" /\ \A q \in 1..(p - 1) : proc[q] # "none"
         /\ proc' = [proc EXCEPT ![p] = "starting"]
    /\ Goto(t, "pidwait")
    /\ UNCHANGED <<container, pidfile, crashes, pid>>

LaunchFails(t) ==
    /\ In(t, "launch")
    /\ Ends(t, "raised")
    /\ UNCHANGED <<server, pid>>

(* A round of a loop that waits for a condition *)
Wait(t, condition, step) ==
    CASE condition -> Goto(t, step)
      [] ~condition /\ polls[t] < MaxPolls ->
           /\ polls' = [polls EXCEPT ![t] = @ + 1]
           /\ UNCHANGED <<pc, op, before, result>>
      [] OTHER -> Ends(t, "raised")

(* The 300 seconds are longer than a server takes to write the file or to  *)
(* give up, so the last round is over when no server is starting.          *)
PidWait(t) ==
    /\ In(t, "pidwait")
    /\ polls[t] < MaxPolls \/ \A p \in Pids : proc[p] # "starting"
    /\ \/ Wait(t, pidfile # NoPid, "healthy")
       \/ pidfile # NoPid /\ Ends(t, "ok")    \* wait_healthy=False
    /\ UNCHANGED <<server, pid>>

(* wait_clickhouse_healthy: a query is answered *)
Healthy(t) ==
    /\ In(t, "healthy")
    /\ IF \E p \in Pids : proc[p] = "running"
         THEN Ends(t, "ok")
         ELSE Wait(t, FALSE, "healthy")
    /\ UNCHANGED <<server, pid>>

Step(t) ==
    \/ Unreachable(t) \/ CheckLs(t) \/ CheckCat(t) \/ Safe(t) \/ Unsafe(t)
    \/ FindLs(t) \/ FindCat(t) \/ Term(t) \/ Kill(t) \/ Ps(t) \/ Rm(t)
    \/ Compose(t) \/ ComposeFails(t) \/ FirstLs(t) \/ FirstCat(t)
    \/ Launch(t) \/ LaunchFails(t) \/ PidWait(t) \/ Healthy(t)

Next ==
    \/ \E p \in Pids : Server(p)
    \/ \E t \in Threads : Step(t) \/ \E o \in Ops : Call(t, o)

Spec == Init /\ [][Next]_vars

(* A thread in an operation goes on, and a server that was launched writes *)
(* its pid file or gives up; it may then hang for ever.                    *)
FairSpec ==
    /\ Spec
    /\ \A t \in Threads : WF_vars(Step(t))
    /\ \A p \in Pids : WF_vars(proc[p] = "starting" /\ Server(p))

-----------------------------------------------------------------------------
(***************************************************************************)
(* A server that is up, or is still ending in order, is named by the pid   *)
(* file, so that the next stop or restart finds it: stop_clickhouse        *)
(* removes the file only when the server it named has ended, and no late   *)
(* end of an old server removes the file of a new one.  This needs one     *)
(* thread per node: the rm -rf of a second one can hit a new file.         *)
(***************************************************************************)
ServerIsNamed == \A p \in Pids : Owns(p) => pidfile = p

(***************************************************************************)
(* A restart that returns has replaced the server: none of those that were *)
(* up when it was called is left, not even one that hung and had to be     *)
(* killed.  The same holds of a stop.                                      *)
(***************************************************************************)
RestartReplaces ==
    \A t \in Threads :
        op[t] \in {"stop_clickhouse", "restart_clickhouse", "stop", "restart"}
            /\ result[t] = "ok" => \A p \in before[t] : ~Alive(p)

(***************************************************************************)
(* stop_clickhouse that returns leaves neither a server that is up nor a   *)
(* pid file, so that start_clickhouse can follow.                          *)
(***************************************************************************)
StopLeavesNothing ==
    [][\A t \in Threads :
         pc[t] # "idle" /\ result'[t] = "ok" /\ op[t] = "stop_clickhouse" =>
            pidfile' = NoPid /\ \A p \in Pids : ~Up(p)']_vars

(***************************************************************************)
(* Every operation returns or raises, whether the server hangs, ignores    *)
(* kill -TERM or crashes.  A server that was launched is taken to write    *)
(* its pid file or to give up within the 300 seconds of the wait for it.   *)
(***************************************************************************)
EveryOperationEnds == \A t \in Threads : pc[t] # "idle" ~> pc[t] = "idle"

(***************************************************************************)
(* start_clickhouse raises "ClickHouse server already running with pid"    *)
(* only if a server is running.                                            *)
(***************************************************************************)
AlreadyRunning ==
    [][\A t \in Threads :
         pc[t] # "idle" /\ result'[t] = "already running" =>
            \E p \in Pids : Alive(p)]_vars
=============================================================================

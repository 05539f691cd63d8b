------------------------------ MODULE KeeperNodes ------------------------------
(***************************************************************************)
(* start_keepers and stop_keepers of clickhouse_keeper/tests/steps.py: a   *)
(* group of standalone keepers is started node by node, a test runs, and   *)
(* they are stopped node by node in the finally or, with manual_cleanup,   *)
(* by a call of stop_keepers.                                              *)
(*                                                                         *)
(* A keeper is external: it writes its pid file a moment after the command *)
(* that starts it has returned, may die at any time and then leaves the    *)
(* file, and removes the file when it ends in order.                       *)
(***************************************************************************)
EXTENDS Naturals, Sequences

CONSTANTS
    Names,     \* standalone_keeper_nodes, in order
    MaxDeaths  \* keepers that die by themselves

(* A node is named once: its keeper has one pid file *)
KeeperNodesAssumption ==
    /\ Names \in Seq(STRING) /\ \A i, j \in DOMAIN Names : Names[i] = Names[j] => i = j
    /\ MaxDeaths \in Nat

Nodes == {Names[i] : i \in DOMAIN Names}

VARIABLES
    keeper,   \* "none", "starting", "up", "stopping" or "dead"
    pidfile,  \* whether /tmp/clickhouse-keeper.pid exists
    pc, next, \* next: index of the loop in Names
    manual,   \* manual_cleanup
    result, deaths

vars == <<keeper, pidfile, pc, next, manual, result, deaths>>

Alive(n) == keeper[n] \in {"starting", "up", "stopping"}

TypeOK ==
    /\ keeper \in [Nodes -> {"none", "starting", "up", "stopping", "dead"}]
    /\ pidfile \in [Nodes -> BOOLEAN]
    /\ pc \in {"start", "check", "test", "ls", "kill", "ps", "over"}
    /\ next \in 1..(Len(Names) + 1) /\ (pc \in {"check", "kill", "ps"} => next <= Len(Names))
    /\ manual \in BOOLEAN /\ deaths \in 0..MaxDeaths
    /\ result \in {"none", "ok", "raised"}
    /\ \A n \in Nodes : pidfile[n] => keeper[n] # "starting"

(* An earlier keeper may have left its file *)
Init ==
    /\ keeper = [n \in Nodes |-> "none"] /\ pidfile \in [Nodes -> BOOLEAN]
    /\ pc = "start" /\ next = 1 /\ manual \in BOOLEAN
    /\ result = "none" /\ deaths = 0

-----------------------------------------------------------------------------
ComesUp(n) ==
    /\ keeper[n] = "starting"
    /\ keeper' = [keeper EXCEPT ![n] = "up"]
    /\ pidfile' = [pidfile EXCEPT ![n] = TRUE]
    /\ UNCHANGED <<pc, next, manual, result, deaths>>

EndsInOrder(n) ==
    /\ keeper[n] = "stopping"
    /\ keeper' = [keeper EXCEPT ![n] = "dead"]
    /\ pidfile' = [pidfile EXCEPT ![n] = FALSE]
    /\ UNCHANGED <<pc, next, manual, result, deaths>>

Dies(n) ==
    /\ Alive(n) /\ deaths < MaxDeaths
    /\ keeper' = [keeper EXCEPT ![n] = "dead"]
    /\ deaths' = deaths + 1
    /\ UNCHANGED <<pidfile, pc, next, manual, result>>

-----------------------------------------------------------------------------
Goto(step) == pc' = step /\ UNCHANGED <<next, result>>

(* An exception in the set-up goes to the finally, one in the finally ends the call *)
Raise ==
    /\ result' = "raised"
    /\ IF pc \in {"start", "check", "test"} /\ ~manual
         THEN pc' = "ls" /\ next' = 1
         ELSE pc' = "over" /\ UNCHANGED next

(* Mistake: the pid file of an earlier keeper is not removed *)
StartKeepsFile ==
    /\ pc = "start" /\ next <= Len(Names)
    /\ keeper' = [keeper EXCEPT ![Names[next]] = "starting"]
    /\ Goto("check")
    /\ UNCHANGED <<pidfile, manual, deaths>>

(* rm -rf of the pid file, clickhouse keeper --daemon *)
Start ==
    /\ pc = "start" /\ next <= Len(Names)
    /\ keeper' = [keeper EXCEPT ![Names[next]] = "starting"]
    /\ pidfile' = [pidfile EXCEPT ![Names[next]] = FALSE]
    /\ Goto("check")
    /\ UNCHANGED <<manual, deaths>>

(* The command that starts a keeper has another exit code than 0 *)
StartFails ==
    /\ pc = "start" /\ next <= Len(Names)
    /\ pidfile' = [pidfile EXCEPT ![Names[next]] = FALSE]
    /\ Raise
    /\ UNCHANGED <<keeper, manual, deaths>>

(* Mistake: the pid file is not looked for *)
CheckNothing ==
    /\ pc = "check"
    /\ pc' = "start" /\ next' = next + 1 /\ UNCHANGED result
    /\ UNCHANGED <<keeper, pidfile, manual, deaths>>

(* ls /tmp/clickhouse-keeper.pid, once *)
Check ==
    /\ pc = "check"
    /\ IF pidfile[Names[next]]
         THEN pc' = "start" /\ next' = next + 1 /\ UNCHANGED result
         ELSE Raise
    /\ UNCHANGED <<keeper, pidfile, manual, deaths>>

Yield ==
    /\ pc = "start" /\ next > Len(Names)
    /\ Goto("test")
    /\ UNCHANGED <<keeper, pidfile, manual, deaths>>

(* the finally, or stop_keepers *)
TestEnds ==
    /\ pc = "test"
    /\ pc' = "ls" /\ next' = 1 /\ UNCHANGED result
    /\ UNCHANGED <<keeper, pidfile, manual, deaths>>

TestRaises ==
    /\ pc = "test"
    /\ Raise
    /\ UNCHANGED <<keeper, pidfile, manual, deaths>>

Ls ==
    /\ pc = "ls" /\ next <= Len(Names)
    /\ IF pidfile[Names[next]] THEN Goto("kill") ELSE Raise
    /\ UNCHANGED <<keeper, pidfile, manual, deaths>>

(* kill -TERM with exitcode=0: there must be such a process *)
Kill ==
    /\ pc = "kill"
    /\ IF Alive(Names[next])
         THEN keeper' = [keeper EXCEPT ![Names[next]] = "stopping"] /\ Goto("ps")
         ELSE Raise /\ UNCHANGED keeper
    /\ UNCHANGED <<pidfile, manual, deaths>>

(* Mistake: the end of the process is not waited for *)
PsOnce ==
    /\ pc = "ps"
    /\ pc' = "ls" /\ next' = next + 1 /\ UNCHANGED result
    /\ UNCHANGED <<keeper, pidfile, manual, deaths>>

(* retry(node.cmd, timeout=100, delay=1)("ps pid", exitcode=1) *)
Ps ==
    /\ pc = "ps"
    /\ \/ keeper[Names[next]] = "dead" /\ pc' = "ls" /\ next' = next + 1 /\ UNCHANGED result
       \/ keeper[Names[next]] # "dead" /\ Raise
    /\ UNCHANGED <<keeper, pidfile, manual, deaths>>

AllStopped ==
    /\ pc = "ls" /\ next > Len(Names)
    /\ pc' = "over" /\ UNCHANGED next
    /\ result' = IF result = "none" THEN "ok" ELSE result
    /\ UNCHANGED <<keeper, pidfile, manual, deaths>>

Over == pc = "over" /\ UNCHANGED vars

Next ==
    \/ \E n \in Nodes : ComesUp(n) \/ EndsInOrder(n) \/ Dies(n)
    \/ Start \/ StartFails \/ Check \/ Yield \/ TestEnds \/ TestRaises \/ Ls \/ Kill \/ Ps
    \/ AllStopped \/ Over

Spec == Init /\ [][Next]_vars

-----------------------------------------------------------------------------
(***************************************************************************)
(* A test that was given its keepers has them: each one is up, or has died *)
(* by itself meanwhile; none is still on its way (start_keepers).          *)
(***************************************************************************)
TestHasKeepers == pc = "test" => \A n \in Nodes : keeper[n] \in {"up", "dead"}

(***************************************************************************)
(* A clean-up that gets to the end of the group, after a test that passed  *)
(* or raised, has stopped every keeper and has seen it end (start_keepers, *)
(* stop_keepers).  A keeper that died or was never started ends it before: *)
(* the ones after it then run on.                                          *)
(***************************************************************************)
CleanUpStopsAll ==
    pc = "over" /\ next > Len(Names) /\ (~manual \/ result = "ok")
        => \A n \in Nodes : keeper[n] = "dead"
=============================================================================

------------------------------- MODULE ClusterUp -------------------------------
(***************************************************************************)
(* The with-block of a Cluster (helpers/cluster.py): __enter__ calls up,   *)
(* which brings the docker-compose project up in at most MaxAttempts       *)
(* attempts and starts the servers one after another; __exit__ collects    *)
(* the logs of the services and calls down.                                *)
(*                                                                         *)
(* docker-compose is external.  Every docker-compose command of up is      *)
(* piped through tee, and the exit code of tee is 0: a command that failed *)
(* half way is not noticed.  The project outlives the program: a program   *)
(* that is killed, or ends with the containers still there, leaves them to *)
(* the next one.                                                           *)
(***************************************************************************)
EXTENDS Naturals, Sequences

CONSTANTS
    ZooKeepers, ClickHouses,  \* nodes["zookeeper"], nodes["clickhouse"], in order
    UseZooKeeperNodes,        \* use_zookeeper_nodes
    Debug, CollectLogs,       \* settings.debug, collect_service_logs
    MaxAttempts,              \* max_attempts of up
    MaxPrograms,              \* programs run one after another on the host
    MaxExits                  \* containers that end by themselves

Elements(s) == {s[i] : i \in DOMAIN s}

(* The nodes are services of one docker-compose file, so no name has two kinds *)
ASSUME ClusterUpAssumption ==
    /\ ZooKeepers \in Seq(STRING) /\ ClickHouses \in Seq(STRING)
    /\ Elements(ZooKeepers) \cap Elements(ClickHouses) = {}
    /\ UseZooKeeperNodes \in BOOLEAN /\ Debug \in BOOLEAN /\ CollectLogs \in BOOLEAN
    /\ MaxAttempts \in Nat \ {0} /\ MaxPrograms \in Nat \ {0} /\ MaxExits \in Nat

Nodes == Elements(ZooKeepers) \cup Elements(ClickHouses)

(* The nodes up waits for, in order *)
Order == (IF UseZooKeeperNodes THEN ZooKeepers ELSE << >>) \o ClickHouses

VARIABLES
    container,  \* of each node; "failed" is shown as Exit with a code by ps
    server,     \* of each node: started by this program or by an earlier one
    pc,
    attempt,
    unhealthy,  \* "is unhealthy" in the output of docker-compose up
    next,       \* index in Order
    program, exits

vars == <<container, server, pc, attempt, unhealthy, next, program, exits>>

docker == <<container, server, exits>>

TypeOK ==
    /\ container \in [Nodes -> {"none", "running", "failed"}]
    /\ server \in [Nodes -> {"none", "ours", "old"}]
    /\ pc \in {"pull", "down", "up", "check", "wait", "start", "entered", "raised",
               "logs", "message", "exit_down", "left", "exit_raised"}
    /\ attempt \in 1..MaxAttempts
    /\ unhealthy \in BOOLEAN
    /\ next \in 1..(Len(Order) + 1)
    /\ program \in 1..MaxPrograms
    /\ exits \in 0..MaxExits

Init ==
    /\ container = [n \in Nodes |-> "none"]
    /\ server = [n \in Nodes |-> "none"]
    /\ pc = "pull" /\ attempt = 1 /\ next = 1
    /\ unhealthy = FALSE
    /\ program = 1 /\ exits = 0

-----------------------------------------------------------------------------
(***************************************************************************)
(* docker-compose                                                          *)
(***************************************************************************)
(* down: removes the containers, or some of them when it fails *)
Removes(gone) ==
    /\ container' = [n \in Nodes |-> IF n \in gone THEN "none" ELSE container[n]]
    /\ server' = [n \in Nodes |-> IF n \in gone THEN "none" ELSE server[n]]

(***************************************************************************)
(* up --force-recreate: makes new containers, or some of them when it      *)
(* fails or stops because a service it depends on is unhealthy.            *)
(***************************************************************************)
Recreates(new) ==
    /\ container' = [n \in Nodes |-> IF n \in new THEN "running" ELSE container[n]]
    /\ server' = [n \in Nodes |-> IF n \in new THEN "none" ELSE server[n]]

ContainerExits(n) ==
    /\ exits < MaxExits
    /\ container[n] = "running"
    /\ container' = [container EXCEPT ![n] = "failed"]
    /\ server' = [server EXCEPT ![n] = "none"]
    /\ exits' = exits + 1
    /\ UNCHANGED <<pc, attempt, unhealthy, next, program>>

-----------------------------------------------------------------------------
(***************************************************************************)
(* up                                                                      *)
(***************************************************************************)
(* the tests for an exit code of pull and down never see one but 0 *)
Pull ==
    /\ pc = "pull"
    /\ pc' = "down"
    /\ UNCHANGED <<docker, attempt, unhealthy, next, program>>

Down ==
    /\ pc = "down"
    /\ \E gone \in SUBSET Nodes : Removes(gone)
    /\ pc' = "up"
    /\ UNCHANGED <<exits, attempt, unhealthy, next, program>>

Up ==
    /\ pc = "up"
    /\ \E new \in SUBSET Nodes : Recreates(new)
    /\ unhealthy' \in BOOLEAN
    /\ pc' = "check"
    /\ UNCHANGED <<exits, attempt, next, program>>

(* what ps and the output of docker-compose up show *)
SeenBroken == unhealthy \/ \E n \in Nodes : container[n] = "failed"

(* Mistakes: one attempt too many, and attempts that are not counted *)
CheckOneMore ==
    /\ pc = "check"
    /\ \/ ~SeenBroken /\ pc' = "wait" /\ UNCHANGED attempt
       \/ SeenBroken /\ attempt <= MaxAttempts /\ pc' = "pull" /\ attempt' = attempt + 1
       \/ SeenBroken /\ attempt > MaxAttempts /\ pc' = "raised" /\ UNCHANGED attempt
    /\ UNCHANGED <<docker, unhealthy, next, program>>

CheckForEver ==
    /\ pc = "check"
    /\ pc' = IF SeenBroken THEN "pull" ELSE "wait"
    /\ UNCHANGED <<docker, attempt, unhealthy, next, program>>

Check ==
    /\ pc = "check"
    /\ \/ ~SeenBroken /\ pc' = "wait" /\ UNCHANGED attempt
       \/ SeenBroken /\ attempt < MaxAttempts /\ pc' = "pull" /\ attempt' = attempt + 1
       \/ SeenBroken /\ attempt = MaxAttempts /\ pc' = "raised" /\ UNCHANGED attempt
    /\ UNCHANGED <<docker, unhealthy, next, program>>

(* Node.wait_healthy: the retries end in an exception if there is no container *)
WaitHealthy ==
    /\ pc = "wait" /\ next <= Len(Order)
    /\ pc' = IF container[Order[next]] = "running" THEN "start" ELSE "raised"
    /\ UNCHANGED <<docker, attempt, unhealthy, next, program>>

(* Mistake: start_clickhouse does not look for a pid file *)
StartsOnAny(n) ==
    \/ server[n] = "none" /\ server' = [server EXCEPT ![n] = "ours"]
    \/ server[n] # "none" /\ UNCHANGED server

(***************************************************************************)
(* start_zookeeper leaves a server alone that it finds; start_clickhouse   *)
(* raises when it finds one, and waits until its own is healthy.           *)
(***************************************************************************)
StartsOn(n) ==
    \/ server[n] = "none" /\ server' = [server EXCEPT ![n] = "ours"]
    \/ n \in Elements(ZooKeepers) /\ server[n] # "none" /\ UNCHANGED server

Start ==
    /\ pc = "start"
    /\ container[Order[next]] = "running"
    /\ StartsOn(Order[next])
    /\ pc' = "wait" /\ next' = next + 1
    /\ UNCHANGED <<container, exits, attempt, unhealthy, program>>

Entered ==
    /\ pc = "wait" /\ next > Len(Order)
    /\ pc' = "entered"
    /\ UNCHANGED <<docker, attempt, unhealthy, next, program>>

(* A command of up times out, or a server does not come up in time *)
Raises ==
    /\ pc \in {"pull", "down", "up", "check", "wait", "start"}
    /\ pc' = "raised"
    /\ UNCHANGED <<docker, attempt, unhealthy, next, program>>

-----------------------------------------------------------------------------
(***************************************************************************)
(* __exit__ and down.  The message down writes to the log of every server  *)
(* in debug mode comes before its try: on a node whose container is gone   *)
(* it raises.                                                              *)
(***************************************************************************)
Leave ==
    /\ pc = "entered"
    /\ pc' = IF CollectLogs THEN "logs" ELSE "message"
    /\ UNCHANGED <<docker, attempt, unhealthy, next, program>>

CollectServiceLogs ==
    /\ pc = "logs"
    /\ pc' \in {"message", "exit_raised"}
    /\ UNCHANGED <<docker, attempt, unhealthy, next, program>>

Message ==
    /\ pc = "message"
    /\ pc' = IF Debug /\ \E n \in Elements(ClickHouses) : container[n] # "running"
               THEN "exit_raised" ELSE "exit_down"
    /\ UNCHANGED <<docker, attempt, unhealthy, next, program>>

ExitDown ==
    /\ pc = "exit_down"
    /\ \E gone \in SUBSET Nodes : Removes(gone)
    /\ pc' \in {"left", "exit_raised"}
    /\ UNCHANGED <<exits, attempt, unhealthy, next, program>>

(* The program ends, or is killed, and another one is started on the same project *)
NextProgram ==
    /\ program < MaxPrograms
    /\ program' = program + 1
    /\ server' = [n \in Nodes |-> IF server[n] = "ours" THEN "old" ELSE server[n]]
    /\ pc' = "pull" /\ attempt' = 1 /\ next' = 1
    /\ unhealthy' = FALSE
    /\ UNCHANGED <<container, exits>>

Terminated ==
    /\ pc \in {"raised", "left", "exit_raised"} /\ program = MaxPrograms
    /\ UNCHANGED vars

Step == Pull \/ Down \/ Up \/ Check \/ WaitHealthy \/ Start \/ Entered \/ Raises
        \/ Leave \/ CollectServiceLogs \/ Message \/ ExitDown

Next == Step \/ (\E n \in Nodes : ContainerExits(n)) \/ NextProgram \/ Terminated

(* The program runs on: every command returns or times out *)
Spec == Init /\ [][Next]_vars /\ WF_vars(Step)

-----------------------------------------------------------------------------
(***************************************************************************)
(* The tests run only on ClickHouse servers that this program has started: *)
(* whatever failed unnoticed in docker-compose, a server that an earlier   *)
(* program left behind is never taken over (up, start_clickhouse).  A node *)
(* without a server has lost its container meanwhile.                      *)
(***************************************************************************)
ServersAreOurs ==
    pc = "entered" =>
        \A n \in Elements(ClickHouses) :
            server[n] = "ours" \/ (server[n] = "none" /\ container[n] # "running")

(***************************************************************************)
(* Every call of up ends: in the block, or with an exception after at most *)
(* MaxAttempts attempts.                                                   *)
(***************************************************************************)
UpEnds == [](pc = "pull" => <>(pc \in {"entered", "raised"}))
=============================================================================

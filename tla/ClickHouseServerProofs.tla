------------------------ MODULE ClickHouseServerProofs ------------------------
(***************************************************************************)
(* Proofs about ClickHouseServer for every number of servers, crashes and  *)
(* rounds of a wait.  The types hold for any threads; what the operations  *)
(* promise holds when one thread works on the node.                        *)
(***************************************************************************)
EXTENDS ClickHouseServer, TLAPS

(***************************************************************************)
(* The parts of the inductive invariant: first of the server alone, then   *)
(* of a thread and the server.                                             *)
(***************************************************************************)

(* One thread works on the node: the rm -rf of a second one could hit the  *)
(* pid file of a new server                                                *)
OneThread == \A t, u \in Threads : t = u

(* The pid file and the local pid name servers that have written the file *)
Written(p) == p \in Pids => proc[p] \notin {"none", "starting"}

(* At most one server is starting, in a container that runs, and there is  *)
(* no file yet                                                             *)
StartingAlone ==
    \A p \in Pids : proc[p] = "starting" =>
        /\ pidfile = NoPid /\ container = "up"
        /\ \A q \in Pids : proc[q] = "starting" => p = q

ServerInv == Written(pidfile) /\ StartingAlone /\ ServerIsNamed

(* Between kill -TERM and the removal of the file the pid is a number *)
PidAt(t) == pc[t] \in {"kill", "ps", "rm"} => pid[t] \in Pids

(* A server is starting only while it is waited for *)
LaunchAt(t) ==
    /\ \A p \in Pids : proc[p] = "starting" => pc[t] = "pidwait"
    /\ pc[t] = "launch" => pidfile = NoPid

(* In the steps of a stop the pid is the one of the only server there is *)
StopAt(t) ==
    /\ pc[t] \in {"term", "kill", "ps", "rm"} => \A q \in Pids : Owns(q) => pid[t] = q
    /\ pc[t] = "rm" => ~Alive(pid[t])

(* The result is that of the last operation, and stop_clickhouse only stops *)
ResultAt(t) ==
    /\ pc[t] # "idle" => result[t] = "none"
    /\ op[t] = "stop_clickhouse" =>
          pc[t] \in {"idle", "safe", "find", "find_cat", "term", "kill", "ps", "rm"}

Stops == {"stop_clickhouse", "restart_clickhouse", "stop", "restart"}

(***************************************************************************)
(* What has become of the servers that were up at the call: before the     *)
(* stop an alive one is the owner of the pid file, during the stop it is   *)
(* the one that is waited for, and after it there is none.                 *)
(***************************************************************************)
BeforeAt(t) ==
    \A p \in before[t] :
        /\ proc[p] \notin {"none", "starting"}
        /\ op[t] \in Stops /\ Alive(p) =>
              /\ pc[t] \in {"check", "check_cat", "safe", "find", "find_cat", "term"}
                    => Owns(p)
              /\ pc[t] \in {"kill", "ps", "rm"} => p = pid[t]
              /\ pc[t] \notin {"first", "first_cat", "launch", "pidwait", "healthy"}
              /\ result[t] # "ok"

ThreadInv(t) ==
    PidAt(t) /\ Written(pid[t]) /\ LaunchAt(t) /\ StopAt(t) /\ ResultAt(t) /\ BeforeAt(t)

IInv == TypeOK /\ ServerInv /\ \A t \in Threads : ThreadInv(t)

LEMMA NotPids == NoPid \notin Pids /\ Garbage \notin Pids /\ NoPid # Garbage
BY ClickHouseServerAssumption DEF Pids

-----------------------------------------------------------------------------
(***************************************************************************)
(* The types, for any threads.  The rounds of the waits are counted up to  *)
(* MaxPolls; everything else follows from the assignments of each action.  *)
(***************************************************************************)
PollsOK == polls \in [Threads -> 0..MaxPolls]

LEMMA NextRound ==
    ASSUME PollsOK, NEW t \in Threads
    PROVE  /\ [polls EXCEPT ![t] = 0] \in [Threads -> 0..MaxPolls]
           /\ polls[t] < MaxPolls =>
                [polls EXCEPT ![t] = @ + 1] \in [Threads -> 0..MaxPolls]
<1>1. MaxPolls \in Nat /\ 0 \in 0..MaxPolls
  BY ClickHouseServerAssumption
<1>2. polls[t] \in 0..MaxPolls
  BY DEF PollsOK
<1>3. polls[t] < MaxPolls => polls[t] + 1 \in 0..MaxPolls
  BY <1>1, <1>2
<1> QED BY <1>1, <1>3 DEF PollsOK

LEMMA StepPolls ==
    ASSUME PollsOK, NEW t \in Threads, Step(t)
    PROVE  PollsOK'
<1>1. CASE Unreachable(t)
  BY <1>1, NextRound DEF Unreachable, Goto, Ends, PollsOK
<1>2. CASE CheckLs(t)
  BY <1>2, NextRound DEF CheckLs, AfterStop, Goto, Ends, PollsOK
<1>3. CASE CheckCat(t)
  BY <1>3, NextRound DEF CheckCat, Goto, Ends, PollsOK
<1>4. CASE Safe(t)
  BY <1>4, NextRound DEF Safe, Goto, Ends, PollsOK
<1>5. CASE Unsafe(t)
  BY <1>5, NextRound DEF Unsafe, Goto, Ends, PollsOK
<1>6. CASE FindLs(t)
  BY <1>6, NextRound DEF FindLs, Goto, Ends, PollsOK
<1>7. CASE FindCat(t)
  BY <1>7, NextRound DEF FindCat, Goto, Ends, PollsOK
<1>8. CASE Term(t)
  BY <1>8, NextRound DEF Term, Goto, Ends, PollsOK
<1>9. CASE Kill(t)
  BY <1>9, NextRound DEF Kill, Goto, Ends, PollsOK
<1>10. CASE Ps(t)
  BY <1>10, NextRound DEF Ps, Again, Goto, Ends, PollsOK
<1>11. CASE Rm(t)
  BY <1>11, NextRound DEF Rm, AfterStop, Goto, Ends, PollsOK
<1>12. CASE Compose(t)
  BY <1>12, NextRound DEF Compose, Goto, Ends, PollsOK
<1>13. CASE ComposeFails(t)
  BY <1>13, NextRound DEF ComposeFails, Goto, Ends, PollsOK
<1>14. CASE FirstLs(t)
  BY <1>14, NextRound DEF FirstLs, Goto, Ends, PollsOK
<1>15. CASE FirstCat(t)
  BY <1>15, NextRound DEF FirstCat, Goto, Ends, PollsOK
<1>16. CASE Launch(t)
  BY <1>16, NextRound DEF Launch, Goto, Ends, PollsOK
<1>17. CASE LaunchFails(t)
  BY <1>17, NextRound DEF LaunchFails, Goto, Ends, PollsOK
<1>18. CASE PidWait(t)
  BY <1>18, NextRound DEF PidWait, Wait, Goto, Ends, PollsOK
<1>19. CASE Healthy(t)
  BY <1>19, NextRound DEF Healthy, Wait, Goto, Ends, PollsOK
<1> QED BY <1>1, <1>2, <1>3, <1>4, <1>5, <1>6, <1>7, <1>8, <1>9, <1>10, <1>11, <1>12,
    <1>13, <1>14, <1>15, <1>16, <1>17, <1>18, <1>19 DEF Step

RestOK ==
    /\ container \in {"up", "stopped"}
    /\ proc \in [Pids -> {"none", "starting", "booting", "running", "stopping",
                          "killed", "dead"}]
    /\ pidfile \in Pids \cup {NoPid}
    /\ crashes \in 0..MaxCrashes
    /\ pc \in [Threads -> Inside \cup {"idle", "compose"}]
    /\ op \in [Threads -> Ops]
    /\ pid \in [Threads -> Pids \cup {NoPid, Garbage}]
    /\ before \in [Threads -> SUBSET Pids]
    /\ result \in [Threads -> {"none", "ok", "raised", "already running"}]

LEMMA StepRest ==
    ASSUME RestOK, NEW t \in Threads, PidAt(t), Step(t)
    PROVE  RestOK'
<1>1. CASE Unreachable(t)
  BY <1>1 DEF Unreachable, In, Inside, Goto, Ends, RestOK, PidAt, server
<1>2. CASE CheckLs(t)
  BY <1>2 DEF CheckLs, In, Inside, Goto, Ends, RestOK, PidAt, server, AfterStop
<1>3. CASE CheckCat(t)
  BY <1>3 DEF CheckCat, In, Inside, Goto, Ends, RestOK, PidAt, server
<1>4. CASE Safe(t)
  BY <1>4 DEF Safe, In, Inside, Goto, Ends, RestOK, PidAt, server
<1>5. CASE Unsafe(t)
  BY <1>5 DEF Unsafe, In, Inside, Goto, Ends, RestOK, PidAt, server
<1>6. CASE FindLs(t)
  BY <1>6 DEF FindLs, In, Inside, Goto, Ends, RestOK, PidAt, server
<1>7. CASE FindCat(t)
  BY <1>7 DEF FindCat, In, Inside, Goto, Ends, RestOK, PidAt, server, Catted
<1>8. CASE Term(t)
  BY <1>8 DEF Term, In, Inside, Goto, Ends, RestOK, PidAt, server
<1>9. CASE Kill(t)
  BY <1>9 DEF Kill, In, Inside, Goto, Ends, RestOK, PidAt, server
<1>10. CASE Ps(t)
  BY <1>10 DEF Ps, In, Inside, Goto, Ends, RestOK, PidAt, server, Again
<1>11. CASE Rm(t)
  BY <1>11 DEF Rm, In, Inside, Goto, Ends, RestOK, PidAt, server, AfterStop
<1>12. CASE Compose(t)
  BY <1>12 DEF Compose, In, Inside, Goto, Ends, RestOK, PidAt, server
<1>13. CASE ComposeFails(t)
  BY <1>13 DEF ComposeFails, In, Inside, Goto, Ends, RestOK, PidAt, server
<1>14. CASE FirstLs(t)
  BY <1>14 DEF FirstLs, In, Inside, Goto, Ends, RestOK, PidAt, server
<1>15. CASE FirstCat(t)
  BY <1>15 DEF FirstCat, In, Inside, Goto, Ends, RestOK, PidAt, server, Catted
<1>16. CASE Launch(t)
  BY <1>16 DEF Launch, In, Inside, Goto, Ends, RestOK, PidAt, server
<1>17. CASE LaunchFails(t)
  BY <1>17 DEF LaunchFails, In, Inside, Goto, Ends, RestOK, PidAt, server
<1>18. CASE PidWait(t)
  BY <1>18 DEF PidWait, In, Inside, Goto, Ends, RestOK, PidAt, server, Wait
<1>19. CASE Healthy(t)
  BY <1>19 DEF Healthy, In, Inside, Goto, Ends, RestOK, PidAt, server, Wait
<1> QED BY <1>1, <1>2, <1>3, <1>4, <1>5, <1>6, <1>7, <1>8, <1>9, <1>10, <1>11, <1>12,
    <1>13, <1>14, <1>15, <1>16, <1>17, <1>18, <1>19 DEF Step

LEMMA ServerType ==
    ASSUME TypeOK, NEW p \in Pids, Server(p)
    PROVE  TypeOK'
<1>1. crashes \in 0..MaxCrashes /\ MaxCrashes \in Nat
  BY ClickHouseServerAssumption DEF TypeOK
<1>2. crashes < MaxCrashes => crashes + 1 \in 0..MaxCrashes
  BY <1>1
<1>3. UNCHANGED <<pc, op, pid, polls, before, result>>
  BY DEF Server
<1>4. CASE ComesUp(p)
  BY <1>3, <1>4 DEF ComesUp, TypeOK
<1>5. CASE Serves(p)
  BY <1>3, <1>5 DEF Serves, TypeOK
<1>6. CASE Dies(p)
  BY <1>3, <1>6 DEF Dies, TypeOK
<1>7. CASE Crashes(p)
  BY <1>2, <1>3, <1>7 DEF Crashes, TypeOK
<1> QED BY <1>4, <1>5, <1>6, <1>7 DEF Server

LEMMA CallType ==
    ASSUME TypeOK, NEW t \in Threads, NEW o \in Ops, Call(t, o)
    PROVE  TypeOK'
BY DEF Call, TypeOK, Inside, Ops, Up, server

-----------------------------------------------------------------------------
(***************************************************************************)
(* A step of a thread keeps what is known of the server and of itself.     *)
(***************************************************************************)
Same(t) == op'[t] = op[t] /\ before'[t] = before[t]

Still(t) == proc' = proc /\ pidfile' = pidfile /\ container' = container /\ pid'[t] = pid[t]

LEMMA GotoAt ==
    ASSUME TypeOK, NEW t \in Threads, NEW step, Goto(t, step)
    PROVE  Same(t) /\ pc'[t] = step /\ result'[t] = result[t]
BY DEF TypeOK, Goto, Same

LEMMA EndsAt ==
    ASSUME TypeOK, NEW t \in Threads, NEW how, Ends(t, how)
    PROVE  Same(t) /\ pc'[t] = "idle" /\ result'[t] = how
BY DEF TypeOK, Ends, Same

LEMMA AfterStopAt ==
    ASSUME TypeOK, NEW t \in Threads, AfterStop(t)
    PROVE  /\ Same(t)
           /\ \/ op[t] = "stop_clickhouse" /\ pc'[t] = "idle" /\ result'[t] = "ok"
              \/ /\ op[t] = "restart_clickhouse" /\ pc'[t] = "first"
                 /\ result'[t] = result[t]
              \/ /\ op[t] \notin {"stop_clickhouse", "restart_clickhouse"}
                 /\ pc'[t] = "compose" /\ result'[t] = result[t]
BY GotoAt, EndsAt DEF AfterStop

LEMMA WaitAt ==
    ASSUME TypeOK, NEW t \in Threads, NEW condition \in BOOLEAN, NEW step,
           Wait(t, condition, step)
    PROVE  /\ Same(t)
           /\ \/ condition /\ pc'[t] = step /\ result'[t] = result[t]
              \/ ~condition /\ polls[t] < MaxPolls /\ pc'[t] = pc[t] /\ result'[t] = result[t]
              \/ /\ ~condition /\ ~(polls[t] < MaxPolls)
                 /\ pc'[t] = "idle" /\ result'[t] = "raised"
BY GotoAt, EndsAt DEF Wait, Same

LEMMA StepKeeps ==
    ASSUME TypeOK, ServerInv, NEW t \in Threads, ThreadInv(t), Step(t)
    PROVE  ServerInv' /\ ThreadInv(t)'
<1>1. CASE Unreachable(t)
  <2>1. /\ Same(t) /\ Still(t)
        /\ container = "stopped" /\ pc'[t] = "idle" /\ result'[t] = "raised"
    BY <1>1, EndsAt DEF Unreachable, In, server, Still
  <2> QED BY <2>1, NotPids DEF Same, Still, TypeOK, ServerInv, ThreadInv, Written,
      StartingAlone, ServerIsNamed, PidAt, LaunchAt, StopAt, ResultAt, BeforeAt, Owns,
      Up, Alive, Stops, Ops, Inside
<1>2. CASE CheckLs(t)
  <2>1. /\ Same(t) /\ Still(t)
        /\ pc[t] = "check"
        /\ \/ pidfile # NoPid /\ pc'[t] = "check_cat" /\ result'[t] = result[t]
           \/ /\ pidfile = NoPid
              /\ \/ op[t] = "stop_clickhouse" /\ pc'[t] = "idle" /\ result'[t] = "ok"
                 \/ op[t] # "stop_clickhouse" /\ pc'[t] \in {"first", "compose"} /\ result'[t] = result[t]
    BY <1>2, AfterStopAt, GotoAt DEF CheckLs, In, server, Still
  <2>2. Written(pidfile)'
    BY <2>1, NotPids DEF Same, Still, TypeOK, ServerInv, ThreadInv, Written, Alive,
        StopAt
  <2>3. StartingAlone'
    BY <2>1, NotPids DEF Same, Still, TypeOK, ServerInv, ThreadInv, StartingAlone,
        LaunchAt, Written, Alive, PidAt
  <2>4. ServerIsNamed'
    BY <2>1, NotPids DEF Same, Still, TypeOK, ServerInv, ThreadInv, ServerIsNamed,
        StopAt, PidAt, Written, Owns, Up, Alive
  <2>5. PidAt(t)'
    BY <2>1, NotPids DEF Same, Still, TypeOK, ServerInv, ThreadInv, PidAt
  <2>6. Written(pid[t])'
    BY <2>1, NotPids DEF Same, Still, TypeOK, ServerInv, ThreadInv, Written, Alive
  <2>7. LaunchAt(t)'
    BY <2>1, NotPids DEF Same, Still, TypeOK, ServerInv, ThreadInv, LaunchAt,
        StartingAlone, Written, Alive, PidAt
  <2>8. StopAt(t)'
    BY <2>1, NotPids DEF Same, Still, TypeOK, ServerInv, ThreadInv, StopAt,
        ServerIsNamed, StartingAlone, LaunchAt, PidAt, Written, Owns, Up, Alive
  <2>9. ResultAt(t)'
    BY <2>1, NotPids DEF Same, Still, TypeOK, ServerInv, ThreadInv, ResultAt
  <2>10. BeforeAt(t)'
    <3>1. (\A q \in before[t] : q \in Pids) /\ proc = [q \in Pids |-> proc[q]]
      BY DEF TypeOK
    <3> QED BY <3>1, <2>1, NotPids DEF Same, Still, ServerInv, ThreadInv, BeforeAt,
        StopAt, ServerIsNamed, ResultAt, PidAt, Written, Stops, Ops, Owns, Up, Alive
  <2> QED BY <2>2, <2>3, <2>4, <2>5, <2>6, <2>7, <2>8, <2>9, <2>10 DEF ServerInv,
      ThreadInv
<1>3. CASE CheckCat(t)
  <2>1. /\ Same(t) /\ Still(t)
        /\ pc[t] = "check_cat" /\ pc'[t] = "safe" /\ result'[t] = result[t]
    BY <1>3, GotoAt DEF CheckCat, In, server, Still
  <2> QED BY <2>1, NotPids DEF Same, Still, TypeOK, ServerInv, ThreadInv, Written,
      StartingAlone, ServerIsNamed, PidAt, LaunchAt, StopAt, ResultAt, BeforeAt, Owns,
      Up, Alive, Stops, Ops, Inside
<1>4. CASE Safe(t)
  <2>1. /\ Same(t) /\ Still(t)
        /\ pc[t] = "safe"
        /\ (pc'[t] = "find" /\ result'[t] = result[t]) \/ (pc'[t] = "idle" /\ result'[t] = "raised")
    BY <1>4, GotoAt, EndsAt DEF Safe, In, server, Still
  <2> QED BY <2>1, NotPids DEF Same, Still, TypeOK, ServerInv, ThreadInv, Written,
      StartingAlone, ServerIsNamed, PidAt, LaunchAt, StopAt, ResultAt, BeforeAt, Owns,
      Up, Alive, Stops, Ops, Inside
<1>5. CASE Unsafe(t)
  <2>1. /\ Same(t) /\ Still(t)
        /\ pc[t] = "safe" /\ pc'[t] = "find" /\ result'[t] = result[t]
    BY <1>5, GotoAt DEF Unsafe, In, server, Still
  <2> QED BY <2>1, NotPids DEF Same, Still, TypeOK, ServerInv, ThreadInv, Written,
      StartingAlone, ServerIsNamed, PidAt, LaunchAt, StopAt, ResultAt, BeforeAt, Owns,
      Up, Alive, Stops, Ops, Inside
<1>6. CASE FindLs(t)
  <2>1. /\ Same(t) /\ proc' = proc /\ pidfile' = pidfile /\ container' = container
        /\ pc[t] = "find" /\ pid'[t] = NoPid /\ result'[t] = result[t]
        /\ \/ pidfile = NoPid /\ pc'[t] = "term"
           \/ pc'[t] = "find_cat"
    BY <1>6, GotoAt DEF FindLs, In, server, TypeOK
  <2> QED BY <2>1, NotPids DEF Same, TypeOK, ServerInv, ThreadInv, Written,
      StartingAlone, ServerIsNamed, PidAt, LaunchAt, StopAt, ResultAt, BeforeAt, Owns,
      Up, Alive, Stops, Ops, Inside
<1>7. CASE FindCat(t)
  <2>1. /\ Same(t) /\ proc' = proc /\ pidfile' = pidfile /\ container' = container
        /\ pc[t] = "find_cat" /\ pc'[t] = "term" /\ result'[t] = result[t]
        /\ pid'[t] = IF pidfile = NoPid THEN Garbage ELSE pidfile
    BY <1>7, GotoAt DEF FindCat, In, server, Catted, TypeOK
  <2>2. Written(pidfile)'
    BY <2>1, NotPids DEF Same, TypeOK, ServerInv, ThreadInv, Written, Alive, StopAt
  <2>3. StartingAlone'
    BY <2>1, NotPids DEF Same, TypeOK, ServerInv, ThreadInv, StartingAlone, LaunchAt,
        Written, Alive, PidAt
  <2>4. ServerIsNamed'
    BY <2>1, NotPids DEF Same, TypeOK, ServerInv, ThreadInv, ServerIsNamed, StopAt,
        PidAt, Written, Owns, Up, Alive
  <2>5. PidAt(t)'
    BY <2>1, NotPids DEF Same, TypeOK, ServerInv, ThreadInv, PidAt
  <2>6. Written(pid[t])'
    BY <2>1, NotPids DEF Same, TypeOK, ServerInv, ThreadInv, Written, Alive
  <2>7. LaunchAt(t)'
    BY <2>1, NotPids DEF Same, TypeOK, ServerInv, ThreadInv, LaunchAt, StartingAlone,
        Written, Alive, PidAt
  <2>8. StopAt(t)'
    BY <2>1, NotPids DEF Same, TypeOK, ServerInv, ThreadInv, StopAt, ServerIsNamed,
        StartingAlone, LaunchAt, PidAt, Written, Owns, Up, Alive
  <2>9. ResultAt(t)'
    BY <2>1, NotPids DEF Same, TypeOK, ServerInv, ThreadInv, ResultAt
  <2>10. BeforeAt(t)'
    <3>1. (\A q \in before[t] : q \in Pids) /\ proc = [q \in Pids |-> proc[q]]
      BY DEF TypeOK
    <3> QED BY <3>1, <2>1, NotPids DEF Same, ServerInv, ThreadInv, BeforeAt, StopAt,
        ServerIsNamed, ResultAt, PidAt, Written, Stops, Ops, Owns, Up, Alive
  <2> QED BY <2>2, <2>3, <2>4, <2>5, <2>6, <2>7, <2>8, <2>9, <2>10 DEF ServerInv,
      ThreadInv
<1>8. CASE Term(t)
  <2>1. /\ Same(t) /\ pidfile' = pidfile /\ container' = container /\ pid'[t] = pid[t] /\ pc[t] = "term"
        /\ \/ /\ pid[t] \in Pids /\ Alive(pid[t]) /\ pc'[t] = "kill" /\ result'[t] = result[t]
              /\ proc' = [proc EXCEPT ![pid[t]] = IF @ = "killed" THEN @ ELSE "stopping"]
           \/ ~(pid[t] \in Pids /\ Alive(pid[t])) /\ proc' = proc /\ pc'[t] = "idle" /\ result'[t] = "raised"
    BY <1>8, GotoAt, EndsAt DEF Term, In, server
  <2>2. Written(pidfile)'
    BY <2>1, NotPids DEF Same, TypeOK, ServerInv, ThreadInv, Written, Alive, StopAt
  <2>3. StartingAlone'
    BY <2>1, NotPids DEF Same, TypeOK, ServerInv, ThreadInv, StartingAlone, LaunchAt,
        Written, Alive, PidAt
  <2>4. ServerIsNamed'
    BY <2>1, NotPids DEF Same, TypeOK, ServerInv, ThreadInv, ServerIsNamed, StopAt,
        PidAt, Written, Owns, Up, Alive
  <2>5. PidAt(t)'
    BY <2>1, NotPids DEF Same, TypeOK, ServerInv, ThreadInv, PidAt
  <2>6. Written(pid[t])'
    BY <2>1, NotPids DEF Same, TypeOK, ServerInv, ThreadInv, Written, Alive
  <2>7. LaunchAt(t)'
    BY <2>1, NotPids DEF Same, TypeOK, ServerInv, ThreadInv, LaunchAt, StartingAlone,
        Written, Alive, PidAt
  <2>8. StopAt(t)'
    BY <2>1, NotPids DEF Same, TypeOK, ServerInv, ThreadInv, StopAt, ServerIsNamed,
        StartingAlone, LaunchAt, PidAt, Written, Owns, Up, Alive
  <2>9. ResultAt(t)'
    BY <2>1, NotPids DEF Same, TypeOK, ServerInv, ThreadInv, ResultAt
  <2>10. BeforeAt(t)'
    <3>1. (\A q \in before[t] : q \in Pids) /\ proc = [q \in Pids |-> proc[q]]
      BY DEF TypeOK
    <3> QED BY <3>1, <2>1, NotPids DEF Same, ServerInv, ThreadInv, BeforeAt, StopAt,
        ServerIsNamed, ResultAt, PidAt, Written, Stops, Ops, Owns, Up, Alive
  <2> QED BY <2>2, <2>3, <2>4, <2>5, <2>6, <2>7, <2>8, <2>9, <2>10 DEF ServerInv,
      ThreadInv
<1>9. CASE Kill(t)
  <2>1. /\ Same(t) /\ pidfile' = pidfile /\ container' = container /\ pid'[t] = pid[t]
        /\ pc[t] = "kill" /\ pc'[t] = "ps" /\ result'[t] = result[t]
        /\ \/ proc' = proc
           \/ Alive(pid[t]) /\ proc' = [proc EXCEPT ![pid[t]] = "killed"]
    BY <1>9 DEF Kill, In, server, Same, TypeOK
  <2>2. Written(pidfile)'
    BY <2>1, NotPids DEF Same, TypeOK, ServerInv, ThreadInv, Written, Alive, StopAt
  <2>3. StartingAlone'
    BY <2>1, NotPids DEF Same, TypeOK, ServerInv, ThreadInv, StartingAlone, LaunchAt,
        Written, Alive, PidAt
  <2>4. ServerIsNamed'
    BY <2>1, NotPids DEF Same, TypeOK, ServerInv, ThreadInv, ServerIsNamed, StopAt,
        PidAt, Written, Owns, Up, Alive
  <2>5. PidAt(t)'
    BY <2>1, NotPids DEF Same, TypeOK, ServerInv, ThreadInv, PidAt
  <2>6. Written(pid[t])'
    BY <2>1, NotPids DEF Same, TypeOK, ServerInv, ThreadInv, Written, Alive
  <2>7. LaunchAt(t)'
    BY <2>1, NotPids DEF Same, TypeOK, ServerInv, ThreadInv, LaunchAt, StartingAlone,
        Written, Alive, PidAt
  <2>8. StopAt(t)'
    BY <2>1, NotPids DEF Same, TypeOK, ServerInv, ThreadInv, StopAt, ServerIsNamed,
        StartingAlone, LaunchAt, PidAt, Written, Owns, Up, Alive
  <2>9. ResultAt(t)'
    BY <2>1, NotPids DEF Same, TypeOK, ServerInv, ThreadInv, ResultAt
  <2>10. BeforeAt(t)'
    <3>1. (\A q \in before[t] : q \in Pids) /\ proc = [q \in Pids |-> proc[q]]
      BY DEF TypeOK
    <3> QED BY <3>1, <2>1, NotPids DEF Same, ServerInv, ThreadInv, BeforeAt, StopAt,
        ServerIsNamed, ResultAt, PidAt, Written, Stops, Ops, Owns, Up, Alive
  <2> QED BY <2>2, <2>3, <2>4, <2>5, <2>6, <2>7, <2>8, <2>9, <2>10 DEF ServerInv,
      ThreadInv
<1>10. CASE Ps(t)
  <2>1. /\ Same(t) /\ Still(t)
        /\ pc[t] = "ps"
        /\ \/ ~Alive(pid[t]) /\ pc'[t] = "rm" /\ result'[t] = result[t]
           \/ pc'[t] = "kill" /\ result'[t] = result[t]
           \/ pc'[t] = "idle" /\ result'[t] = "raised"
    BY <1>10, GotoAt, EndsAt DEF Ps, In, server, Still, Again, Same, TypeOK
  <2> QED BY <2>1, NotPids DEF Same, Still, TypeOK, ServerInv, ThreadInv, Written,
      StartingAlone, ServerIsNamed, PidAt, LaunchAt, StopAt, ResultAt, BeforeAt, Owns,
      Up, Alive, Stops, Ops, Inside
<1>11. CASE Rm(t)
  <2>1. /\ Same(t) /\ proc' = proc /\ container' = container /\ pid'[t] = pid[t] /\ pidfile' = NoPid
        /\ pc[t] = "rm"
        /\ \/ op[t] = "stop_clickhouse" /\ pc'[t] = "idle" /\ result'[t] = "ok"
           \/ op[t] = "restart_clickhouse" /\ pc'[t] = "first" /\ result'[t] = result[t]
           \/ op[t] \notin {"stop_clickhouse", "restart_clickhouse"} /\ pc'[t] = "compose" /\ result'[t] = result[t]
    BY <1>11, AfterStopAt DEF Rm, In, server
  <2> QED BY <2>1, NotPids DEF Same, TypeOK, ServerInv, ThreadInv, Written,
      StartingAlone, ServerIsNamed, PidAt, LaunchAt, StopAt, ResultAt, BeforeAt, Owns,
      Up, Alive, Stops, Ops, Inside
<1>12. CASE Compose(t)
  <2>1. /\ Same(t) /\ pidfile' = pidfile /\ pid'[t] = pid[t] /\ pc[t] = "compose"
        /\ \/ op[t] = "start" /\ proc' = proc /\ container' = "up"
           \/ op[t] # "start" /\ proc' = [p \in Pids |-> IF Alive(p) THEN "dead" ELSE proc[p]]
        /\ \/ op[t] = "stop" /\ pc'[t] = "idle" /\ result'[t] = "ok"
           \/ op[t] # "stop" /\ pc'[t] = "first" /\ result'[t] = result[t]
           \/ op[t] # "stop" /\ pc'[t] = "idle" /\ result'[t] = "ok"
    BY <1>12, GotoAt, EndsAt DEF Compose, In, server
  <2>2. Written(pidfile)'
    BY <2>1, NotPids DEF Same, TypeOK, ServerInv, ThreadInv, Written, Alive, StopAt
  <2>3. StartingAlone'
    BY <2>1, NotPids DEF Same, TypeOK, ServerInv, ThreadInv, StartingAlone, LaunchAt,
        Written, Alive, PidAt
  <2>4. ServerIsNamed'
    BY <2>1, NotPids DEF Same, TypeOK, ServerInv, ThreadInv, ServerIsNamed, StopAt,
        PidAt, Written, Owns, Up, Alive
  <2>5. PidAt(t)'
    BY <2>1, NotPids DEF Same, TypeOK, ServerInv, ThreadInv, PidAt
  <2>6. Written(pid[t])'
    BY <2>1, NotPids DEF Same, TypeOK, ServerInv, ThreadInv, Written, Alive
  <2>7. LaunchAt(t)'
    BY <2>1, NotPids DEF Same, TypeOK, ServerInv, ThreadInv, LaunchAt, StartingAlone,
        Written, Alive, PidAt
  <2>8. StopAt(t)'
    BY <2>1, NotPids DEF Same, TypeOK, ServerInv, ThreadInv, StopAt, ServerIsNamed,
        StartingAlone, LaunchAt, PidAt, Written, Owns, Up, Alive
  <2>9. ResultAt(t)'
    BY <2>1, NotPids DEF Same, TypeOK, ServerInv, ThreadInv, ResultAt
  <2>10. BeforeAt(t)'
    <3>1. (\A q \in before[t] : q \in Pids) /\ proc = [q \in Pids |-> proc[q]]
      BY DEF TypeOK
    <3> QED BY <3>1, <2>1, NotPids DEF Same, ServerInv, ThreadInv, BeforeAt, StopAt,
        ServerIsNamed, ResultAt, PidAt, Written, Stops, Ops, Owns, Up, Alive
  <2> QED BY <2>2, <2>3, <2>4, <2>5, <2>6, <2>7, <2>8, <2>9, <2>10 DEF ServerInv,
      ThreadInv
<1>13. CASE ComposeFails(t)
  <2>1. /\ Same(t) /\ Still(t)
        /\ pc[t] = "compose" /\ pc'[t] = "idle" /\ result'[t] = "raised"
    BY <1>13, EndsAt DEF ComposeFails, In, server, Still
  <2> QED BY <2>1, NotPids DEF Same, Still, TypeOK, ServerInv, ThreadInv, Written,
      StartingAlone, ServerIsNamed, PidAt, LaunchAt, StopAt, ResultAt, BeforeAt, Owns,
      Up, Alive, Stops, Ops, Inside
<1>14. CASE FirstLs(t)
  <2>1. /\ Same(t) /\ Still(t)
        /\ pc[t] = "first"
        /\ \/ pidfile = NoPid /\ pc'[t] = "launch" /\ result'[t] = result[t]
           \/ pc'[t] = "first_cat" /\ result'[t] = result[t]
    BY <1>14, GotoAt DEF FirstLs, In, server, Still
  <2> QED BY <2>1, NotPids DEF Same, Still, TypeOK, ServerInv, ThreadInv, Written,
      StartingAlone, ServerIsNamed, PidAt, LaunchAt, StopAt, ResultAt, BeforeAt, Owns,
      Up, Alive, Stops, Ops, Inside
<1>15. CASE FirstCat(t)
  <2>1. /\ Same(t) /\ proc' = proc /\ pidfile' = pidfile /\ container' = container
        /\ pc[t] = "first_cat" /\ pc'[t] = "idle" /\ result'[t] = "already running"
        /\ pid'[t] = IF pidfile = NoPid THEN Garbage ELSE pidfile
    BY <1>15, EndsAt DEF FirstCat, In, server, Catted, TypeOK
  <2> QED BY <2>1, NotPids DEF Same, TypeOK, ServerInv, ThreadInv, Written,
      StartingAlone, ServerIsNamed, PidAt, LaunchAt, StopAt, ResultAt, BeforeAt, Owns,
      Up, Alive, Stops, Ops, Inside
<1>16. CASE Launch(t)
  <2>0. PICK p \in Pids : proc[p] = "none" /\ proc' = [proc EXCEPT ![p] = "starting"]
    BY <1>16 DEF Launch
  <2>1. /\ Same(t) /\ pidfile' = pidfile /\ container' = container /\ container = "up"
        /\ pid'[t] = pid[t] /\ pc[t] = "launch" /\ pc'[t] = "pidwait"
        /\ result'[t] = result[t] /\ pidfile = NoPid
        /\ proc'[p] = "starting" /\ \A q \in Pids \ {p} : proc'[q] = proc[q]
    BY <1>16, <2>0, GotoAt DEF Launch, In, server, TypeOK, ThreadInv, LaunchAt
  <2>2. Written(pidfile)'
    BY <2>0, <2>1, NotPids DEF Same, TypeOK, ServerInv, ThreadInv, Written, Alive,
        StopAt
  <2>3. StartingAlone'
    BY <2>0, <2>1, NotPids DEF Same, TypeOK, ServerInv, ThreadInv, StartingAlone,
        LaunchAt, Written, Alive, PidAt
  <2>4. ServerIsNamed'
    BY <2>0, <2>1, NotPids DEF Same, TypeOK, ServerInv, ThreadInv, ServerIsNamed,
        StopAt, PidAt, Written, Owns, Up, Alive
  <2>5. PidAt(t)'
    BY <2>0, <2>1, NotPids DEF Same, TypeOK, ServerInv, ThreadInv, PidAt
  <2>6. Written(pid[t])'
    BY <2>0, <2>1, NotPids DEF Same, TypeOK, ServerInv, ThreadInv, Written, Alive
  <2>7. LaunchAt(t)'
    BY <2>0, <2>1, NotPids DEF Same, TypeOK, ServerInv, ThreadInv, LaunchAt,
        StartingAlone, Written, Alive, PidAt
  <2>8. StopAt(t)'
    BY <2>0, <2>1, NotPids DEF Same, TypeOK, ServerInv, ThreadInv, StopAt,
        ServerIsNamed, StartingAlone, LaunchAt, PidAt, Written, Owns, Up, Alive
  <2>9. ResultAt(t)'
    BY <2>0, <2>1, NotPids DEF Same, TypeOK, ServerInv, ThreadInv, ResultAt
  <2>10. BeforeAt(t)'
    BY <2>0, <2>1, NotPids DEF Same, TypeOK, ServerInv, ThreadInv, BeforeAt, StopAt,
        ServerIsNamed, ResultAt, PidAt, Written, Stops, Ops, Owns, Up, Alive
  <2> QED BY <2>2, <2>3, <2>4, <2>5, <2>6, <2>7, <2>8, <2>9, <2>10 DEF ServerInv,
      ThreadInv
<1>17. CASE LaunchFails(t)
  <2>1. /\ Same(t) /\ Still(t)
        /\ pc[t] = "launch" /\ pc'[t] = "idle" /\ result'[t] = "raised"
    BY <1>17, EndsAt DEF LaunchFails, In, server, Still
  <2> QED BY <2>1, NotPids DEF Same, Still, TypeOK, ServerInv, ThreadInv, Written,
      StartingAlone, ServerIsNamed, PidAt, LaunchAt, StopAt, ResultAt, BeforeAt, Owns,
      Up, Alive, Stops, Ops, Inside
<1>18. CASE PidWait(t)
  <2>1. /\ Same(t) /\ Still(t)
        /\ pc[t] = "pidwait"
        /\ \/ pidfile # NoPid /\ pc'[t] = "healthy" /\ result'[t] = result[t]
           \/ pidfile # NoPid /\ pc'[t] = "idle" /\ result'[t] = "ok"
           \/ pc'[t] = "pidwait" /\ result'[t] = result[t]
           \/ (\A p \in Pids : proc[p] # "starting") /\ pc'[t] = "idle" /\ result'[t] = "raised"
    BY <1>18, WaitAt, EndsAt DEF PidWait, In, server, Still
  <2> QED BY <2>1, NotPids DEF Same, Still, TypeOK, ServerInv, ThreadInv, Written,
      StartingAlone, ServerIsNamed, PidAt, LaunchAt, StopAt, ResultAt, BeforeAt, Owns,
      Up, Alive, Stops, Ops, Inside
<1>19. CASE Healthy(t)
  <2>1. /\ Same(t) /\ Still(t)
        /\ pc[t] = "healthy"
        /\ \/ pc'[t] = "idle" /\ result'[t] \in {"ok", "raised"}
           \/ pc'[t] = "healthy" /\ result'[t] = result[t]
    BY <1>19, WaitAt, EndsAt DEF Healthy, In, server, Still
  <2> QED BY <2>1, NotPids DEF Same, Still, TypeOK, ServerInv, ThreadInv, Written,
      StartingAlone, ServerIsNamed, PidAt, LaunchAt, StopAt, ResultAt, BeforeAt, Owns,
      Up, Alive, Stops, Ops, Inside
<1> QED BY <1>1, <1>2, <1>3, <1>4, <1>5, <1>6, <1>7, <1>8, <1>9, <1>10, <1>11, <1>12,
    <1>13, <1>14, <1>15, <1>16, <1>17, <1>18, <1>19 DEF Step

-----------------------------------------------------------------------------
(***************************************************************************)
(* So do the call of an operation and the steps of the server.             *)
(***************************************************************************)
LEMMA CallKeeps ==
    ASSUME TypeOK, ServerInv, NEW t \in Threads, ThreadInv(t), NEW o \in Ops, Call(t, o)
    PROVE  ServerInv' /\ ThreadInv(t)'
<1>1. /\ proc' = proc /\ pidfile' = pidfile /\ container' = container
      /\ pid'[t] = NoPid /\ before'[t] = {p \in Pids : Up(p)} /\ pc[t] = "idle"
      /\ op'[t] = o /\ result'[t] = "none"
      /\ pc'[t] \in {"safe", "first", "compose", "check"}
      /\ o = "stop_clickhouse" => pc'[t] = "safe"
      /\ pc'[t] = "first" => o = "start_clickhouse"
  BY DEF Call, server, TypeOK, Ops
<1>2. ServerInv'
  BY <1>1 DEF ServerInv, Written, StartingAlone, ServerIsNamed, Owns, Up
<1>3. PidAt(t)' /\ Written(pid[t])' /\ LaunchAt(t)' /\ StopAt(t)' /\ ResultAt(t)'
  BY <1>1, NotPids DEF ThreadInv, PidAt, Written, LaunchAt, StopAt, ResultAt
<1>4. BeforeAt(t)'
  BY <1>1 DEF BeforeAt, Stops, Owns, Up, Alive
<1> QED BY <1>2, <1>3, <1>4 DEF ThreadInv

LEMMA ServerKeeps ==
    ASSUME TypeOK, ServerInv, NEW p \in Pids, Server(p)
    PROVE  /\ ServerInv'
           /\ \A t \in Threads : ThreadInv(t) => ThreadInv(t)'
<1>1. /\ DOMAIN proc = Pids /\ \A t \in Threads : \A q \in before[t] : q \in Pids
      /\ proc = [q \in Pids |-> proc[q]]
  BY DEF TypeOK
<1>2. UNCHANGED <<pc, op, pid, before, result>>
  BY DEF Server
<1>3. CASE ComesUp(p)
  <2>1. /\ proc[p] = "starting" /\ container' = container
        /\ \/ proc' = [proc EXCEPT ![p] = "dead"] /\ pidfile' = pidfile
           \/ /\ proc' = [proc EXCEPT ![p] = "booting"] /\ pidfile' = p
              /\ \A q \in Pids : ~Owns(q)
    BY <1>3 DEF ComesUp
  <2>2. Written(pidfile)'
    BY <1>1, <2>1, NotPids DEF ServerInv, Written, Alive
  <2>3. StartingAlone'
    BY <1>1, <2>1, NotPids DEF ServerInv, StartingAlone, Alive
  <2>4. ServerIsNamed'
    BY <1>1, <2>1, NotPids DEF ServerInv, ServerIsNamed, StartingAlone, Owns, Up,
        Alive
  <2>5. ASSUME NEW t \in Threads, ThreadInv(t) PROVE ThreadInv(t)'
    <3>1. PidAt(t)'
      BY <1>1, <1>2, <2>1, <2>5, NotPids DEF ThreadInv, PidAt
    <3>2. Written(pid[t])'
      BY <1>1, <1>2, <2>1, <2>5, NotPids DEF ThreadInv, Written, Alive
    <3>3. LaunchAt(t)'
      BY <1>1, <1>2, <2>1, <2>5, NotPids DEF ThreadInv, LaunchAt, ServerInv,
          StartingAlone, Alive
    <3>4. StopAt(t)'
      BY <1>1, <1>2, <2>1, <2>5, NotPids DEF ThreadInv, StopAt, PidAt, LaunchAt, Owns,
          Up, Alive
    <3>5. ResultAt(t)'
      BY <1>1, <1>2, <2>1, <2>5, NotPids DEF ThreadInv, ResultAt
    <3>6. BeforeAt(t)'
      BY <1>1, <1>2, <2>1, <2>5, NotPids DEF ThreadInv, BeforeAt, LaunchAt, Owns, Up,
          Alive, Stops
    <3> QED BY <3>1, <3>2, <3>3, <3>4, <3>5, <3>6 DEF ThreadInv
  <2> QED BY <2>2, <2>3, <2>4, <2>5 DEF ServerInv
<1>4. CASE Serves(p)
  <2>1. /\ proc[p] = "booting" /\ container' = container
        /\ proc' = [proc EXCEPT ![p] = "running"] /\ pidfile' = pidfile
    BY <1>4 DEF Serves
  <2>2. Written(pidfile)'
    BY <1>1, <2>1, NotPids DEF ServerInv, Written, Alive
  <2>3. StartingAlone'
    BY <1>1, <2>1, NotPids DEF ServerInv, StartingAlone, Alive
  <2>4. ServerIsNamed'
    BY <1>1, <2>1, NotPids DEF ServerInv, ServerIsNamed, StartingAlone, Owns, Up,
        Alive
  <2>5. ASSUME NEW t \in Threads, ThreadInv(t) PROVE ThreadInv(t)'
    <3>1. PidAt(t)'
      BY <1>1, <1>2, <2>1, <2>5, NotPids DEF ThreadInv, PidAt
    <3>2. Written(pid[t])'
      BY <1>1, <1>2, <2>1, <2>5, NotPids DEF ThreadInv, Written, Alive
    <3>3. LaunchAt(t)'
      BY <1>1, <1>2, <2>1, <2>5, NotPids DEF ThreadInv, LaunchAt, ServerInv,
          StartingAlone, Alive
    <3>4. StopAt(t)'
      BY <1>1, <1>2, <2>1, <2>5, NotPids DEF ThreadInv, StopAt, PidAt, LaunchAt, Owns,
          Up, Alive
    <3>5. ResultAt(t)'
      BY <1>1, <1>2, <2>1, <2>5, NotPids DEF ThreadInv, ResultAt
    <3>6. BeforeAt(t)'
      BY <1>1, <1>2, <2>1, <2>5, NotPids DEF ThreadInv, BeforeAt, LaunchAt, Owns, Up,
          Alive, Stops
    <3> QED BY <3>1, <3>2, <3>3, <3>4, <3>5, <3>6 DEF ThreadInv
  <2> QED BY <2>2, <2>3, <2>4, <2>5 DEF ServerInv
<1>5. CASE Dies(p)
  <2>1. /\ proc' = [proc EXCEPT ![p] = "dead"] /\ container' = container
        /\ \/ proc[p] = "stopping" /\ pidfile' = NoPid
           \/ proc[p] = "killed" /\ pidfile' = pidfile
    BY <1>5 DEF Dies
  <2>2. Written(pidfile)'
    BY <1>1, <2>1, NotPids DEF ServerInv, Written, Alive
  <2>3. StartingAlone'
    BY <1>1, <2>1, NotPids DEF ServerInv, StartingAlone, Alive
  <2>4. ServerIsNamed'
    BY <1>1, <2>1, NotPids DEF ServerInv, ServerIsNamed, StartingAlone, Owns, Up,
        Alive
  <2>5. ASSUME NEW t \in Threads, ThreadInv(t) PROVE ThreadInv(t)'
    <3>1. PidAt(t)'
      BY <1>1, <1>2, <2>1, <2>5, NotPids DEF ThreadInv, PidAt
    <3>2. Written(pid[t])'
      BY <1>1, <1>2, <2>1, <2>5, NotPids DEF ThreadInv, Written, Alive
    <3>3. LaunchAt(t)'
      BY <1>1, <1>2, <2>1, <2>5, NotPids DEF ThreadInv, LaunchAt, ServerInv,
          StartingAlone, Alive
    <3>4. StopAt(t)'
      BY <1>1, <1>2, <2>1, <2>5, NotPids DEF ThreadInv, StopAt, PidAt, LaunchAt, Owns,
          Up, Alive
    <3>5. ResultAt(t)'
      BY <1>1, <1>2, <2>1, <2>5, NotPids DEF ThreadInv, ResultAt
    <3>6. BeforeAt(t)'
      BY <1>1, <1>2, <2>1, <2>5, NotPids DEF ThreadInv, BeforeAt, LaunchAt, Owns, Up,
          Alive, Stops
    <3> QED BY <3>1, <3>2, <3>3, <3>4, <3>5, <3>6 DEF ThreadInv
  <2> QED BY <2>2, <2>3, <2>4, <2>5 DEF ServerInv
<1>6. CASE Crashes(p)
  <2>1. /\ pidfile' = pidfile /\ container' = container
        /\ \/ Alive(p) /\ proc' = [proc EXCEPT ![p] = "dead"]
           \/ proc[p] = "running" /\ proc' = [proc EXCEPT ![p] = "stopping"]
    BY <1>6 DEF Crashes
  <2>2. Written(pidfile)'
    BY <1>1, <2>1, NotPids DEF ServerInv, Written, Alive
  <2>3. StartingAlone'
    BY <1>1, <2>1, NotPids DEF ServerInv, StartingAlone, Alive
  <2>4. ServerIsNamed'
    BY <1>1, <2>1, NotPids DEF ServerInv, ServerIsNamed, StartingAlone, Owns, Up,
        Alive
  <2>5. ASSUME NEW t \in Threads, ThreadInv(t) PROVE ThreadInv(t)'
    <3>1. PidAt(t)'
      BY <1>1, <1>2, <2>1, <2>5, NotPids DEF ThreadInv, PidAt
    <3>2. Written(pid[t])'
      BY <1>1, <1>2, <2>1, <2>5, NotPids DEF ThreadInv, Written, Alive
    <3>3. LaunchAt(t)'
      BY <1>1, <1>2, <2>1, <2>5, NotPids DEF ThreadInv, LaunchAt, ServerInv,
          StartingAlone, Alive
    <3>4. StopAt(t)'
      BY <1>1, <1>2, <2>1, <2>5, NotPids DEF ThreadInv, StopAt, PidAt, LaunchAt, Owns,
          Up, Alive
    <3>5. ResultAt(t)'
      BY <1>1, <1>2, <2>1, <2>5, NotPids DEF ThreadInv, ResultAt
    <3>6. BeforeAt(t)'
      BY <1>1, <1>2, <2>1, <2>5, NotPids DEF ThreadInv, BeforeAt, LaunchAt, Owns, Up,
          Alive, Stops
    <3> QED BY <3>1, <3>2, <3>3, <3>4, <3>5, <3>6 DEF ThreadInv
  <2> QED BY <2>2, <2>3, <2>4, <2>5 DEF ServerInv
<1> QED BY <1>3, <1>4, <1>5, <1>6 DEF Server

-----------------------------------------------------------------------------
(***************************************************************************)
(* The types need, of the rest, only that the pid waited for is a number.  *)
(***************************************************************************)
LEMMA StepPid ==
    ASSUME TypeOK, NEW t \in Threads, PidAt(t), Step(t)
    PROVE  /\ PidAt(t)'
           /\ \A u \in Threads \ {t} : pc'[u] = pc[u] /\ pid'[u] = pid[u]
<1>1. CASE Unreachable(t)
  BY <1>1 DEF Unreachable, In, Goto, Ends, PidAt, TypeOK, server
<1>2. CASE CheckLs(t)
  BY <1>2 DEF CheckLs, In, Goto, Ends, AfterStop, PidAt, TypeOK, server
<1>3. CASE CheckCat(t)
  BY <1>3 DEF CheckCat, In, Goto, Ends, PidAt, TypeOK, server
<1>4. CASE Safe(t)
  BY <1>4 DEF Safe, In, Goto, Ends, PidAt, TypeOK, server
<1>5. CASE Unsafe(t)
  BY <1>5 DEF Unsafe, In, Goto, Ends, PidAt, TypeOK, server
<1>6. CASE FindLs(t)
  BY <1>6 DEF FindLs, In, Goto, Ends, PidAt, TypeOK, server
<1>7. CASE FindCat(t)
  BY <1>7 DEF FindCat, In, Goto, Ends, Catted, PidAt, TypeOK, server
<1>8. CASE Term(t)
  BY <1>8 DEF Term, In, Goto, Ends, PidAt, TypeOK, server
<1>9. CASE Kill(t)
  BY <1>9 DEF Kill, In, Goto, Ends, PidAt, TypeOK, server
<1>10. CASE Ps(t)
  BY <1>10 DEF Ps, In, Goto, Ends, Again, PidAt, TypeOK, server
<1>11. CASE Rm(t)
  BY <1>11 DEF Rm, In, Goto, Ends, AfterStop, PidAt, TypeOK, server
<1>12. CASE Compose(t)
  BY <1>12 DEF Compose, In, Goto, Ends, PidAt, TypeOK, server
<1>13. CASE ComposeFails(t)
  BY <1>13 DEF ComposeFails, In, Goto, Ends, PidAt, TypeOK, server
<1>14. CASE FirstLs(t)
  BY <1>14 DEF FirstLs, In, Goto, Ends, PidAt, TypeOK, server
<1>15. CASE FirstCat(t)
  BY <1>15 DEF FirstCat, In, Goto, Ends, Catted, PidAt, TypeOK, server
<1>16. CASE Launch(t)
  BY <1>16 DEF Launch, In, Goto, Ends, PidAt, TypeOK, server
<1>17. CASE LaunchFails(t)
  BY <1>17 DEF LaunchFails, In, Goto, Ends, PidAt, TypeOK, server
<1>18. CASE PidWait(t)
  BY <1>18 DEF PidWait, In, Goto, Ends, Wait, PidAt, TypeOK, server
<1>19. CASE Healthy(t)
  BY <1>19 DEF Healthy, In, Goto, Ends, Wait, PidAt, TypeOK, server
<1> QED BY <1>1, <1>2, <1>3, <1>4, <1>5, <1>6, <1>7, <1>8, <1>9, <1>10, <1>11, <1>12,
    <1>13, <1>14, <1>15, <1>16, <1>17, <1>18, <1>19 DEF Step

LEMMA StepType ==
    ASSUME TypeOK, NEW t \in Threads, PidAt(t), Step(t)
    PROVE  TypeOK'
<1>1. PollsOK /\ RestOK
  BY DEF TypeOK, PollsOK, RestOK
<1>2. PollsOK' /\ RestOK'
  BY <1>1, StepPolls, StepRest
<1> QED BY <1>2 DEF TypeOK, PollsOK, RestOK

LEMMA InitInv == Init => IInv
<1>1. MaxPolls \in Nat /\ MaxCrashes \in Nat
  BY ClickHouseServerAssumption
<1> QED BY <1>1, NotPids DEF Init, IInv, TypeOK, ServerInv, ThreadInv, Written,
    StartingAlone,
      ServerIsNamed, PidAt, LaunchAt, StopAt, ResultAt, BeforeAt, Owns, Up, Alive, Inside, Ops

TypeInv == TypeOK /\ \A t \in Threads : PidAt(t)

LEMMA TypeNext == TypeInv /\ [Next]_vars => TypeInv'
<1> SUFFICES ASSUME TypeInv, [Next]_vars PROVE TypeInv'
  OBVIOUS
<1>1. ASSUME NEW p \in Pids, Server(p) PROVE TypeInv'
  BY <1>1, ServerType DEF TypeInv, Server, PidAt
<1>2. ASSUME NEW t \in Threads, Step(t) PROVE TypeInv'
  BY <1>2, StepType, StepPid DEF TypeInv, PidAt
<1>3. ASSUME NEW t \in Threads, NEW o \in Ops, Call(t, o) PROVE TypeInv'
  <2>1. TypeOK'
    BY <1>3, CallType DEF TypeInv
  <2>2. ASSUME NEW u \in Threads PROVE PidAt(u)'
    BY <1>3 DEF Call, TypeInv, TypeOK, PidAt, Ops
  <2> QED BY <2>1, <2>2 DEF TypeInv
<1>4. CASE UNCHANGED vars
  BY <1>4 DEF vars, TypeInv, TypeOK, PidAt
<1> QED BY <1>1, <1>2, <1>3, <1>4 DEF Next

(***************************************************************************)
(* Every variable of the operations has its type, whatever the number of   *)
(* threads: the pid that is waited for is a number, the waits end in time. *)
(***************************************************************************)
THEOREM TypeCorrect == Spec => []TypeOK
<1>1. Init => TypeInv
  BY InitInv DEF IInv, TypeInv, ThreadInv
<1>2. TypeInv => TypeOK
  BY DEF TypeInv
<1> QED BY <1>1, <1>2, TypeNext, PTL DEF Spec

-----------------------------------------------------------------------------
(***************************************************************************)
(* One thread on the node.                                                 *)
(***************************************************************************)
LEMMA OneThreadNext == OneThread /\ IInv /\ [Next]_vars => IInv'
<1> SUFFICES ASSUME OneThread, IInv, [Next]_vars PROVE IInv'
  OBVIOUS
<1>1. ASSUME NEW p \in Pids, Server(p) PROVE IInv'
  BY <1>1, ServerType, ServerKeeps DEF IInv
<1>2. ASSUME NEW t \in Threads, Step(t) PROVE IInv'
  <2>1. TypeOK' /\ ServerInv' /\ ThreadInv(t)'
    BY <1>2, StepType, StepKeeps DEF IInv, ThreadInv
  <2> QED BY <2>1 DEF IInv, OneThread
<1>3. ASSUME NEW t \in Threads, NEW o \in Ops, Call(t, o) PROVE IInv'
  <2>1. TypeOK' /\ ServerInv' /\ ThreadInv(t)'
    BY <1>3, CallType, CallKeeps DEF IInv
  <2> QED BY <2>1 DEF IInv, OneThread
<1>4. CASE UNCHANGED vars
  <2>1. TypeOK'
    BY <1>4 DEF vars, IInv, TypeOK
  <2>2. ServerInv'
    BY <1>4 DEF vars, IInv, ServerInv, Written, StartingAlone, ServerIsNamed, Owns, Up
  <2>3. ASSUME NEW t \in Threads PROVE ThreadInv(t)'
    <3>1. ThreadInv(t) /\ UNCHANGED <<proc, pidfile, pc, op, pid, before, result>>
      BY <1>4 DEF vars, IInv
    <3> QED BY <3>1 DEF ThreadInv, Written, PidAt, LaunchAt, StopAt, ResultAt,
        BeforeAt,
          Owns, Up, Alive
  <2> QED BY <2>1, <2>2, <2>3 DEF IInv
<1> QED BY <1>1, <1>2, <1>3, <1>4 DEF Next

LEMMA InvHolds ==
    ASSUME OneThread
    PROVE  Spec => []IInv
BY InitInv, OneThreadNext, PTL DEF Spec

(***************************************************************************)
(* With one thread on the node, a server that is up or still ends in order *)
(* is named by the pid file, so every later stop or restart finds it.      *)
(***************************************************************************)
THEOREM NamedServer ==
    ASSUME OneThread
    PROVE  Spec => []ServerIsNamed
<1>1. IInv => ServerIsNamed
  BY DEF IInv, ServerInv
<1> QED BY <1>1, InvHolds, PTL

(***************************************************************************)
(* A stop or restart that returns has ended every server that was up when  *)
(* it was called, however often it had to be killed and whenever it        *)
(* crashed.                                                                *)
(***************************************************************************)
THEOREM Replaced ==
    ASSUME OneThread
    PROVE  Spec => []RestartReplaces
<1>1. IInv => RestartReplaces
  BY DEF IInv, ThreadInv, BeforeAt, Stops, RestartReplaces
<1> QED BY <1>1, InvHolds, PTL

LEMMA StopsClean ==
    ASSUME OneThread, IInv, IInv', [Next]_vars, NEW t \in Threads,
           pc[t] # "idle", result'[t] = "ok", op[t] = "stop_clickhouse"
    PROVE  pidfile' = NoPid /\ \A p \in Pids : ~Up(p)'
<1>1. /\ pc[t] \in {"safe", "find", "find_cat", "term", "kill", "ps", "rm"}
      /\ result[t] = "none"
  BY DEF IInv, ThreadInv, ResultAt
<1>2. ASSUME NEW p \in Pids, Server(p) PROVE FALSE
  BY <1>1, <1>2 DEF Server
<1>3. ASSUME NEW u \in Threads, NEW o \in Ops, Call(u, o) PROVE FALSE
  BY <1>1, <1>3 DEF Call, OneThread
<1>4. ASSUME UNCHANGED vars PROVE FALSE
  BY <1>1, <1>4 DEF vars
<1>5. Step(t)
  BY <1>2, <1>3, <1>4 DEF Next, OneThread
<1>6. pidfile' = NoPid
  <2>1. ASSUME Unreachable(t) PROVE FALSE
    BY <1>1, <2>1 DEF Unreachable, In, Goto, Ends, IInv, TypeOK
  <2>2. ASSUME CheckLs(t) PROVE FALSE
    BY <1>1, <2>2 DEF CheckLs, In, Goto, Ends, IInv, TypeOK
  <2>3. ASSUME CheckCat(t) PROVE FALSE
    BY <1>1, <2>3 DEF CheckCat, In, Goto, Ends, IInv, TypeOK
  <2>4. ASSUME Safe(t) PROVE FALSE
    BY <1>1, <2>4 DEF Safe, In, Goto, Ends, IInv, TypeOK
  <2>5. ASSUME Unsafe(t) PROVE FALSE
    BY <1>1, <2>5 DEF Unsafe, In, Goto, Ends, IInv, TypeOK
  <2>6. ASSUME FindLs(t) PROVE FALSE
    BY <1>1, <2>6 DEF FindLs, In, Goto, Ends, IInv, TypeOK
  <2>7. ASSUME FindCat(t) PROVE FALSE
    BY <1>1, <2>7 DEF FindCat, In, Goto, Ends, Catted, IInv, TypeOK
  <2>8. ASSUME Term(t) PROVE FALSE
    BY <1>1, <2>8 DEF Term, In, Goto, Ends, IInv, TypeOK
  <2>9. ASSUME Kill(t) PROVE FALSE
    BY <1>1, <2>9 DEF Kill, In, Goto, Ends, IInv, TypeOK
  <2>10. ASSUME Ps(t) PROVE FALSE
    BY <1>1, <2>10 DEF Ps, In, Goto, Ends, Again, IInv, TypeOK
  <2>11. ASSUME Compose(t) PROVE FALSE
    BY <1>1, <2>11 DEF Compose, In, Goto, Ends, IInv, TypeOK
  <2>12. ASSUME ComposeFails(t) PROVE FALSE
    BY <1>1, <2>12 DEF ComposeFails, In, Goto, Ends, IInv, TypeOK
  <2>13. ASSUME FirstLs(t) PROVE FALSE
    BY <1>1, <2>13 DEF FirstLs, In, Goto, Ends, IInv, TypeOK
  <2>14. ASSUME FirstCat(t) PROVE FALSE
    BY <1>1, <2>14 DEF FirstCat, In, Goto, Ends, Catted, IInv, TypeOK
  <2>15. ASSUME Launch(t) PROVE FALSE
    BY <1>1, <2>15 DEF Launch, In, Goto, Ends, IInv, TypeOK
  <2>16. ASSUME LaunchFails(t) PROVE FALSE
    BY <1>1, <2>16 DEF LaunchFails, In, Goto, Ends, IInv, TypeOK
  <2>17. ASSUME PidWait(t) PROVE FALSE
    BY <1>1, <2>17 DEF PidWait, In, Goto, Ends, Wait, IInv, TypeOK
  <2>18. ASSUME Healthy(t) PROVE FALSE
    BY <1>1, <2>18 DEF Healthy, In, Goto, Ends, Wait, IInv, TypeOK
  <2>19. CASE Rm(t)
    BY <2>19 DEF Rm
  <2> QED BY <1>5, <2>1, <2>2, <2>3, <2>4, <2>5, <2>6, <2>7, <2>8, <2>9, <2>10, <2>11,
      <2>12, <2>13, <2>14, <2>15, <2>16, <2>17, <2>18, <2>19 DEF Step
<1>7. ASSUME NEW p \in Pids PROVE ~Up(p)'
  BY <1>6, NotPids DEF IInv, ServerInv, ServerIsNamed, Owns
<1> QED BY <1>6, <1>7

(***************************************************************************)
(* stop_clickhouse that returns leaves no pid file and no server that is   *)
(* up: a start_clickhouse that follows finds neither.                      *)
(***************************************************************************)
THEOREM StopsAll ==
    ASSUME OneThread
    PROVE  Spec => StopLeavesNothing
<1>1. IInv /\ IInv' /\ [Next]_vars =>
        [\A t \in Threads :
           pc[t] # "idle" /\ result'[t] = "ok" /\ op[t] = "stop_clickhouse" =>
              pidfile' = NoPid /\ \A p \in Pids : ~Up(p)']_vars
  BY StopsClean
<1> QED BY <1>1, InvHolds, PTL DEF Spec, StopLeavesNothing
=============================================================================

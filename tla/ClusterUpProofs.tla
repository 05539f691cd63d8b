--------------------------- MODULE ClusterUpProofs ---------------------------
(***************************************************************************)
(* Proofs about ClusterUp for every list of nodes and every number of      *)
(* attempts, programs and containers that end by themselves.               *)
(***************************************************************************)
EXTENDS ClusterUp, TLAPS

(***************************************************************************)
(* The order in which up waits for the nodes: every ClickHouse node is in  *)
(* it, whether the ZooKeeper nodes come first or not.                      *)
(***************************************************************************)
LEMMA OrderSeq ==
    /\ Order \in Seq(STRING) /\ Len(Order) \in Nat
    /\ \A i \in 1..Len(Order) : Order[i] \in Nodes
<1> DEFINE pre == IF UseZooKeeperNodes THEN ZooKeepers ELSE << >>
<1>1. pre \in Seq(STRING) /\ ClickHouses \in Seq(STRING)
  <2>1. << >> \in Seq(STRING)
    OBVIOUS
  <2> QED BY <2>1, ClusterUpAssumption, Zenon
<1>2. Order = pre \o ClickHouses
  BY DEF Order
<1>3. \A i \in 1..Len(pre) : pre[i] \in Elements(ZooKeepers)
  BY DEF Elements
<1>4. \A i \in 1..Len(ClickHouses) : ClickHouses[i] \in Elements(ClickHouses)
  BY <1>1 DEF Elements
<1> HIDE DEF pre
<1>5. \A i \in 1..Len(pre \o ClickHouses) : (pre \o ClickHouses)[i] \in Nodes
  BY <1>1, <1>3, <1>4 DEF Nodes
<1> QED BY <1>1, <1>2, <1>5

LEMMA OrderHasAll ==
    \A n \in Elements(ClickHouses) : \E i \in 1..Len(Order) : Order[i] = n
<1> DEFINE pre == IF UseZooKeeperNodes THEN ZooKeepers ELSE << >>
<1>1. pre \in Seq(STRING) /\ ClickHouses \in Seq(STRING)
  <2>1. << >> \in Seq(STRING)
    OBVIOUS
  <2> QED BY <2>1, ClusterUpAssumption, Zenon
<1>2. Order = pre \o ClickHouses
  BY DEF Order
<1> HIDE DEF pre
<1> SUFFICES ASSUME NEW j \in 1..Len(ClickHouses)
             PROVE  \E i \in 1..Len(Order) : Order[i] = ClickHouses[j]
  BY <1>1 DEF Elements
<1>3. /\ Len(pre) + j \in 1..Len(pre \o ClickHouses)
      /\ (pre \o ClickHouses)[Len(pre) + j] = ClickHouses[j]
  BY <1>1
<1> QED BY <1>2, <1>3

-----------------------------------------------------------------------------
(***************************************************************************)
(* The inductive invariant.  up starts again with the first node in every  *)
(* attempt, and every ClickHouse node it has passed runs a server of this  *)
(* program or has lost its container.                                      *)
(***************************************************************************)
Sound(n) == server[n] = "ours" \/ (server[n] = "none" /\ container[n] # "running")

NextInv ==
    /\ pc \in {"pull", "down", "up", "check"} => next = 1
    /\ pc = "start" => next <= Len(Order)
    /\ pc = "entered" => next = Len(Order) + 1

StartedInv ==
    pc \in {"wait", "start", "entered"} =>
        \A i \in 1..(next - 1) : Order[i] \in Elements(ClickHouses) => Sound(Order[i])

IInv == TypeOK /\ NextInv /\ StartedInv

LEMMA FirstOnes ==
    1 \in 1..(Len(Order) + 1) /\ 1 \in 1..MaxAttempts /\ 1 \in 1..MaxPrograms /\ 0 \in 0..MaxExits
<1>1. Len(Order) \in Nat
  BY OrderSeq
<1>2. MaxAttempts \in Nat \ {0} /\ MaxPrograms \in Nat \ {0} /\ MaxExits \in Nat
  BY ClusterUpAssumption
<1> QED BY <1>1, <1>2

LEMMA InvInit == Init => IInv
BY FirstOnes DEF Init, IInv, TypeOK, NextInv, StartedInv

LEMMA StepType ==
    ASSUME TypeOK, NextInv, Step
    PROVE  TypeOK' /\ NextInv'
<1>1. next \in 1..(Len(Order) + 1) /\ Len(Order) \in Nat
  BY OrderSeq DEF TypeOK
<1>2. attempt \in 1..MaxAttempts /\ MaxAttempts \in Nat
  BY ClusterUpAssumption DEF TypeOK
<1>3. CASE Pull
  BY <1>1, <1>2, <1>3 DEF Pull, TypeOK, NextInv, docker
<1>4. CASE Down
  BY <1>1, <1>2, <1>4 DEF Down, Removes, TypeOK, NextInv, docker
<1>5. CASE Up
  BY <1>1, <1>2, <1>5 DEF Up, Recreates, TypeOK, NextInv, docker
<1>6. CASE Check
  BY <1>1, <1>2, <1>6 DEF Check, TypeOK, NextInv, docker
<1>7. CASE WaitHealthy
  BY <1>1, <1>2, <1>7 DEF WaitHealthy, TypeOK, NextInv, docker
<1>8. CASE Start
  BY <1>1, <1>2, <1>8 DEF Start, StartsOn, TypeOK, NextInv, docker
<1>9. CASE Entered
  BY <1>1, <1>2, <1>9 DEF Entered, TypeOK, NextInv, docker
<1>10. CASE Raises
  BY <1>1, <1>2, <1>10 DEF Raises, TypeOK, NextInv, docker
<1>11. CASE Leave
  BY <1>1, <1>2, <1>11 DEF Leave, TypeOK, NextInv, docker
<1>12. CASE CollectServiceLogs
  BY <1>1, <1>2, <1>12 DEF CollectServiceLogs, TypeOK, NextInv, docker
<1>13. CASE Message
  BY <1>1, <1>2, <1>13 DEF Message, TypeOK, NextInv, docker
<1>14. CASE ExitDown
  BY <1>1, <1>2, <1>14 DEF ExitDown, Removes, TypeOK, NextInv, docker
<1> QED BY <1>3, <1>4, <1>5, <1>6, <1>7, <1>8, <1>9, <1>10, <1>11, <1>12, <1>13, <1>14 DEF Step

LEMMA StepStarted ==
    ASSUME TypeOK, NextInv, StartedInv, Step
    PROVE  StartedInv'
<1>1. next \in 1..(Len(Order) + 1) /\ Len(Order) \in Nat
  BY OrderSeq DEF TypeOK
<1>2. CASE Start
  <2> DEFINE n == Order[next]
  <2>1. /\ pc = "start" /\ next' = next + 1 /\ container' = container /\ StartsOn(n)
        /\ next \in 1..Len(Order) /\ n \in Nodes
    BY <1>1, <1>2, OrderSeq DEF Start, NextInv
  <2>2. n \in Elements(ClickHouses) => server'[n] = "ours"
    BY <2>1, ClusterUpAssumption DEF StartsOn, TypeOK
  <2>3. \A m \in Nodes : m # n => server'[m] = server[m]
    BY <2>1 DEF StartsOn, TypeOK
  <2>4. ASSUME NEW i \in 1..(next' - 1), Order[i] \in Elements(ClickHouses)
        PROVE  Sound(Order[i])'
    <3>1. CASE Order[i] = n
      BY <2>2, <2>4, <3>1 DEF Sound
    <3>2. CASE Order[i] # n
      <4>1. i \in 1..(next - 1) /\ Order[i] \in Nodes
        BY <1>1, <2>1, <3>2, OrderSeq
      <4>2. Sound(Order[i])
        BY <2>1, <2>4, <4>1 DEF StartedInv
      <4> QED BY <2>1, <2>3, <3>2, <4>1, <4>2 DEF Sound
    <3> QED BY <3>1, <3>2
  <2> QED BY <2>4 DEF StartedInv
<1>3. CASE Pull
  BY <1>1, <1>3 DEF Pull, NextInv, StartedInv, Sound, docker
<1>4. CASE Down
  BY <1>1, <1>4 DEF Down, Removes, NextInv, StartedInv, Sound, docker
<1>5. CASE Up
  BY <1>1, <1>5 DEF Up, Recreates, NextInv, StartedInv, Sound, docker
<1>6. CASE Check
  BY <1>1, <1>6 DEF Check, NextInv, StartedInv, Sound, docker
<1>7. CASE WaitHealthy
  BY <1>1, <1>7 DEF WaitHealthy, NextInv, StartedInv, Sound, docker
<1>8. CASE Entered
  BY <1>1, <1>8 DEF Entered, NextInv, StartedInv, Sound, docker
<1>9. CASE Raises
  BY <1>1, <1>9 DEF Raises, NextInv, StartedInv, Sound, docker
<1>10. CASE Leave
  BY <1>1, <1>10 DEF Leave, NextInv, StartedInv, Sound, docker
<1>11. CASE CollectServiceLogs
  BY <1>1, <1>11 DEF CollectServiceLogs, NextInv, StartedInv, Sound, docker
<1>12. CASE Message
  BY <1>1, <1>12 DEF Message, NextInv, StartedInv, Sound, docker
<1>13. CASE ExitDown
  BY <1>1, <1>13 DEF ExitDown, Removes, NextInv, StartedInv, Sound, docker
<1> QED BY <1>2, <1>3, <1>4, <1>5, <1>6, <1>7, <1>8, <1>9, <1>10, <1>11, <1>12, <1>13 DEF Step

LEMMA InvNext == IInv /\ [Next]_vars => IInv'
<1> SUFFICES ASSUME IInv, [Next]_vars PROVE IInv'
  OBVIOUS
<1>1. CASE Step
  BY <1>1, StepType, StepStarted DEF IInv
<1>2. ASSUME NEW n \in Nodes, ContainerExits(n) PROVE IInv'
  <2>1. exits \in 0..MaxExits /\ MaxExits \in Nat
    BY ClusterUpAssumption DEF IInv, TypeOK
  <2>2. TypeOK' /\ NextInv'
    BY <1>2, <2>1 DEF IInv, ContainerExits, TypeOK, NextInv
  <2>3. \A m \in Nodes : Sound(m) => Sound(m)'
    BY <1>2 DEF IInv, ContainerExits, TypeOK, Sound
  <2>4. next \in 1..(Len(Order) + 1) /\ pc' = pc /\ next' = next
    BY <1>2 DEF IInv, ContainerExits, TypeOK
  <2>5. \A i \in 1..(next - 1) : Order[i] \in Nodes
    BY <2>4, OrderSeq
  <2>6. StartedInv'
    BY <2>3, <2>4, <2>5 DEF IInv, StartedInv
  <2> QED BY <2>2, <2>6 DEF IInv
<1>3. CASE NextProgram
  <2>1. program \in 1..MaxPrograms /\ MaxPrograms \in Nat
    BY ClusterUpAssumption DEF IInv, TypeOK
  <2>2. program + 1 \in 1..MaxPrograms
    BY <1>3, <2>1 DEF NextProgram
  <2> QED BY <1>3, <2>2, FirstOnes DEF IInv, NextProgram, TypeOK, NextInv, StartedInv
<1>4. CASE Terminated \/ UNCHANGED vars
  BY <1>4 DEF Terminated, vars, IInv, TypeOK, NextInv, StartedInv, Sound
<1> QED BY <1>1, <1>2, <1>3, <1>4 DEF Next

(***************************************************************************)
(* The variables of up and down have their types: no attempt is made after *)
(* the last one and no node is waited for after the last one.              *)
(***************************************************************************)
THEOREM TypeCorrect == Spec => []TypeOK
<1>1. IInv => TypeOK
  BY DEF IInv
<1> QED BY <1>1, InvInit, InvNext, PTL DEF Spec

LEMMA InvOurs == IInv => ServersAreOurs
<1> SUFFICES ASSUME IInv, pc = "entered", NEW n \in Elements(ClickHouses)
             PROVE  Sound(n)
  BY DEF ServersAreOurs, Sound
<1>1. PICK i \in 1..Len(Order) : Order[i] = n
  BY OrderHasAll
<1>2. i \in 1..(next - 1)
  BY <1>1, OrderSeq DEF IInv, NextInv
<1> QED BY <1>1, <1>2 DEF IInv, StartedInv

(***************************************************************************)
(* The block of the with statement is entered only with ClickHouse servers *)
(* that this program has started, whichever docker-compose command has     *)
(* failed unnoticed and whatever an earlier program has left behind.       *)
(***************************************************************************)
THEOREM OursOnEntry == Spec => []ServersAreOurs
BY InvOurs, InvInit, InvNext, PTL DEF Spec
==============================================================================

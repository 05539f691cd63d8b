---------------------------- MODULE NodeWorkProofs ----------------------------
(***************************************************************************)
(* Proofs about what tests do on a node (NodeWork), for every value of the *)
(* constants.  Each part has an inductive invariant of its own; as the     *)
(* parts share no variable, the steps of the others leave it alone.        *)
(***************************************************************************)
EXTENDS Integers, NodeWork, NodeQueryProofs, FiniteSetTheorems

-----------------------------------------------------------------------------
(***************************************************************************)
(* node_container_id (ContainerLookup).  A command that is cut off uses up *)
(* the time left, so the control terminal is opened before the first       *)
(* command or not at all.  In the version of helpers the clock and the     *)
(* time left together stay within a second of Timeout and the time of the  *)
(* opening while docker-compose is asked; in the one of ssl_keeper they do *)
(* not fall below Timeout.                                                 *)
(***************************************************************************)
LookupOnce ==
    /\ c_pc = "ask" /\ ~c_control => c_opening = 0
    /\ c_pc = "answered" => c_left > 0 /\ c_control
    /\ c_pc = "cut_off" => c_now >= c_left

LookupHelpers ==
    ~c_copy => /\ c_now <= c_opening + Timeout + 1
               /\ c_pc = "ask" => c_now + c_left <= c_opening + Timeout + 1

LookupCopy ==
    c_copy => /\ c_pc \in {"ask", "answered"} => c_now + c_left >= Timeout
              /\ c_pc \in {"cut_off", "raised"} => c_now >= Timeout

LookupInv == Lookup!TypeOK /\ LookupOnce /\ LookupHelpers /\ LookupCopy

LEMMA LookupBounds ==
    /\ Timeout \in Nat \ {0} /\ ControlTimeout \in Nat /\ Probe \in Nat \ {0}
    /\ Horizon \in Nat /\ Horizon > ControlTimeout + Probe + Timeout + 1
BY LookupAssumption DEF Lookup!ContainerLookupAssumption

LEMMA LookupLater ==
    ASSUME NEW d \in Nat, c_now \in Nat, c_now <= Horizon, Lookup!Later(d)
    PROVE  /\ c_now' \in 0..Horizon
           /\ c_now' = IF c_now + d <= Horizon THEN c_now + d ELSE Horizon
<1> DEFINE P(x) == x \in {c_now + d, Horizon} /\ \A y \in {c_now + d, Horizon} : x <= y
<1>1. Horizon \in Nat
  BY LookupBounds
<1>2. c_now' = CHOOSE x : P(x)
  BY DEF Lookup!Later, Lookup!Min
<1>3. P(IF c_now + d <= Horizon THEN c_now + d ELSE Horizon)
  BY <1>1
<1>4. \E x : P(x)
  BY <1>3
<1> HIDE DEF P
<1>5. P(c_now')
  BY <1>2, <1>4
<1> QED BY <1>1, <1>5 DEF P

LEMMA SumGrows ==
    ASSUME NEW a \in Int, NEW b \in Int, NEW l \in Int, NEW t \in Int, a <= b
    PROVE  a + l >= t => b + l >= t
OBVIOUS

LEMMA SumStays ==
    ASSUME NEW a \in Int, NEW b \in Int, NEW d \in Int, NEW l \in Int, NEW t \in Int,
           b <= a + d
    PROVE  /\ a <= t + 1 => b <= d + t + 1
           /\ a + l <= t + 1 => b + l <= d + t + 1
OBVIOUS

LEMMA LookupFirst ==
    ASSUME Lookup!Init
    PROVE  LookupInv
<1>1. /\ 0 \in 0..Horizon /\ 0 \in 0..(ControlTimeout + Probe)
      /\ Timeout \in Int /\ Timeout > 0
  BY LookupBounds
<1>2. c_now = 0 /\ c_left = Timeout /\ c_opening = 0 /\ c_pc = "ask"
  BY DEF Lookup!Init
<1>3. Lookup!TypeOK
  BY <1>1 DEF Lookup!Init, Lookup!TypeOK
<1>4. LookupOnce /\ LookupHelpers /\ LookupCopy
  BY <1>1, <1>2 DEF LookupOnce, LookupHelpers, LookupCopy
<1> QED BY <1>3, <1>4 DEF LookupInv

(* control_shell takes its time from nothing but the clock *)
LEMMA LookupOpening ==
    ASSUME LookupInv, NEW d \in 0..(ControlTimeout + Probe),
           NEW step \in {"ask", "no_shell", "broken"}, Lookup!Opening(d, step)
    PROVE  LookupInv'
<1>1. /\ c_now \in Nat /\ c_now <= Horizon /\ c_left \in Int /\ c_left <= Timeout
      /\ c_left > 0 /\ c_opening = 0 /\ d \in Nat /\ d <= ControlTimeout + Probe
      /\ c_pc = "ask" /\ ~c_control
  BY LookupBounds DEF LookupInv, LookupOnce, Lookup!TypeOK, Lookup!Opening
<1>2. /\ c_opening' = d /\ c_control' = (step = "ask") /\ c_pc' = step
      /\ UNCHANGED <<c_left, c_there, c_copy>>
  BY <1>1 DEF Lookup!Opening
<1>3. /\ c_now' \in 0..Horizon
      /\ c_now' = IF c_now + d <= Horizon THEN c_now + d ELSE Horizon
  BY <1>1, LookupLater DEF Lookup!Opening
<1>4. c_now' \in Nat /\ c_now <= c_now' /\ c_now' <= c_now + d
  BY <1>1, <1>3, LookupBounds
<1>5. Lookup!TypeOK'
  BY <1>1, <1>2, <1>3 DEF LookupInv, Lookup!TypeOK, Lookup!Endings
<1>6. LookupOnce'
  BY <1>2 DEF LookupOnce
<1>9. c_now \in Int /\ c_now' \in Int /\ c_left \in Int /\ d \in Int /\ Timeout \in Int
  BY <1>1, <1>4, LookupBounds
<1>7. LookupHelpers'
  <2>1. ~c_copy => c_now <= Timeout + 1 /\ c_now + c_left <= Timeout + 1
    BY <1>1, LookupBounds DEF LookupInv, LookupHelpers
  <2>2. /\ c_now <= Timeout + 1 => c_now' <= d + Timeout + 1
        /\ c_now + c_left <= Timeout + 1 => c_now' + c_left <= d + Timeout + 1
    BY <1>4, <1>9, SumStays
  <2> QED BY <1>2, <2>1, <2>2 DEF LookupHelpers
<1>8. LookupCopy'
  <2>1. c_copy => c_now + c_left >= Timeout
    BY <1>1 DEF LookupInv, LookupCopy
  <2>2. c_copy => c_now' + c_left >= Timeout
    BY <1>4, <1>9, <2>1, SumGrows
  <2> QED BY <1>2, <2>2 DEF LookupCopy
<1> QED BY <1>5, <1>6, <1>7, <1>8 DEF LookupInv

LEMMA LookupNext ==
    ASSUME LookupInv, Lookup!Next
    PROVE  LookupInv'
<1>1. /\ c_now \in 0..Horizon /\ c_left \in Int /\ c_left <= Timeout
      /\ c_opening \in Nat /\ Timeout \in Nat \ {0} /\ Horizon \in Nat
      /\ Horizon > Timeout + 1
  BY LookupBounds DEF LookupInv, Lookup!TypeOK
<1>2. ASSUME NEW d \in 0..c_left, Lookup!Later(d)
      PROVE  /\ c_now' \in 0..Horizon /\ c_now <= c_now'
             /\ c_now' <= c_now + c_left
  BY <1>1, <1>2, LookupLater
<1>3. ASSUME Lookup!Ask \/ Lookup!Breaks PROVE LookupInv'
  <2>1. /\ c_pc = "ask" /\ c_left > 0 /\ c_control = TRUE
        /\ UNCHANGED <<c_left, c_control, c_opening, c_there, c_copy>>
        /\ c_pc' \in {"found", "answered", "broken"}
    BY <1>3 DEF Lookup!Ask, Lookup!Breaks, LookupInv, Lookup!TypeOK
  <2>2. c_now' \in 0..Horizon /\ c_now <= c_now' /\ c_now' <= c_now + c_left
    BY <1>2, <1>3 DEF Lookup!Ask, Lookup!Breaks
  <2>3. Lookup!TypeOK' /\ LookupOnce'
    BY <1>1, <2>1, <2>2 DEF LookupInv, LookupOnce, Lookup!TypeOK, Lookup!Endings
  <2>4. ~c_copy => c_now + c_left <= c_opening + Timeout + 1
    BY <2>1 DEF LookupInv, LookupHelpers
  <2>5. c_copy => c_now + c_left >= Timeout
    BY <2>1 DEF LookupInv, LookupCopy
  <2>6. c_now + c_left <= c_opening + Timeout + 1 => c_now' <= c_opening + Timeout + 1
    BY <1>1, <2>2
  <2>7. c_now + c_left >= Timeout => c_now' + c_left >= Timeout
    <3>1. c_now \in Int /\ c_now' \in Int /\ c_left \in Int /\ Timeout \in Int
      BY <1>1, <2>2
    <3> QED BY <2>2, <3>1, SumGrows
  <2>8. LookupHelpers' /\ LookupCopy'
    BY <2>1, <2>4, <2>5, <2>6, <2>7 DEF LookupHelpers, LookupCopy
  <2> QED BY <2>3, <2>8 DEF LookupInv
<1>4. CASE Lookup!CutOff
  <2>1. /\ c_pc = "ask" /\ c_left > 0 /\ UNCHANGED <<c_left, c_opening, c_there, c_copy>>
        /\ c_pc' = "cut_off" /\ c_control' = FALSE
        /\ Lookup!Later(c_left) /\ c_left \in Nat
    BY <1>1, <1>4 DEF Lookup!CutOff, LookupInv, Lookup!TypeOK
  <2>2. /\ c_now' \in 0..Horizon
        /\ c_now' = IF c_now + c_left <= Horizon THEN c_now + c_left ELSE Horizon
    BY <1>1, <2>1, LookupLater
  <2>5. Lookup!TypeOK'
    BY <2>1, <2>2 DEF LookupInv, Lookup!TypeOK
  <2>6. c_now' >= c_left
    BY <1>1, <2>2
  <2>3. LookupOnce'
    BY <2>1, <2>6 DEF LookupOnce
  <2>4. LookupHelpers' /\ LookupCopy'
    BY <1>1, <2>1, <2>2 DEF LookupInv, LookupHelpers, LookupCopy
  <2> QED BY <2>3, <2>4, <2>5 DEF LookupInv
<1>5. CASE Lookup!Again
  <2>1. /\ c_pc \in {"answered", "cut_off"} /\ ~c_copy
        /\ UNCHANGED <<c_control, c_opening, c_there, c_copy>> /\ Lookup!CountDown(1)
    BY <1>5 DEF Lookup!Again
  <2>2. /\ c_left' = c_left - c_now
        /\ c_pc' = IF c_left' <= 0 THEN "raised" ELSE "ask"
        /\ c_left' > 0 => Lookup!Later(1)
        /\ ~(c_left' > 0) => c_now' = c_now
    BY <2>1 DEF Lookup!CountDown
  <2>3. c_left' > 0 => c_now' \in 0..Horizon /\ c_now' <= c_now + 1
    BY <1>1, <2>2, LookupLater
  <2>4. c_left' > 0 => c_control = TRUE
    BY <1>1, <2>1, <2>2 DEF LookupInv, LookupOnce, Lookup!TypeOK
  <2>5. Lookup!TypeOK' /\ LookupOnce'
    BY <1>1, <2>1, <2>2, <2>3, <2>4
       DEF LookupInv, LookupOnce, Lookup!TypeOK, Lookup!Endings
  <2>6. LookupHelpers' /\ LookupCopy'
    BY <1>1, <2>1, <2>2, <2>3 DEF LookupInv, LookupHelpers, LookupCopy
  <2> QED BY <2>5, <2>6 DEF LookupInv
<1>6. CASE Lookup!CopyAgain
  <2>1. /\ c_pc \in {"answered", "cut_off"} /\ c_copy = TRUE
        /\ UNCHANGED <<c_control, c_opening, c_there, c_copy>>
        /\ \/ c_pc = "cut_off" /\ Lookup!CountDown(0)
           \/ c_pc = "answered" /\ c_pc' = "ask" /\ UNCHANGED <<c_now, c_left>>
    BY <1>6 DEF Lookup!CopyAgain, LookupInv, Lookup!TypeOK
  <2>2. CASE c_pc = "answered" /\ c_pc' = "ask" /\ UNCHANGED <<c_now, c_left>>
    BY <2>1, <2>2 DEF LookupInv, LookupOnce, Lookup!TypeOK, LookupHelpers, LookupCopy
  <2>3. CASE c_pc = "cut_off" /\ Lookup!CountDown(0)
    <3>1. c_left' = c_left - c_now /\ c_left' <= 0
      BY <1>1, <2>3 DEF Lookup!CountDown, LookupInv, LookupOnce
    <3>2. c_pc' = "raised" /\ c_now' = c_now
      BY <1>1, <2>3, <3>1 DEF Lookup!CountDown
    <3> QED BY <1>1, <2>1, <2>3, <3>1, <3>2
            DEF LookupInv, LookupOnce, Lookup!TypeOK, Lookup!Endings, LookupHelpers,
                LookupCopy
  <2> QED BY <2>1, <2>2, <2>3
<1>7. CASE Lookup!ControlOpens \/ Lookup!ControlFails \/ Lookup!ControlBreaks
  <2>1. PICK d \in 0..(ControlTimeout + Probe), step \in {"ask", "no_shell", "broken"} :
          Lookup!Opening(d, step)
    BY <1>7, LookupBounds
       DEF Lookup!ControlOpens, Lookup!ControlFails, Lookup!ControlBreaks
  <2> QED BY <2>1, LookupOpening
<1>8. CASE Lookup!ContainerChanges
  BY <1>8 DEF Lookup!ContainerChanges, LookupInv, LookupOnce, Lookup!TypeOK,
      LookupHelpers, LookupCopy
<1>9. CASE Lookup!Returned
  BY <1>9 DEF Lookup!Returned, Lookup!vars, LookupInv, LookupOnce, Lookup!TypeOK,
      LookupHelpers, LookupCopy
<1> QED BY <1>3, <1>4, <1>5, <1>6, <1>7, <1>8, <1>9 DEF Lookup!Next, Lookup!Lookup

LEMMA LookupKeeps == LookupInv => Lookup!KeepsItsTime
<1>1. Lookup!TypeOK => c_opening <= ControlTimeout + Probe
  BY LookupBounds DEF Lookup!TypeOK
<1> QED BY <1>1 DEF LookupInv, LookupHelpers, LookupCopy, Lookup!KeepsItsTime

-----------------------------------------------------------------------------
(***************************************************************************)
(* add_invalid_config (AddInvalidConfig).  From the moment the error log   *)
(* is overwritten, a message that can be seen was logged in this call; the *)
(* file is replaced before the last restart.                               *)
(***************************************************************************)
NoException ==
    i_pc \in {"prepare", "add", "wait", "restart", "look", "ok"} => i_exception = FALSE

SeenIsOwn ==
    /\ i_pc \in {"add", "wait", "restart", "remove", "again", "look"}
          /\ i_exception = FALSE /\ i_visible # {} => i_logged = TRUE
    /\ i_pc = "ok" => i_logged = TRUE

FileIsGone ==
    /\ i_pc \in {"again", "look", "ok"} => i_file # "invalid"
    /\ i_pc \in {"look", "ok"} \/ (i_pc = "raised" /\ i_stuck = FALSE) =>
          /\ i_file # "invalid"
          /\ i_restart = TRUE => i_server = "up" /\ i_loaded # "invalid"

InvalidInv == Invalid!TypeOK /\ NoException /\ SeenIsOwn /\ FileIsGone

LEMMA InvalidFirst ==
    ASSUME Invalid!Init
    PROVE  InvalidInv
<1>1. 0 \in 0..MaxCalls
  BY InvalidAssumption DEF Invalid!AddInvalidConfigAssumption
<1> QED BY <1>1 DEF Invalid!Init, InvalidInv, Invalid!TypeOK, NoException, SeenIsOwn,
    FileIsGone

LEMMA InvalidNext ==
    ASSUME InvalidInv, Invalid!Next
    PROVE  InvalidInv'
<1>1. i_calls \in 0..MaxCalls /\ MaxCalls \in Nat
  BY InvalidAssumption DEF Invalid!AddInvalidConfigAssumption, InvalidInv,
      Invalid!TypeOK
<1>2. i_calls < MaxCalls => i_calls + 1 \in 0..MaxCalls
  BY <1>1
<1>3. Invalid!Reads(i_file) =>
        /\ i_visible' \subseteq {"old", "new"} /\ i_logged' \in BOOLEAN
        /\ i_logged' = i_logged \/ i_logged' = TRUE
        /\ i_visible' # {} => i_logged' = TRUE \/ (i_logged' = i_logged /\ i_visible # {})
  BY DEF Invalid!Reads, InvalidInv, Invalid!TypeOK
<1>4. CASE Invalid!Reload
  BY <1>3, <1>4 DEF Invalid!Reload, Invalid!args, InvalidInv, Invalid!TypeOK,
      NoException, SeenIsOwn, FileIsGone
<1>5. CASE Invalid!Call
  BY <1>2, <1>5 DEF Invalid!Call, Invalid!args, InvalidInv, Invalid!TypeOK,
      NoException, SeenIsOwn, FileIsGone
<1>6. CASE Invalid!Prepare
  BY <1>6 DEF Invalid!Prepare, Invalid!args, InvalidInv, Invalid!TypeOK, NoException,
      SeenIsOwn, FileIsGone
<1>7. CASE Invalid!Add
  BY <1>7 DEF Invalid!Add, Invalid!args, InvalidInv, Invalid!TypeOK, NoException,
      SeenIsOwn, FileIsGone
<1>8. CASE Invalid!WaitMerged
  BY <1>8 DEF Invalid!WaitMerged, Invalid!host, Invalid!args, InvalidInv,
      Invalid!TypeOK, NoException, SeenIsOwn, FileIsGone
<1>9. CASE Invalid!RestartInvalid
  BY <1>3, <1>9 DEF Invalid!RestartInvalid, Invalid!Restarts, Invalid!args,
      InvalidInv, Invalid!TypeOK, NoException, SeenIsOwn, FileIsGone
<1>10. CASE Invalid!Raises
  BY <1>10 DEF Invalid!Raises, Invalid!host, Invalid!args, InvalidInv, Invalid!TypeOK,
      NoException, SeenIsOwn, FileIsGone
<1>11. CASE Invalid!Remove
  BY <1>11 DEF Invalid!Remove, Invalid!args, InvalidInv, Invalid!TypeOK, NoException,
      SeenIsOwn, FileIsGone
<1>12. CASE Invalid!RestartAgain
  BY <1>3, <1>12 DEF Invalid!RestartAgain, Invalid!Restarts, Invalid!host,
      Invalid!args, InvalidInv, Invalid!TypeOK, NoException, SeenIsOwn, FileIsGone
<1>13. CASE Invalid!CleanUpRaises
  BY <1>13 DEF Invalid!CleanUpRaises, Invalid!host, Invalid!args, InvalidInv,
      Invalid!TypeOK, NoException, SeenIsOwn, FileIsGone
<1>14. CASE Invalid!Look
  BY <1>14 DEF Invalid!Look, Invalid!host, Invalid!args, InvalidInv, Invalid!TypeOK,
      NoException, SeenIsOwn, FileIsGone
<1>15. CASE Invalid!Over
  BY <1>15 DEF Invalid!Over, Invalid!vars, Invalid!args, InvalidInv, Invalid!TypeOK,
      NoException, SeenIsOwn, FileIsGone
<1> QED BY <1>4, <1>5, <1>6, <1>7, <1>8, <1>9, <1>10, <1>11, <1>12, <1>13, <1>14,
    <1>15 DEF Invalid!Next

LEMMA InvalidKeeps == InvalidInv => Invalid!MessageIsOwn /\ Invalid!InvalidConfigIsGone
BY DEF InvalidInv, Invalid!TypeOK, SeenIsOwn, FileIsGone, Invalid!MessageIsOwn,
    Invalid!InvalidConfigIsGone

-----------------------------------------------------------------------------
(***************************************************************************)
(* start_keepers and stop_keepers (KeeperNodes).  The loops go through the *)
(* nodes in order: what was checked before the one they are at stays so.   *)
(***************************************************************************)
KeepersStarted ==
    /\ k_pc \in {"start", "check"} =>
          \A i \in 1..(k_next - 1) : k_keeper[Names[i]] \in {"up", "dead"}
    /\ k_pc = "check" => k_keeper[Names[k_next]] \in {"starting", "up", "dead"}

KeepersStopped ==
    k_pc \in {"ls", "kill", "ps"} =>
        \A i \in 1..(k_next - 1) : k_keeper[Names[i]] = "dead"

KeepersInv ==
    /\ Keepers!TypeOK /\ KeepersStarted /\ KeepersStopped
    /\ Keepers!TestHasKeepers /\ Keepers!CleanUpStopsAll

LEMMA KeeperNames ==
    /\ Names \in Seq(STRING) /\ Len(Names) \in Nat /\ MaxDeaths \in Nat
    /\ \A i \in 1..Len(Names) : Names[i] \in Keepers!Nodes
    /\ \A n \in Keepers!Nodes : \E i \in 1..Len(Names) : Names[i] = n
    /\ \A i, j \in 1..Len(Names) : Names[i] = Names[j] => i = j
BY KeepersAssumption DEF Keepers!KeeperNodesAssumption, Keepers!Nodes

LEMMA KeepersFirst ==
    ASSUME Keepers!Init
    PROVE  KeepersInv
<1>1. 1 \in 1..(Len(Names) + 1) /\ 0 \in 0..MaxDeaths
  BY KeeperNames
<1>2. Keepers!TypeOK
  BY <1>1 DEF Keepers!Init, Keepers!TypeOK
<1>3. k_next = 1 /\ k_pc = "start"
  BY DEF Keepers!Init
<1> QED BY <1>2, <1>3 DEF KeepersInv, KeepersStarted, KeepersStopped,
    Keepers!TestHasKeepers, Keepers!CleanUpStopsAll

(* The keepers that come up, end or die: none that was up or dead is anything else *)
LEMMA KeeperChanges ==
    ASSUME KeepersInv, NEW n \in Keepers!Nodes,
           Keepers!ComesUp(n) \/ Keepers!EndsInOrder(n) \/ Keepers!Dies(n)
    PROVE  /\ KeepersInv'
<1>1. k_deaths \in 0..MaxDeaths /\ MaxDeaths \in Nat
  BY KeeperNames DEF KeepersInv, Keepers!TypeOK
<1>2. k_deaths < MaxDeaths => k_deaths + 1 \in 0..MaxDeaths
  BY <1>1
<1>3. Keepers!TypeOK'
  BY <1>2 DEF KeepersInv, Keepers!TypeOK, Keepers!ComesUp, Keepers!EndsInOrder,
      Keepers!Dies, Keepers!Alive
<1>4. /\ UNCHANGED <<k_pc, k_next, k_manual, k_result>>
      /\ \A m \in Keepers!Nodes :
            /\ k_keeper[m] = "dead" => k_keeper'[m] = "dead"
            /\ k_keeper[m] \in {"up", "dead"} => k_keeper'[m] \in {"up", "dead"}
            /\ k_keeper[m] \in {"starting", "up", "dead"} =>
                  k_keeper'[m] \in {"starting", "up", "dead"}
  BY DEF KeepersInv, Keepers!TypeOK, Keepers!ComesUp, Keepers!EndsInOrder,
      Keepers!Dies, Keepers!Alive
<1>5. /\ \A i \in 1..(k_next - 1) : Names[i] \in Keepers!Nodes
      /\ k_pc = "check" => Names[k_next] \in Keepers!Nodes
  BY KeeperNames DEF KeepersInv, Keepers!TypeOK
<1>6. KeepersStarted' /\ KeepersStopped'
  BY <1>4, <1>5 DEF KeepersInv, KeepersStarted, KeepersStopped
<1>7. Keepers!TestHasKeepers' /\ Keepers!CleanUpStopsAll'
  BY <1>4 DEF KeepersInv, Keepers!TestHasKeepers, Keepers!CleanUpStopsAll
<1> QED BY <1>3, <1>6, <1>7 DEF KeepersInv

LEMMA KeepersNext ==
    ASSUME KeepersInv, Keepers!Next
    PROVE  KeepersInv'
<1>1. /\ k_next \in 1..(Len(Names) + 1) /\ Len(Names) \in Nat
      /\ k_pc \in {"check", "kill", "ps"} => k_next <= Len(Names)
  BY KeeperNames DEF KeepersInv, Keepers!TypeOK
<1>2. k_next <= Len(Names) =>
        Names[k_next] \in Keepers!Nodes /\ k_next + 1 \in 1..(Len(Names) + 1)
  BY <1>1, KeeperNames
<1>3. 1 \in 1..(Len(Names) + 1)
  BY <1>1
<1>4. ASSUME NEW n \in Keepers!Nodes,
             Keepers!ComesUp(n) \/ Keepers!EndsInOrder(n) \/ Keepers!Dies(n)
      PROVE  KeepersInv'
  BY <1>4, KeeperChanges
<1>5. CASE Keepers!Start
  <2>1. Keepers!TypeOK'
    BY <1>1, <1>2, <1>3, <1>5 DEF Keepers!Start, Keepers!Goto, KeepersInv,
        Keepers!TypeOK
  <2>2. KeepersStarted' /\ KeepersStopped'
    BY <1>1, <1>2, <1>5, KeeperNames DEF Keepers!Start, Keepers!Goto, KeepersInv,
        Keepers!TypeOK, KeepersStarted, KeepersStopped
  <2>3. Keepers!TestHasKeepers' /\ Keepers!CleanUpStopsAll'
    BY <1>1, <1>5 DEF Keepers!Start, Keepers!Goto, KeepersInv, Keepers!TestHasKeepers,
        Keepers!CleanUpStopsAll
  <2> QED BY <2>1, <2>2, <2>3 DEF KeepersInv
<1>6. CASE Keepers!StartFails
  BY <1>1, <1>2, <1>3, <1>6, KeeperNames DEF Keepers!StartFails, Keepers!Raise,
      KeepersInv, Keepers!TypeOK, KeepersStarted, KeepersStopped,
      Keepers!TestHasKeepers, Keepers!CleanUpStopsAll
<1>7. CASE Keepers!Check
  <2>1. Keepers!TypeOK'
    BY <1>1, <1>2, <1>3, <1>7 DEF Keepers!Check, Keepers!Raise, KeepersInv,
        Keepers!TypeOK
  <2>2. KeepersStarted' /\ KeepersStopped'
    BY <1>1, <1>2, <1>7, KeeperNames DEF Keepers!Check, Keepers!Raise, KeepersInv,
        Keepers!TypeOK, KeepersStarted, KeepersStopped
  <2>3. Keepers!TestHasKeepers' /\ Keepers!CleanUpStopsAll'
    BY <1>1, <1>7 DEF Keepers!Check, Keepers!Raise, KeepersInv,
        Keepers!TestHasKeepers, Keepers!CleanUpStopsAll
  <2> QED BY <2>1, <2>2, <2>3 DEF KeepersInv
<1>8. CASE Keepers!Yield
  BY <1>1, <1>2, <1>3, <1>8, KeeperNames DEF Keepers!Yield, Keepers!Goto, KeepersInv,
      Keepers!TypeOK, KeepersStarted, KeepersStopped, Keepers!TestHasKeepers,
      Keepers!CleanUpStopsAll
<1>9. CASE Keepers!TestEnds
  BY <1>1, <1>2, <1>3, <1>9, KeeperNames DEF Keepers!TestEnds, KeepersInv,
      Keepers!TypeOK, KeepersStarted, KeepersStopped, Keepers!TestHasKeepers,
      Keepers!CleanUpStopsAll
<1>10. CASE Keepers!TestRaises
  BY <1>1, <1>2, <1>3, <1>10, KeeperNames DEF Keepers!TestRaises, Keepers!Raise,
      KeepersInv, Keepers!TypeOK, KeepersStarted, KeepersStopped,
      Keepers!TestHasKeepers, Keepers!CleanUpStopsAll
<1>11. CASE Keepers!Ls
  <2>1. Keepers!TypeOK'
    BY <1>1, <1>2, <1>3, <1>11 DEF Keepers!Ls, Keepers!Goto, Keepers!Raise,
        KeepersInv, Keepers!TypeOK
  <2>2. KeepersStarted' /\ KeepersStopped'
    BY <1>1, <1>2, <1>11, KeeperNames DEF Keepers!Ls, Keepers!Goto, Keepers!Raise,
        KeepersInv, Keepers!TypeOK, KeepersStarted, KeepersStopped
  <2>3. Keepers!TestHasKeepers' /\ Keepers!CleanUpStopsAll'
    BY <1>1, <1>11 DEF Keepers!Ls, Keepers!Goto, Keepers!Raise, KeepersInv,
        Keepers!TestHasKeepers, Keepers!CleanUpStopsAll
  <2> QED BY <2>1, <2>2, <2>3 DEF KeepersInv
<1>12. CASE Keepers!Kill
  <2>1. Keepers!TypeOK'
    BY <1>1, <1>2, <1>3, <1>12 DEF Keepers!Kill, Keepers!Goto, Keepers!Raise,
        Keepers!Alive, KeepersInv, Keepers!TypeOK
  <2>2. KeepersStarted' /\ KeepersStopped'
    BY <1>1, <1>2, <1>12, KeeperNames DEF Keepers!Kill, Keepers!Goto, Keepers!Raise,
        Keepers!Alive, KeepersInv, Keepers!TypeOK, KeepersStarted, KeepersStopped
  <2>3. Keepers!TestHasKeepers' /\ Keepers!CleanUpStopsAll'
    BY <1>1, <1>12 DEF Keepers!Kill, Keepers!Goto, Keepers!Raise, Keepers!Alive,
        KeepersInv, Keepers!TestHasKeepers, Keepers!CleanUpStopsAll
  <2> QED BY <2>1, <2>2, <2>3 DEF KeepersInv
<1>13. CASE Keepers!Ps
  <2>1. Keepers!TypeOK'
    BY <1>1, <1>2, <1>3, <1>13 DEF Keepers!Ps, Keepers!Raise, KeepersInv,
        Keepers!TypeOK
  <2>2. KeepersStarted' /\ KeepersStopped'
    BY <1>1, <1>2, <1>13, KeeperNames DEF Keepers!Ps, Keepers!Raise, KeepersInv,
        Keepers!TypeOK, KeepersStarted, KeepersStopped
  <2>3. Keepers!TestHasKeepers' /\ Keepers!CleanUpStopsAll'
    BY <1>1, <1>13 DEF Keepers!Ps, Keepers!Raise, KeepersInv, Keepers!TestHasKeepers,
        Keepers!CleanUpStopsAll
  <2> QED BY <2>1, <2>2, <2>3 DEF KeepersInv
<1>14. CASE Keepers!AllStopped
  BY <1>1, <1>2, <1>3, <1>14, KeeperNames DEF Keepers!AllStopped, KeepersInv,
      Keepers!TypeOK, KeepersStarted, KeepersStopped, Keepers!TestHasKeepers,
      Keepers!CleanUpStopsAll
<1>15. CASE Keepers!Over
  BY <1>1, <1>2, <1>3, <1>15, KeeperNames DEF Keepers!Over, Keepers!vars, KeepersInv,
      Keepers!TypeOK, KeepersStarted, KeepersStopped, Keepers!TestHasKeepers,
      Keepers!CleanUpStopsAll
<1> QED BY <1>4, <1>5, <1>6, <1>7, <1>8, <1>9, <1>10, <1>11, <1>12, <1>13, <1>14,
    <1>15 DEF Keepers!Next

-----------------------------------------------------------------------------
(***************************************************************************)
(* Steps with a clean-up (NodeFixtures).  What is on the node and was not  *)
(* there before belongs to a step still to be cleaned up, or its clean-up  *)
(* has failed.                                                             *)
(***************************************************************************)
Pending == UNION {Fixtures!Things(f_stack[i]) : i \in DOMAIN f_stack}

FixturesInv ==
    /\ f_pc = "over" => f_stack = << >>
    /\ f_node \subseteq Before \cup f_left \cup Pending

(***************************************************************************)
(* add_group_on_node deletes the default group whatever group it has       *)
(* added: the steps on groups are about that one.                          *)
(***************************************************************************)
OnlyDefaultGroup == \A f \in Steps : f.kind = "group" => f.names = <<Default>>

LEMMA ThingsOfNames ==
    ASSUME NEW f \in Steps, NEW s \in Seq(STRING)
    PROVE  Fixtures!Things([f EXCEPT !.names = s]) = {<<f.kind, s[i]>> : i \in 1..Len(s)}
BY FixturesAssumption DEF Fixtures!NodeFixturesAssumption, Fixtures!Things

(* The first commands of a step make a part of its things, the rest is what is left *)
LEMMA ThingsSplit ==
    ASSUME NEW f \in Steps, NEW i \in 1..Len(f.names)
    PROVE  Fixtures!Things(f) =
             Fixtures!Things([f EXCEPT !.names = SubSeq(f.names, 1, i - 1)]) \cup
             Fixtures!Things([f EXCEPT !.names = SubSeq(f.names, i, Len(f.names))])
<1>1. f.names \in Seq(STRING) /\ Len(f.names) \in Nat /\ DOMAIN f.names = 1..Len(f.names)
  BY FixturesAssumption DEF Fixtures!NodeFixturesAssumption
<1> DEFINE a == SubSeq(f.names, 1, i - 1)
           b == SubSeq(f.names, i, Len(f.names))
<1>2. /\ a \in Seq(STRING) /\ Len(a) = i - 1
      /\ \A j \in 1..(i - 1) : a[j] = f.names[j]
  BY <1>1
<1>3. /\ b \in Seq(STRING) /\ Len(b) = Len(f.names) - i + 1
      /\ \A j \in 1..(Len(f.names) - i + 1) : b[j] = f.names[j + i - 1]
  BY <1>1
<1> HIDE DEF a, b
<1>4. Fixtures!Things([f EXCEPT !.names = a]) = {<<f.kind, a[j]>> : j \in 1..Len(a)}
  BY <1>2, ThingsOfNames
<1>5. Fixtures!Things([f EXCEPT !.names = b]) = {<<f.kind, b[j]>> : j \in 1..Len(b)}
  BY <1>3, ThingsOfNames
<1>6. Fixtures!Things(f) = {<<f.kind, f.names[j]>> : j \in 1..Len(f.names)}
  BY <1>1 DEF Fixtures!Things
<1>7. ASSUME NEW j \in 1..Len(f.names)
      PROVE  \/ j \in 1..(i - 1)
             \/ j - i + 1 \in 1..(Len(f.names) - i + 1) /\ (j - i + 1) + i - 1 = j
  BY <1>1
<1>8. \A j \in 1..(Len(f.names) - i + 1) : j + i - 1 \in 1..Len(f.names)
  BY <1>1
<1>9. \A j \in 1..(i - 1) : j \in 1..Len(f.names)
  BY <1>1
<1>10. Fixtures!Things([f EXCEPT !.names = a]) \subseteq Fixtures!Things(f)
  BY <1>2, <1>4, <1>6, <1>9
<1>11. Fixtures!Things([f EXCEPT !.names = b]) \subseteq Fixtures!Things(f)
  BY <1>3, <1>5, <1>6, <1>8
<1>12. ASSUME NEW t \in Fixtures!Things(f)
       PROVE  \/ t \in Fixtures!Things([f EXCEPT !.names = a])
              \/ t \in Fixtures!Things([f EXCEPT !.names = b])
  <2>1. PICK j \in 1..Len(f.names) : t = <<f.kind, f.names[j]>>
    BY <1>6, <1>12
  <2>2. CASE j \in 1..(i - 1)
    BY <1>2, <1>4, <2>1, <2>2
  <2>3. CASE j - i + 1 \in 1..(Len(f.names) - i + 1) /\ (j - i + 1) + i - 1 = j
    <3>1. f.names[j] = b[j - i + 1]
      BY <1>3, <2>3
    <3> QED BY <1>3, <1>5, <2>1, <2>3, <3>1
  <2> QED BY <1>7, <2>2, <2>3
<1> QED BY <1>10, <1>11, <1>12 DEF a, b

(* Entering a step adds its things to the pending ones, leaving it takes them away *)
LEMMA PendingPush ==
    ASSUME f_stack \in Seq(Steps), NEW f \in Steps, f_stack' = <<f>> \o f_stack
    PROVE  f_stack' \in Seq(Steps) /\ Pending' = Pending \cup Fixtures!Things(f)
<1>1. /\ f_stack' \in Seq(Steps) /\ Len(f_stack') = Len(f_stack) + 1
      /\ Len(f_stack) \in Nat /\ f_stack'[1] = f
      /\ \A i \in 1..Len(f_stack) : f_stack'[i + 1] = f_stack[i]
  OBVIOUS
<1>2. DOMAIN f_stack' = 1..(Len(f_stack) + 1) /\ DOMAIN f_stack = 1..Len(f_stack)
  BY <1>1
<1>3. \A i \in 1..(Len(f_stack) + 1) :
        i = 1 \/ (i - 1 \in 1..Len(f_stack) /\ (i - 1) + 1 = i)
  BY <1>1
<1>4. \A i \in 1..Len(f_stack) : i + 1 \in 1..(Len(f_stack) + 1)
  BY <1>1
<1>5. 1 \in 1..(Len(f_stack) + 1)
  BY <1>1
<1> QED BY <1>1, <1>2, <1>3, <1>4, <1>5 DEF Pending

LEMMA PendingPop ==
    ASSUME f_stack \in Seq(Steps), f_stack # << >>, f_stack' = Tail(f_stack)
    PROVE  /\ f_stack' \in Seq(Steps) /\ Head(f_stack) \in Steps
           /\ Pending \subseteq Pending' \cup Fixtures!Things(Head(f_stack))
<1>1. /\ f_stack' \in Seq(Steps) /\ Len(f_stack') = Len(f_stack) - 1
      /\ Len(f_stack) \in Nat /\ f_stack[1] = Head(f_stack) /\ Head(f_stack) \in Steps
      /\ \A i \in 1..(Len(f_stack) - 1) : f_stack'[i] = f_stack[i + 1]
  OBVIOUS
<1>2. DOMAIN f_stack' = 1..(Len(f_stack) - 1) /\ DOMAIN f_stack = 1..Len(f_stack)
  BY <1>1
<1>3. \A i \in 1..Len(f_stack) :
        i = 1 \/ (i - 1 \in 1..(Len(f_stack) - 1) /\ (i - 1) + 1 = i)
  BY <1>1
<1> QED BY <1>1, <1>2, <1>3 DEF Pending

LEMMA FixturesFirst ==
    ASSUME Fixtures!Init
    PROVE  Fixtures!TypeOK /\ FixturesInv
<1>1. 0 \in 0..MaxFailures
  BY FixturesAssumption DEF Fixtures!NodeFixturesAssumption
<1> QED BY <1>1 DEF Fixtures!Init, Fixtures!TypeOK, FixturesInv

(* A part of the things of a step are things of the steps *)
LEMMA ThingsOfSome ==
    ASSUME NEW f \in Steps, NEW i \in 1..Len(f.names)
    PROVE  /\ Fixtures!Things(f) \subseteq Fixtures!AllThings
           /\ Fixtures!Things([f EXCEPT !.names = SubSeq(f.names, 1, i - 1)])
                 \subseteq Fixtures!AllThings
           /\ Fixtures!Things([f EXCEPT !.names = SubSeq(f.names, i, Len(f.names))])
                 \subseteq Fixtures!AllThings
<1>1. Fixtures!Things(f) \subseteq Fixtures!AllThings
  BY DEF Fixtures!AllThings
<1>2. Fixtures!Things(f) =
        Fixtures!Things([f EXCEPT !.names = SubSeq(f.names, 1, i - 1)]) \cup
        Fixtures!Things([f EXCEPT !.names = SubSeq(f.names, i, Len(f.names))])
  BY ThingsSplit
<1> QED BY <1>1, <1>2, Zenon

LEMMA FixturesTypeNext ==
    ASSUME Fixtures!TypeOK, Fixtures!Next
    PROVE  Fixtures!TypeOK'
<1>1. /\ f_node \subseteq Before \cup Fixtures!AllThings /\ f_left \subseteq Fixtures!AllThings
      /\ f_stack \in Seq(Steps) /\ f_pc \in {"test", "clean", "over"}
      /\ f_failures \in 0..MaxFailures
  BY DEF Fixtures!TypeOK
<1>2. Fixtures!Fails => f_failures' \in 0..MaxFailures
  BY <1>1, FixturesAssumption DEF Fixtures!NodeFixturesAssumption, Fixtures!Fails
<1>3. ASSUME NEW f \in Steps, Fixtures!SetUp(f)
      PROVE  Fixtures!TypeOK'
  <2>1. Fixtures!Things(f) \subseteq Fixtures!AllThings
    BY DEF Fixtures!AllThings
  <2>2. f_stack' \in Seq(Steps)
    BY <1>1, <1>3, PendingPush DEF Fixtures!SetUp
  <2> QED BY <1>1, <1>3, <2>1, <2>2 DEF Fixtures!SetUp, Fixtures!TypeOK
<1>4. ASSUME NEW f \in Steps, Fixtures!SetUpFails(f)
      PROVE  Fixtures!TypeOK'
  <2>1. PICK i \in 1..Len(f.names) :
          f_node' = f_node \cup
                    Fixtures!Things([f EXCEPT !.names = SubSeq(f.names, 1, i - 1)])
    BY <1>4 DEF Fixtures!SetUpFails
  <2>2. f_node' \subseteq Before \cup Fixtures!AllThings
    BY <1>1, <2>1, ThingsOfSome
  <2>3. f_stack' \in Seq(Steps)
    BY <1>1, <1>4, PendingPush DEF Fixtures!SetUpFails
  <2>4. f_failures' \in 0..MaxFailures /\ f_pc' = "clean" /\ f_left' = f_left
    BY <1>1, <1>2, <1>4 DEF Fixtures!SetUpFails
  <2> QED BY <1>1, <2>2, <2>3, <2>4 DEF Fixtures!TypeOK
<1>5. CASE Fixtures!TestEnds
  BY <1>1, <1>5 DEF Fixtures!TestEnds, Fixtures!TypeOK
<1>6. CASE Fixtures!CleanUp
  <2>1. f_stack' \in Seq(Steps)
    BY <1>1, <1>6, PendingPop DEF Fixtures!CleanUp
  <2> QED BY <1>1, <1>6, <2>1 DEF Fixtures!CleanUp, Fixtures!TypeOK
<1>7. CASE Fixtures!CleanUpFails
  <2> DEFINE f == Head(f_stack)
  <2>1. f_stack' \in Seq(Steps) /\ f \in Steps
    BY <1>1, <1>7, PendingPop DEF Fixtures!CleanUpFails
  <2>2. PICK i \in 1..Len(f.names) :
          /\ f_node' \subseteq f_node
          /\ f_left' = f_left \cup
                Fixtures!Things([f EXCEPT !.names = SubSeq(f.names, i, Len(f.names))])
    BY <1>7 DEF Fixtures!CleanUpFails
  <2>3. Fixtures!Fails /\ f_pc' = f_pc
    BY <1>7 DEF Fixtures!CleanUpFails
  <2> HIDE DEF f
  <2>4. f_left' \subseteq Fixtures!AllThings
    BY <1>1, <2>1, <2>2, ThingsOfSome
  <2> QED BY <1>1, <1>2, <2>1, <2>2, <2>3, <2>4 DEF Fixtures!TypeOK
<1>8. CASE Fixtures!Over
  BY <1>1, <1>8 DEF Fixtures!Over, Fixtures!TypeOK
<1> QED BY <1>3, <1>4, <1>5, <1>6, <1>7, <1>8 DEF Fixtures!Next

LEMMA FixturesNext ==
    ASSUME OnlyDefaultGroup, Fixtures!TypeOK, FixturesInv, Fixtures!Next
    PROVE  FixturesInv'
<1>0. f_stack \in Seq(Steps)
  BY DEF Fixtures!TypeOK
<1>1. ASSUME NEW f \in Steps, Fixtures!SetUp(f)
      PROVE  FixturesInv'
  BY <1>0, <1>1, PendingPush DEF Fixtures!SetUp, FixturesInv
<1>2. ASSUME NEW f \in Steps, Fixtures!SetUpFails(f)
      PROVE  FixturesInv'
  <2>1. PICK i \in 1..Len(f.names) :
          f_node' = f_node \cup
                    Fixtures!Things([f EXCEPT !.names = SubSeq(f.names, 1, i - 1)])
    BY <1>2 DEF Fixtures!SetUpFails
  <2>2. Fixtures!Things([f EXCEPT !.names = SubSeq(f.names, 1, i - 1)])
          \subseteq Fixtures!Things(f)
    <3>1. Fixtures!Things(f) =
             Fixtures!Things([f EXCEPT !.names = SubSeq(f.names, 1, i - 1)]) \cup
             Fixtures!Things([f EXCEPT !.names = SubSeq(f.names, i, Len(f.names))])
      BY ThingsSplit
    <3> QED BY <3>1
  <2> QED BY <1>0, <1>2, <2>1, <2>2, PendingPush DEF Fixtures!SetUpFails, FixturesInv
<1>3. CASE Fixtures!TestEnds
  BY <1>3 DEF Fixtures!TestEnds, FixturesInv, Pending
<1>4. CASE Fixtures!CleanUp
  <2>1. /\ f_stack' \in Seq(Steps) /\ Head(f_stack) \in Steps
        /\ Pending \subseteq Pending' \cup Fixtures!Things(Head(f_stack))
    BY <1>0, <1>4, PendingPop DEF Fixtures!CleanUp, FixturesInv
  <2>2. Fixtures!Things(Head(f_stack)) \subseteq Fixtures!Removed(Head(f_stack))
    BY <2>1 DEF OnlyDefaultGroup, Fixtures!Removed, Fixtures!Things
  <2> QED BY <1>4, <2>1, <2>2 DEF Fixtures!CleanUp, FixturesInv
<1>5. CASE Fixtures!CleanUpFails
  <2> DEFINE f == Head(f_stack)
  <2>1. /\ f_stack' \in Seq(Steps) /\ f \in Steps
        /\ Pending \subseteq Pending' \cup Fixtures!Things(f)
    BY <1>0, <1>5, PendingPop DEF Fixtures!CleanUpFails, FixturesInv
  <2>2. PICK i \in 1..Len(f.names) :
          /\ f_node' = f_node \
                Fixtures!Things([f EXCEPT !.names = SubSeq(f.names, 1, i - 1)])
          /\ f_left' = f_left \cup
                Fixtures!Things([f EXCEPT !.names = SubSeq(f.names, i, Len(f.names))])
    BY <1>5 DEF Fixtures!CleanUpFails
  <2>3. f_pc' = "clean"
    BY <1>5 DEF Fixtures!CleanUpFails
  <2> HIDE DEF f
  <2>4. Fixtures!Things(f) =
          Fixtures!Things([f EXCEPT !.names = SubSeq(f.names, 1, i - 1)]) \cup
          Fixtures!Things([f EXCEPT !.names = SubSeq(f.names, i, Len(f.names))])
    BY <2>1, ThingsSplit
  <2> QED BY <2>1, <2>2, <2>3, <2>4 DEF FixturesInv
<1>6. CASE Fixtures!Over
  BY <1>6 DEF Fixtures!Over, FixturesInv, Pending
<1> QED BY <1>1, <1>2, <1>3, <1>4, <1>5, <1>6 DEF Fixtures!Next

LEMMA FixturesKeep == FixturesInv => Fixtures!LeavesNothing
BY DEF FixturesInv, Pending, Fixtures!LeavesNothing

-----------------------------------------------------------------------------
(***************************************************************************)
(* instrument_clickhouse_server_log (ServerLogWindow).  The bytes of the   *)
(* log lie in the order of the times they were written at; the two sizes   *)
(* separate them.  The dump begins with the byte before the first one of   *)
(* the test, unless the log was empty.                                     *)
(***************************************************************************)
(* The bytes of the log once the second size was taken *)
Window ==
    /\ w_start_logsize <= w_end_logsize /\ w_end_logsize <= Len(w_log)
    /\ \A i \in 1..Len(w_log) :
          w_log[i] = IF i <= w_start_logsize THEN "earlier"
                     ELSE IF i <= w_end_logsize THEN "test" ELSE "later"

Dumped ==
    /\ w_dump \in Seq(LogWindow!Times) /\ Len(w_dump) = w_end_logsize - w_start_logsize
    /\ \A i \in 1..Len(w_dump) :
          w_dump[i] = IF i = 1 /\ w_start_logsize > 0 THEN "earlier" ELSE "test"

LogLabels ==
    /\ w_pc = "stat" => \A i \in 1..Len(w_log) : w_log[i] = "earlier"
    /\ w_pc \in {"start", "test", "end", "end_stat"} =>
          /\ w_start_logsize <= Len(w_log)
          /\ \A i \in 1..Len(w_log) :
                w_log[i] = IF i <= w_start_logsize THEN "earlier" ELSE "test"
    /\ w_pc = "dump" => Window

LogDump ==
    /\ w_pc # "over" => w_dump = << >>
    /\ w_dump # << >> => Window /\ Dumped

LogInv == LogWindow!TypeOK /\ LogLabels /\ LogDump

LEMMA LogFirst ==
    ASSUME LogWindow!Init
    PROVE  LogInv
<1>1. MaxLog \in Nat /\ 0 \in 0..MaxLog /\ Len(<< >>) = 0
  BY LogWindowAssumption DEF LogWindow!ServerLogWindowAssumption
<1>2. << >> \in Seq(LogWindow!Times) /\ 0 <= MaxLog
  BY <1>1
<1>3. LogWindow!TypeOK
  <2>1. w_log = << >> /\ w_dump = << >> /\ Len(w_log) = 0
    BY <1>1 DEF LogWindow!Init
  <2>2. /\ w_pc = "stat" /\ w_start_logsize = 0 /\ w_end_logsize = 0
        /\ w_terminating = FALSE
    BY DEF LogWindow!Init
  <2> QED BY <1>1, <1>2, <2>1, <2>2 DEF LogWindow!TypeOK
<1>4. LogLabels /\ LogDump
  BY <1>1 DEF LogWindow!Init, LogLabels, LogDump
<1> QED BY <1>3, <1>4 DEF LogInv

(* A byte written now keeps the order *)
LEMMA LogWrites ==
    ASSUME LogInv, LogWindow!Writes
    PROVE  /\ w_log' \in Seq(LogWindow!Times) /\ Len(w_log') = Len(w_log) + 1 /\ Len(w_log) \in Nat
           /\ Len(w_log') <= MaxLog
           /\ \A i \in 1..Len(w_log) : w_log'[i] = w_log[i]
           /\ w_log'[Len(w_log) + 1] = LogWindow!Now
           /\ \A i \in 1..Len(w_log') : i \in 1..Len(w_log) \/ i = Len(w_log) + 1
<1>1. /\ w_log \in Seq(LogWindow!Times) /\ LogWindow!Now \in LogWindow!Times
      /\ w_log' = Append(w_log, LogWindow!Now)
  BY DEF LogInv, LogWindow!TypeOK, LogWindow!Writes, LogWindow!Now, LogWindow!Times
<1>2. Len(w_log) < MaxLog /\ MaxLog \in Nat
  BY LogWindowAssumption DEF LogWindow!ServerLogWindowAssumption, LogWindow!Writes
<1>3. Len(w_log') = Len(w_log) + 1 /\ Len(w_log) \in Nat
  BY <1>1
<1>4. Len(w_log') <= MaxLog
  BY <1>2, <1>3
<1> QED BY <1>1, <1>3, <1>4

(* What tail and head print *)
LEMMA LogDumps ==
    ASSUME LogInv, LogWindow!Dump
    PROVE  Dumped'
<1>1. /\ w_log \in Seq(LogWindow!Times) /\ Len(w_log) \in Nat
      /\ w_start_logsize \in Nat /\ w_end_logsize \in Nat /\ Window
      /\ w_start_logsize <= w_end_logsize /\ w_end_logsize <= Len(w_log)
  BY DEF LogInv, LogWindow!TypeOK, LogLabels, LogWindow!Dump, Window
<1> DEFINE a == IF w_start_logsize = 0 THEN 1 ELSE w_start_logsize
           n == w_end_logsize - w_start_logsize
           t == LogWindow!TailC(w_log, w_start_logsize)
<1>2. a \in Nat /\ a >= 1 /\ n \in Nat /\ a + n - 1 <= Len(w_log)
  BY <1>1
<1>3. t = SubSeq(w_log, a, Len(w_log))
  BY DEF LogWindow!TailC
<1> HIDE DEF t
<1>4. \/ Len(w_log) = 0 /\ a = 1 /\ n = 0
      \/ a <= Len(w_log)
  BY <1>1
<1>5. CASE a <= Len(w_log)
  <2>1. /\ t \in Seq(LogWindow!Times) /\ Len(t) = Len(w_log) - a + 1
        /\ \A i \in 1..(Len(w_log) - a + 1) : t[i] = w_log[a + i - 1]
    BY <1>1, <1>2, <1>3, <1>5
  <2>2. w_dump' = SubSeq(t, 1, n)
    BY <1>1, <1>2, <2>1 DEF LogWindow!Dump, LogWindow!HeadC, t
  <2>3. /\ w_dump' \in Seq(LogWindow!Times) /\ Len(w_dump') = n
        /\ \A i \in 1..n : w_dump'[i] = t[i]
    BY <1>2, <2>1, <2>2
  <2>4. \A i \in 1..n : w_dump'[i] = w_log[a + i - 1] /\ a + i - 1 \in 1..Len(w_log)
    BY <1>1, <1>2, <2>1, <2>3
  <2>5. \A i \in 1..n :
           w_dump'[i] = IF i = 1 /\ w_start_logsize > 0 THEN "earlier" ELSE "test"
    <3> SUFFICES ASSUME NEW i \in 1..n
                 PROVE  w_dump'[i] = IF i = 1 /\ w_start_logsize > 0
                                       THEN "earlier" ELSE "test"
      OBVIOUS
    <3> DEFINE k == a + i - 1
    <3>1. w_dump'[i] = w_log[k] /\ k \in 1..Len(w_log)
      BY <2>4
    <3>2. w_log[k] = IF k <= w_start_logsize THEN "earlier"
                     ELSE IF k <= w_end_logsize THEN "test" ELSE "later"
      BY <1>1, <3>1 DEF Window
    <3>3. k <= w_end_logsize /\ (k <= w_start_logsize <=> i = 1 /\ w_start_logsize > 0)
      BY <1>1
    <3> HIDE DEF k
    <3> QED BY <3>1, <3>2, <3>3
  <2> QED BY <2>3, <2>5 DEF Dumped, LogWindow!Dump
<1>6. CASE Len(w_log) = 0 /\ a = 1 /\ n = 0
  <2>1. t = << >>
    BY <1>1, <1>3, <1>6
  <2>2. w_dump' = << >>
    BY <1>6, <2>1 DEF LogWindow!Dump, LogWindow!HeadC, t
  <2>3. UNCHANGED <<w_start_logsize, w_end_logsize>>
    BY DEF LogWindow!Dump
  <2>4. Len(w_dump') = w_end_logsize' - w_start_logsize'
    BY <1>1, <1>6, <2>2, <2>3
  <2> QED BY <1>1, <1>6, <2>2, <2>3, <2>4 DEF Dumped
<1> QED BY <1>4, <1>5, <1>6

LEMMA LogNext ==
    ASSUME LogInv, LogWindow!Next
    PROVE  LogInv'
<1>1. /\ w_log \in Seq(LogWindow!Times) /\ Len(w_log) \in Nat
      /\ w_start_logsize \in Nat /\ w_end_logsize \in Nat
  BY DEF LogInv, LogWindow!TypeOK
<1>2. CASE LogWindow!ServerWrites
  <2>1. LogWindow!Writes /\ UNCHANGED <<w_pc, w_start_logsize, w_end_logsize, w_terminating, w_dump>>
    BY <1>2 DEF LogWindow!ServerWrites
  <2>2. LogWindow!TypeOK'
    BY <2>1, LogWrites DEF LogInv, LogWindow!TypeOK
  <2>3. /\ w_log'[Len(w_log) + 1] = LogWindow!Now /\ Len(w_log') = Len(w_log) + 1
        /\ \A i \in 1..Len(w_log) : w_log'[i] = w_log[i]
        /\ \A i \in 1..Len(w_log') : i \in 1..Len(w_log) \/ i = Len(w_log) + 1
    BY <2>1, LogWrites
  <2>4. w_pc \in {"dump", "over"} => LogWindow!Now = "later"
    BY DEF LogWindow!Now
  <2>5. w_pc \in {"dump", "over"} /\ Window => Window'
    BY <1>1, <2>1, <2>3, <2>4 DEF Window
  <2>6. Dumped => Dumped'
    BY <2>1 DEF Dumped
  <2>7. LogDump'
    BY <2>1, <2>5, <2>6 DEF LogInv, LogDump, LogWindow!TypeOK
  <2>8. LogLabels'
    BY <1>1, <2>1, <2>3, <2>5 DEF LogWindow!Now, LogInv, LogLabels
  <2> QED BY <2>2, <2>7, <2>8 DEF LogInv
<1>3. CASE LogWindow!StatStart
  BY <1>1, <1>3 DEF LogWindow!StatStart, LogInv, LogWindow!TypeOK, LogLabels, LogDump
<1>4. CASE LogWindow!StartMessage
  <2>1. /\ LogWindow!Writes /\ w_pc = "start" /\ w_pc' = "test"
        /\ UNCHANGED <<w_start_logsize, w_end_logsize, w_terminating, w_dump>>
    BY <1>4 DEF LogWindow!StartMessage
  <2>2. LogWindow!TypeOK'
    BY <2>1, LogWrites DEF LogInv, LogWindow!TypeOK
  <2>3. LogLabels' /\ LogDump'
    BY <1>1, <2>1, LogWrites DEF LogWindow!Now, LogInv, LogLabels, LogDump
  <2> QED BY <2>2, <2>3 DEF LogInv
<1>5. CASE LogWindow!TestEnds
  BY <1>5 DEF LogWindow!TestEnds, LogInv, LogWindow!TypeOK, LogLabels, LogDump
<1>6. CASE LogWindow!EndMessage
  <2>1. /\ LogWindow!Writes /\ w_pc = "end" /\ w_pc' = "end_stat"
        /\ UNCHANGED <<w_start_logsize, w_end_logsize, w_terminating, w_dump>>
    BY <1>6 DEF LogWindow!EndMessage
  <2>2. LogWindow!TypeOK'
    BY <2>1, LogWrites DEF LogInv, LogWindow!TypeOK
  <2>3. LogLabels' /\ LogDump'
    BY <1>1, <2>1, LogWrites DEF LogWindow!Now, LogInv, LogLabels, LogDump
  <2> QED BY <2>2, <2>3 DEF LogInv
<1>7. CASE LogWindow!StatEnd
  BY <1>1, <1>7 DEF LogWindow!StatEnd, LogInv, LogWindow!TypeOK, LogLabels, LogDump, Window
<1>8. CASE LogWindow!Dump
  <2>1. /\ w_pc = "dump" /\ w_pc' = "over"
        /\ UNCHANGED <<w_log, w_start_logsize, w_end_logsize, w_terminating>>
    BY <1>8 DEF LogWindow!Dump
  <2>2. Dumped' /\ w_dump' \in Seq(LogWindow!Times)
    BY <1>8, LogDumps DEF Dumped, LogWindow!Times
  <2>3. LogWindow!TypeOK'
    BY <2>1, <2>2 DEF LogInv, LogWindow!TypeOK
  <2>4. Window'
    BY <2>1 DEF LogInv, LogLabels, Window
  <2>5. LogLabels' /\ LogDump'
    BY <2>1, <2>2, <2>4 DEF LogLabels, LogDump
  <2> QED BY <2>3, <2>5 DEF LogInv
<1>9. CASE UNCHANGED LogWindow!vars
  BY <1>9 DEF LogWindow!vars, LogInv, LogWindow!TypeOK, LogLabels, LogDump, Window, Dumped
<1> QED BY <1>2, <1>3, <1>4, <1>5, <1>6, <1>7, <1>8, <1>9
        DEF LogWindow!Next, LogWindow!Over, LogWindow!Full

LEMMA SameCardinality == ASSUME NEW S PROVE LogWindow!Cardinality(S) = Cardinality(S)
BY DEF LogWindow!Cardinality, Cardinality

LEMMA LogKeeps == LogInv => LogWindow!DumpIsOffByOneAtMost
<1> SUFFICES ASSUME LogInv, w_dump # << >>
             PROVE  LogWindow!DumpIsOffByOneAtMost
  BY DEF LogWindow!DumpIsOffByOneAtMost
<1> DEFINE n == Len(w_dump)
           s == w_start_logsize
           e == w_end_logsize
<1>1. /\ Window /\ Dumped /\ w_log \in Seq(LogWindow!Times) /\ w_dump \in Seq(LogWindow!Times)
      /\ s \in Nat /\ e \in Nat /\ n \in Nat /\ n = e - s /\ n >= 1
      /\ Len(w_log) \in Nat /\ e <= Len(w_log)
  BY DEF LogInv, LogWindow!TypeOK, LogDump, Dumped, Window
<1>2. LogWindow!BytesOf(w_dump, "later") = {}
  BY <1>1 DEF LogWindow!BytesOf, Dumped
<1>3. Cardinality(LogWindow!BytesOf(w_dump, "earlier")) <= 1
  <2>1. LogWindow!BytesOf(w_dump, "earlier") = IF s > 0 THEN {1} ELSE {}
    BY <1>1 DEF LogWindow!BytesOf, Dumped
  <2>2. Cardinality({1}) = 1 /\ Cardinality({}) = 0
    BY FS_Singleton, FS_EmptySet
  <2>3. CASE s > 0
    <3>1. LogWindow!BytesOf(w_dump, "earlier") = {1}
      BY <2>1, <2>3
    <3> QED BY <2>2, <3>1
  <2>4. CASE ~(s > 0)
    <3>1. LogWindow!BytesOf(w_dump, "earlier") = {}
      BY <2>1, <2>4
    <3> QED BY <2>2, <3>1
  <2> QED BY <2>3, <2>4
<1>4. LogWindow!BytesOf(w_dump, "test") = IF s > 0 THEN 2..n ELSE 1..n
  BY <1>1 DEF LogWindow!BytesOf, Dumped
<1>5. LogWindow!BytesOf(w_log, "test") = (s + 1)..e
  BY <1>1 DEF LogWindow!BytesOf, Window
<1>6. Cardinality((s + 1)..e) = n
  <2>1. s + 1 \in Int /\ e \in Int /\ ~(s + 1 > e) /\ e - (s + 1) + 1 = n
    BY <1>1
  <2> QED BY <2>1, FS_Interval
<1>7. Cardinality(2..n) = n - 1 /\ Cardinality(1..n) = n
  <2>1. Cardinality(1..n) = n
    BY <1>1, FS_Interval
  <2>2. Cardinality(2..n) = IF 2 > n THEN 0 ELSE n - 2 + 1
    BY <1>1, FS_Interval
  <2> QED BY <1>1, <2>1, <2>2
<1>8. Cardinality(LogWindow!BytesOf(w_dump, "test"))
        >= Cardinality(LogWindow!BytesOf(w_log, "test")) - 1
  <2>1. CASE s > 0
    BY <1>1, <1>4, <1>5, <1>6, <1>7, <2>1
  <2>2. CASE ~(s > 0)
    BY <1>1, <1>4, <1>5, <1>6, <1>7, <2>2
  <2> QED BY <2>1, <2>2
<1> QED BY <1>2, <1>3, <1>8, SameCardinality DEF LogWindow!DumpIsOffByOneAtMost

-----------------------------------------------------------------------------
(***************************************************************************)
(* The parts together.  A behaviour stays with its part: the invariants of *)
(* the others have nothing to say.                                         *)
(***************************************************************************)
AllInv ==
    /\ IInv
    /\ part = "invalid" => InvalidInv
    /\ part = "log" => LogInv
    /\ part = "fixtures" => Fixtures!TypeOK /\ (OnlyDefaultGroup => FixturesInv)
    /\ part = "keepers" => KeepersInv
    /\ part = "lookup" => LookupInv

LEMMA AllFirst == AllInit => AllInv
BY InvInit, InvalidFirst, LogFirst, FixturesFirst, KeepersFirst, LookupFirst
   DEF AllInit, InvalidInit, LogWindowInit, FixturesInit, KeepersInit, LookupInit, AllInv

LEMMA AllStep == AllInv /\ [AllNext]_allVars => AllInv'
<1> SUFFICES ASSUME AllInv, [AllNext]_allVars PROVE AllInv'
  OBVIOUS
<1>1. CASE QueryStep
  BY <1>1, InvNext DEF QueryStep, AllInv
<1>2. CASE InvalidStep
  BY <1>2, InvNext, InvalidNext DEF InvalidStep, AllInv
<1>3. CASE LogWindowStep
  BY <1>3, InvNext, LogNext DEF LogWindowStep, AllInv
<1>4. CASE FixturesStep
  BY <1>4, InvNext, FixturesTypeNext, FixturesNext DEF FixturesStep, AllInv, OnlyDefaultGroup
<1>5. CASE KeepersStep
  BY <1>5, InvNext, KeepersNext DEF KeepersStep, AllInv
<1>6. CASE LookupStep
  BY <1>6, InvNext, LookupNext DEF LookupStep, AllInv
<1>7. CASE UNCHANGED allVars
  <2>1. IInv' /\ part' = part
    BY <1>7, InvNext DEF allVars, AllInv
  <2>2. InvalidInv => InvalidInv'
    BY <1>7 DEF allVars, invalidVars, InvalidInv, Invalid!TypeOK, NoException,
        SeenIsOwn, FileIsGone
  <2>3. LogInv => LogInv'
    BY <1>7 DEF allVars, logVars, LogInv, LogWindow!TypeOK, LogLabels, LogDump, Window, Dumped
  <2>4. (FixturesInv => FixturesInv') /\ (Fixtures!TypeOK => Fixtures!TypeOK')
    BY <1>7 DEF allVars, fixturesVars, Fixtures!TypeOK, FixturesInv, Pending
  <2>5. KeepersInv => KeepersInv'
    BY <1>7 DEF allVars, keepersVars, KeepersInv, Keepers!TypeOK, KeepersStarted,
        KeepersStopped, Keepers!TestHasKeepers, Keepers!CleanUpStopsAll
  <2>6. LookupInv => LookupInv'
    BY <1>7 DEF allVars, lookupVars, LookupInv, LookupOnce, Lookup!TypeOK, LookupHelpers,
        LookupCopy
  <2> QED BY <2>1, <2>2, <2>3, <2>4, <2>5, <2>6 DEF AllInv, OnlyDefaultGroup
<1> QED BY <1>1, <1>2, <1>3, <1>4, <1>5, <1>6, <1>7 DEF AllNext

(***************************************************************************)
(* The invariants of the parts hold in every behaviour of AllSpec.         *)
(***************************************************************************)
THEOREM AllInvariant == AllSpec => []AllInv
BY AllFirst, AllStep, PTL DEF AllSpec

(***************************************************************************)
(* The variables of all six parts keep their types, whatever the bounds: a *)
(* loop over the keepers stays within their names, what is on a node was   *)
(* there before or is of a step.                                           *)
(***************************************************************************)
THEOREM TypesCorrect == AllSpec => []TypesOK
<1>1. AllInv => TypesOK
  BY TypeFromInv DEF AllInv, InvalidInv, LogInv, KeepersInv, LookupInv, TypesOK
<1> QED BY <1>1, AllInvariant, PTL

(***************************************************************************)
(* add_invalid_config never passes on the message of an earlier            *)
(* configuration, however many calls follow each other and whenever the    *)
(* server reloads.                                                         *)
(***************************************************************************)
THEOREM OwnMessage == AllSpec => []MessageIsOwn
<1>1. AllInv => MessageIsOwn
  BY InvalidKeeps DEF AllInv, MessageIsOwn
<1> QED BY <1>1, AllInvariant, PTL

(***************************************************************************)
(* add_invalid_config that returns, or raises after its clean-up, leaves   *)
(* no invalid configuration on the server.                                 *)
(***************************************************************************)
THEOREM InvalidGone == AllSpec => []InvalidConfigIsGone
<1>1. AllInv => InvalidConfigIsGone
  BY InvalidKeeps DEF AllInv, InvalidConfigIsGone
<1> QED BY <1>1, AllInvariant, PTL

(***************************************************************************)
(* However long the log is and whatever the server writes meanwhile,       *)
(* instrument_clickhouse_server_log dumps nothing written after the test,  *)
(* at most one byte of before it and all of the test's but its last.       *)
(***************************************************************************)
THEOREM DumpOffByOne == AllSpec => []DumpIsOffByOneAtMost
<1>1. AllInv => DumpIsOffByOneAtMost
  BY LogKeeps DEF AllInv, DumpIsOffByOneAtMost
<1> QED BY <1>1, AllInvariant, PTL

(***************************************************************************)
(* However many steps a test nests and however often their commands fail,  *)
(* it leaves nothing on the node but what failed clean-ups could not take  *)
(* away, provided that the groups it adds are the one that                 *)
(* add_group_on_node deletes.                                              *)
(***************************************************************************)
THEOREM NothingIsLeft == ASSUME OnlyDefaultGroup PROVE AllSpec => []LeavesNothing
<1>1. AllInv => LeavesNothing
  BY FixturesKeep DEF AllInv, LeavesNothing
<1> QED BY <1>1, AllInvariant, PTL

(***************************************************************************)
(* start_keepers gives no test a group of which a keeper is still on its   *)
(* way, however many keepers there are.                                    *)
(***************************************************************************)
THEOREM KeepersForTest == AllSpec => []TestHasKeepers
<1>1. AllInv => TestHasKeepers
  BY DEF AllInv, KeepersInv, TestHasKeepers
<1> QED BY <1>1, AllInvariant, PTL

(***************************************************************************)
(* A clean-up of keepers that gets to the end of the group has seen every  *)
(* one end.                                                                *)
(***************************************************************************)
THEOREM KeepersStoppedAll == AllSpec => []CleanUpStopsAll
<1>1. AllInv => CleanUpStopsAll
  BY DEF AllInv, KeepersInv, CleanUpStopsAll
<1> QED BY <1>1, AllInvariant, PTL

(***************************************************************************)
(* For every timeout, node_container_id of helpers ends within a second of *)
(* it and the time it takes to open a control terminal, once and for no    *)
(* more than ControlTimeout + Probe seconds; the one of ssl_keeper does    *)
(* not give up on docker-compose before its timeout.                       *)
(***************************************************************************)
THEOREM LookupInTime == AllSpec => []KeepsItsTime
<1>1. AllInv => KeepsItsTime
  BY LookupKeeps DEF AllInv, KeepsItsTime
<1> QED BY <1>1, AllInvariant, PTL
===============================================================================

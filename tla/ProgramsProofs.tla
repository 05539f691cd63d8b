---------------------------- MODULE ProgramsProofs ----------------------------
(***************************************************************************)
(* Proofs about the programs on a host (Programs), for every value of the  *)
(* constants.  Each part has an inductive invariant of its own; as the     *)
(* parts share no variable, the steps of the others leave it alone.        *)
(***************************************************************************)
EXTENDS Integers, Programs, ClusterUpProofs, FiniteSetTheorems, WellFoundedInduction

-----------------------------------------------------------------------------
(***************************************************************************)
(* retry.sh and dockerd-start.sh (RetryScripts).  Until a script ends no   *)
(* try has been successful, and dockerd-start.sh has one left.             *)
(***************************************************************************)
RetryInv ==
    /\ Retry!TypeOK
    /\ r_exit = "none" => ~r_done
    /\ r_script = "dockerd" => r_limit > 0 /\ (r_exit = "none" => r_try < r_limit)
    /\ Retry!ExitCodeOfLastTry

LEMMA RetryBounds ==
    /\ \A l \in Retries \cup {DockerTries} : l \in Nat
    /\ DockerTries \in Nat /\ DockerTries > 0
BY RetryAssumption DEF Retry!RetryScriptsAssumption

LEMMA RetryFirst ==
    ASSUME Retry!Init
    PROVE  RetryInv
<1>1. r_limit \in Retries \cup {DockerTries} /\ r_script \in {"retry", "dockerd"}
  BY DEF Retry!Init
<1>2. r_limit \in Nat /\ 0 \in 0..r_limit
  BY <1>1, RetryBounds
<1> QED BY <1>1, <1>2, RetryBounds
        DEF Retry!Init, RetryInv, Retry!TypeOK, Retry!ExitCodeOfLastTry

LEMMA RetryNext ==
    ASSUME RetryInv, Retry!Next
    PROVE  RetryInv'
<1>1. /\ r_limit \in Nat /\ r_try \in 0..r_limit
      /\ r_try < r_limit => r_try + 1 \in 0..r_limit
  BY RetryBounds DEF RetryInv, Retry!TypeOK
<1>2. CASE Retry!Retry
  <2>1. r_script = "retry" /\ r_exit = "none" /\ UNCHANGED <<r_script, r_limit>>
    BY <1>2 DEF Retry!Retry
  <2>2. CASE r_try >= r_limit
    BY <1>1, <1>2, <2>1, <2>2 DEF Retry!Retry, RetryInv, Retry!TypeOK,
        Retry!ExitCodeOfLastTry
  <2>3. CASE ~(r_try >= r_limit)
    <3>1. r_done' \in BOOLEAN /\ r_exit' \in {"none", "0"} /\ r_try' \in 0..r_limit
      BY <1>1, <1>2, <2>3 DEF Retry!Retry
    <3>2. r_limit # 0 /\ (r_exit' = "0" <=> r_done')
      BY <1>1, <1>2, <2>3 DEF Retry!Retry
    <3> QED BY <2>1, <3>1, <3>2 DEF RetryInv, Retry!TypeOK, Retry!ExitCodeOfLastTry
  <2> QED BY <2>2, <2>3
<1>3. CASE Retry!DockerInfo
  <2>1. /\ r_script = "dockerd" /\ r_exit = "none" /\ UNCHANGED <<r_script, r_limit>>
        /\ r_try < r_limit /\ r_limit > 0
    BY <1>3 DEF Retry!DockerInfo, RetryInv
  <2>2. /\ r_done' \in BOOLEAN /\ r_try' \in 0..r_limit
        /\ r_exit' = IF r_done' THEN "0" ELSE IF r_try' >= r_limit THEN "1" ELSE "none"
    BY <1>1, <1>3, <2>1 DEF Retry!DockerInfo
  <2>3. r_exit' \in {"none", "0", "1"} /\ (r_exit' = "none" => r_try' < r_limit)
    BY <1>1, <2>2
  <2> QED BY <2>1, <2>2, <2>3 DEF RetryInv, Retry!TypeOK, Retry!ExitCodeOfLastTry
<1>4. CASE Retry!Ended
  BY <1>4 DEF Retry!Ended, Retry!vars, RetryInv, Retry!TypeOK, Retry!ExitCodeOfLastTry
<1> QED BY <1>2, <1>3, <1>4 DEF Retry!Next

-----------------------------------------------------------------------------
(***************************************************************************)
(* cicd-trigger.py (CicdTrigger).  A final status that a script knows is   *)
(* that of its pipeline, a script that is past its search has a trigger of *)
(* its user, and one that waits has started a pipeline.                    *)
(***************************************************************************)
KnownIsFinal ==
    \A s \in Scripts :
        /\ t_known[s] \in Trigger!Finished => t_pipeline[s] = t_known[s]
        /\ t_pc[s] = "check" => t_known[s] \in Trigger!Finished

HasTrigger ==
    \A s \in Scripts :
        /\ t_pc[s] = "trigger" =>
              t_trigger[s] \in t_triggers /\ User[t_trigger[s]] = User[s]
        /\ t_pc[s] \in {"print", "wait", "check"} => t_pipeline[s] # "none"

TriggerInv ==
    /\ Trigger!TypeOK /\ KnownIsFinal /\ HasTrigger
    /\ Trigger!ZeroMeans /\ Trigger!OwnTrigger

LEMMA TriggerFirst ==
    ASSUME Trigger!Init
    PROVE  TriggerInv
BY DEF Trigger!Init, TriggerInv, Trigger!TypeOK, KnownIsFinal, HasTrigger,
    Trigger!ZeroMeans, Trigger!OwnTrigger, Trigger!Finished

LEMMA TriggerNext ==
    ASSUME TriggerInv, Trigger!Next
    PROVE  TriggerInv'
<1>1. ASSUME NEW s \in Scripts, Trigger!Authenticate(s)
      PROVE  TriggerInv'
  <2>1. Trigger!TypeOK'
    BY <1>1 DEF Trigger!Authenticate, Trigger!Goto, TriggerInv, Trigger!TypeOK,
        Trigger!Finished
  <2>2. KnownIsFinal' /\ HasTrigger'
    BY <1>1 DEF Trigger!Authenticate, Trigger!Goto, TriggerInv, Trigger!TypeOK,
        KnownIsFinal, HasTrigger, Trigger!Finished
  <2>3. Trigger!ZeroMeans' /\ Trigger!OwnTrigger'
    BY <1>1 DEF Trigger!Authenticate, Trigger!Goto, TriggerInv, Trigger!TypeOK,
        KnownIsFinal, HasTrigger, Trigger!ZeroMeans, Trigger!OwnTrigger,
        Trigger!Finished
  <2> QED BY <2>1, <2>2, <2>3 DEF TriggerInv
<1>2. ASSUME NEW s \in Scripts, Trigger!Get(s)
      PROVE  TriggerInv'
  <2>1. Trigger!TypeOK'
    BY <1>2 DEF Trigger!Get, Trigger!Uses, Trigger!Goto, TriggerInv, Trigger!TypeOK,
        Trigger!Finished
  <2>2. KnownIsFinal' /\ HasTrigger'
    BY <1>2 DEF Trigger!Get, Trigger!Uses, Trigger!Goto, TriggerInv, Trigger!TypeOK, KnownIsFinal,
        HasTrigger, Trigger!Finished
  <2>3. Trigger!ZeroMeans' /\ Trigger!OwnTrigger'
    BY <1>2 DEF Trigger!Get, Trigger!Uses, Trigger!Goto, TriggerInv, Trigger!TypeOK, KnownIsFinal,
        HasTrigger, Trigger!ZeroMeans, Trigger!OwnTrigger, Trigger!Finished
  <2> QED BY <2>1, <2>2, <2>3 DEF TriggerInv
<1>3. ASSUME NEW s \in Scripts, Trigger!Create(s)
      PROVE  TriggerInv'
  <2>1. Trigger!TypeOK'
    BY <1>3 DEF Trigger!Create, Trigger!Uses, Trigger!Goto, TriggerInv, Trigger!TypeOK,
        Trigger!Finished
  <2>2. KnownIsFinal' /\ HasTrigger'
    BY <1>3 DEF Trigger!Create, Trigger!Uses, Trigger!Goto, TriggerInv, Trigger!TypeOK,
        KnownIsFinal, HasTrigger, Trigger!Finished
  <2>3. Trigger!ZeroMeans' /\ Trigger!OwnTrigger'
    BY <1>3 DEF Trigger!Create, Trigger!Uses, Trigger!Goto, TriggerInv, Trigger!TypeOK,
        KnownIsFinal, HasTrigger, Trigger!ZeroMeans, Trigger!OwnTrigger,
        Trigger!Finished
  <2> QED BY <2>1, <2>2, <2>3 DEF TriggerInv
<1>4. ASSUME NEW s \in Scripts, Trigger!TriggerPipeline(s)
      PROVE  TriggerInv'
  <2>1. Trigger!TypeOK'
    BY <1>4 DEF Trigger!TriggerPipeline, Trigger!Goto, TriggerInv, Trigger!TypeOK,
        Trigger!Finished
  <2>2. KnownIsFinal' /\ HasTrigger'
    BY <1>4 DEF Trigger!TriggerPipeline, Trigger!Goto, TriggerInv, Trigger!TypeOK,
        KnownIsFinal, HasTrigger, Trigger!Finished
  <2>3. Trigger!ZeroMeans' /\ Trigger!OwnTrigger'
    BY <1>4 DEF Trigger!TriggerPipeline, Trigger!Goto, TriggerInv, Trigger!TypeOK,
        KnownIsFinal, HasTrigger, Trigger!ZeroMeans, Trigger!OwnTrigger,
        Trigger!Finished
  <2> QED BY <2>1, <2>2, <2>3 DEF TriggerInv
<1>5. ASSUME NEW s \in Scripts, Trigger!PrintLinks(s)
      PROVE  TriggerInv'
  <2>1. Trigger!TypeOK'
    BY <1>5 DEF Trigger!PrintLinks, Trigger!Goto, Trigger!Exits, TriggerInv,
        Trigger!TypeOK, Trigger!Finished
  <2>2. KnownIsFinal' /\ HasTrigger'
    BY <1>5 DEF Trigger!PrintLinks, Trigger!Goto, Trigger!Exits, TriggerInv,
        Trigger!TypeOK, KnownIsFinal, HasTrigger, Trigger!Finished
  <2>3. Trigger!ZeroMeans' /\ Trigger!OwnTrigger'
    BY <1>5 DEF Trigger!PrintLinks, Trigger!Goto, Trigger!Exits, TriggerInv,
        Trigger!TypeOK, KnownIsFinal, HasTrigger, Trigger!ZeroMeans,
        Trigger!OwnTrigger, Trigger!Finished
  <2> QED BY <2>1, <2>2, <2>3 DEF TriggerInv
<1>6. ASSUME NEW s \in Scripts, Trigger!Refresh(s)
      PROVE  TriggerInv'
  <2>1. Trigger!TypeOK'
    BY <1>6 DEF Trigger!Refresh, Trigger!Goto, TriggerInv, Trigger!TypeOK,
        Trigger!Finished
  <2>2. KnownIsFinal' /\ HasTrigger'
    BY <1>6 DEF Trigger!Refresh, Trigger!Goto, TriggerInv, Trigger!TypeOK,
        KnownIsFinal, HasTrigger, Trigger!Finished
  <2>3. Trigger!ZeroMeans' /\ Trigger!OwnTrigger'
    BY <1>6 DEF Trigger!Refresh, Trigger!Goto, TriggerInv, Trigger!TypeOK,
        KnownIsFinal, HasTrigger, Trigger!ZeroMeans, Trigger!OwnTrigger,
        Trigger!Finished
  <2> QED BY <2>1, <2>2, <2>3 DEF TriggerInv
<1>7. ASSUME NEW s \in Scripts, Trigger!Check(s)
      PROVE  TriggerInv'
  <2>1. Trigger!TypeOK'
    BY <1>7 DEF Trigger!Check, Trigger!Exits, TriggerInv, Trigger!TypeOK,
        Trigger!Finished
  <2>2. KnownIsFinal' /\ HasTrigger'
    BY <1>7 DEF Trigger!Check, Trigger!Exits, TriggerInv, Trigger!TypeOK,
        KnownIsFinal, HasTrigger, Trigger!Finished
  <2>3. Trigger!ZeroMeans' /\ Trigger!OwnTrigger'
    BY <1>7 DEF Trigger!Check, Trigger!Exits, TriggerInv, Trigger!TypeOK,
        KnownIsFinal, HasTrigger, Trigger!ZeroMeans, Trigger!OwnTrigger,
        Trigger!Finished
  <2> QED BY <2>1, <2>2, <2>3 DEF TriggerInv
<1>8. ASSUME NEW s \in Scripts, Trigger!Fails(s)
      PROVE  TriggerInv'
  <2>1. Trigger!TypeOK'
    BY <1>8 DEF Trigger!Fails, Trigger!Exits, TriggerInv, Trigger!TypeOK,
        Trigger!Finished
  <2>2. KnownIsFinal' /\ HasTrigger'
    BY <1>8 DEF Trigger!Fails, Trigger!Exits, TriggerInv, Trigger!TypeOK,
        KnownIsFinal, HasTrigger, Trigger!Finished
  <2>3. Trigger!ZeroMeans' /\ Trigger!OwnTrigger'
    BY <1>8 DEF Trigger!Fails, Trigger!Exits, TriggerInv, Trigger!TypeOK,
        KnownIsFinal, HasTrigger, Trigger!ZeroMeans, Trigger!OwnTrigger,
        Trigger!Finished
  <2> QED BY <2>1, <2>2, <2>3 DEF TriggerInv
<1>9. ASSUME NEW s \in Scripts, Trigger!PipelineEnds(s)
      PROVE  TriggerInv'
  <2>1. Trigger!TypeOK'
    BY <1>9 DEF Trigger!PipelineEnds, TriggerInv, Trigger!TypeOK, Trigger!Finished
  <2>2. KnownIsFinal' /\ HasTrigger'
    BY <1>9 DEF Trigger!PipelineEnds, TriggerInv, Trigger!TypeOK, KnownIsFinal,
        HasTrigger, Trigger!Finished
  <2>3. Trigger!ZeroMeans' /\ Trigger!OwnTrigger'
    BY <1>9 DEF Trigger!PipelineEnds, TriggerInv, Trigger!TypeOK, KnownIsFinal,
        HasTrigger, Trigger!ZeroMeans, Trigger!OwnTrigger, Trigger!Finished
  <2> QED BY <2>1, <2>2, <2>3 DEF TriggerInv
<1>10. CASE UNCHANGED Trigger!vars
  BY <1>10 DEF Trigger!vars, TriggerInv, Trigger!TypeOK, KnownIsFinal, HasTrigger,
      Trigger!ZeroMeans, Trigger!OwnTrigger
<1> QED BY <1>1, <1>2, <1>3, <1>4, <1>5, <1>6, <1>7, <1>8, <1>9, <1>10
    DEF Trigger!Next, Trigger!Script, Trigger!AllOver

-----------------------------------------------------------------------------
(***************************************************************************)
(* regression.py (RegressionPool).  A suite that was loaded is skipped, or *)
(* on its way to its fate or there, one that was not is listed, and all    *)
(* suites before the one that cannot be loaded were loaded.                *)
(***************************************************************************)
(* What may be said of a suite before the program has ended *)
OnItsWay(i) ==
    LET state == p_suite[Listed[i]] IN
    IF i < p_next
      THEN IF Listed[i] \in Skipped THEN state = "skipped"
           ELSE state \in {"queued", "running",
                           IF Required[Listed[i]] \subseteq Passed THEN "ran" ELSE "error"}
      ELSE state = "listed"

PoolInv ==
    /\ Pool!TypeOK
    /\ \A i \in 1..Len(Listed) : OnItsWay(i)
    /\ \A i \in 1..Len(Listed) : i < p_next => Listed[i] \in Existing
    /\ p_pc # "submit" => Pool!LoadingEnds /\ p_raised = (p_next <= Len(Listed))
    /\ p_pc = "ended" => \A s \in Pool!ListedSuites : p_suite[s] \notin {"queued", "running"}

LEMMA PoolNames ==
    /\ Len(Listed) \in Nat /\ DOMAIN Listed = 1..Len(Listed)
    /\ \A i \in 1..Len(Listed) : Listed[i] \in Pool!ListedSuites
    /\ \A s \in Pool!ListedSuites : \E i \in 1..Len(Listed) : s = Listed[i]
    /\ \A i, j \in 1..Len(Listed) : Listed[i] = Listed[j] => i = j
BY PoolAssumption DEF Pool!RegressionPoolAssumption, Pool!ListedSuites

LEMMA PoolFirst ==
    ASSUME Pool!Init
    PROVE  PoolInv
<1>1. 1 \in 1..(Len(Listed) + 1) /\ \A i \in 1..Len(Listed) : ~(i < 1)
  BY PoolNames
<1>2. Pool!TypeOK
  BY <1>1 DEF Pool!Init, Pool!TypeOK
<1>3. \A i \in 1..Len(Listed) : OnItsWay(i)
  BY <1>1, PoolNames DEF Pool!Init, OnItsWay
<1> QED BY <1>1, <1>2, <1>3 DEF Pool!Init, PoolInv

(* A step of a suite that a thread of the pool runs is one on its way *)
LEMMA PoolSuite ==
    ASSUME PoolInv, NEW s \in Pool!ListedSuites, Pool!Start(s) \/ Pool!Runs(s)
    PROVE  PoolInv'
<1>1. /\ UNCHANGED <<p_next, p_pc, p_raised>> /\ p_suite[s] \in {"queued", "running"}
      /\ \E state \in {"running", IF Required[s] \subseteq Passed THEN "ran" ELSE "error"} :
            p_suite' = [p_suite EXCEPT ![s] = state]
  BY DEF Pool!Start, Pool!Runs
<1>2. PICK state \in {"running", IF Required[s] \subseteq Passed THEN "ran" ELSE "error"} :
        p_suite' = [p_suite EXCEPT ![s] = state]
  BY <1>1
<1>3. Pool!TypeOK'
  BY <1>1, <1>2 DEF PoolInv, Pool!TypeOK
<1>4. ASSUME NEW i \in 1..Len(Listed) PROVE OnItsWay(i)'
  <2>1. OnItsWay(i)
    BY DEF PoolInv
  <2>2. CASE Listed[i] = s
    <3>1. p_suite'[Listed[i]] = state
      BY <1>2, <2>2 DEF PoolInv, Pool!TypeOK
    <3>2. i < p_next /\ Listed[i] \notin Skipped
      BY <1>1, <2>1, <2>2 DEF OnItsWay
    <3> QED BY <1>1, <1>2, <2>2, <3>1, <3>2 DEF OnItsWay
  <2>3. CASE Listed[i] # s
    <3>1. p_suite'[Listed[i]] = p_suite[Listed[i]]
      BY <1>2, <2>3, PoolNames DEF PoolInv, Pool!TypeOK
    <3> QED BY <1>1, <2>1, <3>1 DEF OnItsWay
  <2> QED BY <2>2, <2>3
<1>5. p_pc # "ended"
  BY <1>1 DEF PoolInv
<1> QED BY <1>1, <1>3, <1>4, <1>5 DEF PoolInv, Pool!LoadingEnds

LEMMA PoolNext ==
    ASSUME PoolInv, Pool!Next
    PROVE  PoolInv'
<1>1. /\ p_next \in 1..(Len(Listed) + 1) /\ Len(Listed) \in Nat
      /\ p_next <= Len(Listed) => p_next \in 1..Len(Listed)
      /\ p_next <= Len(Listed) => p_next + 1 \in 1..(Len(Listed) + 1)
      /\ \A i \in 1..Len(Listed) : i < p_next + 1 <=> i < p_next \/ i = p_next
  BY PoolNames DEF PoolInv, Pool!TypeOK
<1>2. CASE Pool!Submit
  <2>1. /\ p_next \in 1..Len(Listed) /\ Listed[p_next] \in Pool!ListedSuites
        /\ Listed[p_next] \in Existing
    BY <1>1, <1>2, PoolNames DEF Pool!Submit
  <2>2. /\ p_next' = p_next + 1 /\ UNCHANGED <<p_pc, p_raised>> /\ p_pc = "submit"
        /\ p_suite' = [p_suite EXCEPT ![Listed[p_next]] =
                          IF Listed[p_next] \in Skipped THEN "skipped" ELSE "queued"]
    BY <1>2 DEF Pool!Submit
  <2>3. Pool!TypeOK'
    BY <1>1, <2>1, <2>2 DEF PoolInv, Pool!TypeOK
  <2>4. ASSUME NEW i \in 1..Len(Listed) PROVE OnItsWay(i)'
    <3>1. OnItsWay(i)
      BY DEF PoolInv
    <3>2. CASE i = p_next
      <4>1. p_suite'[Listed[i]] =
              IF Listed[i] \in Skipped THEN "skipped" ELSE "queued"
        BY <2>1, <2>2, <3>2 DEF PoolInv, Pool!TypeOK
      <4> QED BY <1>1, <2>2, <3>2, <4>1 DEF OnItsWay
    <3>3. CASE i # p_next
      <4>1. Listed[i] # Listed[p_next]
        BY <2>1, <3>3, PoolNames
      <4>2. p_suite'[Listed[i]] = p_suite[Listed[i]]
        BY <2>2, <4>1, PoolNames DEF PoolInv, Pool!TypeOK
      <4> QED BY <1>1, <2>2, <3>1, <3>3, <4>2 DEF OnItsWay
    <3> QED BY <3>2, <3>3
  <2>5. (\A i \in 1..Len(Listed) : i < p_next => Listed[i] \in Existing)'
    BY <1>1, <2>1, <2>2 DEF PoolInv
  <2> QED BY <2>2, <2>3, <2>4, <2>5 DEF PoolInv
<1>3. CASE Pool!Finally
  BY <1>1, <1>3 DEF Pool!Finally, Pool!LoadingEnds, PoolInv, Pool!TypeOK, OnItsWay
<1>4. CASE Pool!Join
  BY <1>4 DEF Pool!Join, Pool!LoadingEnds, PoolInv, Pool!TypeOK, OnItsWay
<1>5. ASSUME NEW s \in Pool!ListedSuites, Pool!Start(s) \/ Pool!Runs(s)
      PROVE  PoolInv'
  BY <1>5, PoolSuite
<1>6. CASE Pool!Idle
  BY <1>6 DEF Pool!Idle, Pool!vars, Pool!LoadingEnds, PoolInv, Pool!TypeOK, OnItsWay
<1> QED BY <1>2, <1>3, <1>4, <1>5, <1>6 DEF Pool!Next, Pool!Program, Pool!Work

LEMMA PoolKeeps == PoolInv => Pool!EverySuiteIsOver
<1> SUFFICES ASSUME PoolInv, p_pc = "ended" PROVE Pool!EverySuiteIsOver
  BY DEF Pool!EverySuiteIsOver
<1>1. /\ p_next \in 1..(Len(Listed) + 1) /\ Len(Listed) \in Nat
      /\ p_next > Len(Listed) \/ Listed[p_next] \notin Existing
      /\ p_raised = (p_next <= Len(Listed))
  BY PoolNames DEF PoolInv, Pool!TypeOK, Pool!LoadingEnds
<1>2. ASSUME NEW i \in 1..Len(Listed) PROVE p_suite[Listed[i]] = Pool!Fate(i)
  <2>1. OnItsWay(i) /\ p_suite[Listed[i]] \notin {"queued", "running"}
    BY PoolNames DEF PoolInv
  <2>2. CASE i < p_next
    <3>1. \A j \in 1..i : j \in 1..Len(Listed) /\ j < p_next
      BY <1>1, <2>2
    <3>2. \A j \in 1..i : Listed[j] \in Existing
      BY <3>1 DEF PoolInv
    <3> QED BY <2>1, <2>2, <3>2 DEF OnItsWay, Pool!Fate
  <2>3. CASE ~(i < p_next)
    <3>1. p_next \in 1..i /\ Listed[p_next] \notin Existing
      BY <1>1, <2>3
    <3> QED BY <2>1, <2>3, <3>1 DEF OnItsWay, Pool!Fate
  <2> QED BY <2>2, <2>3
<1>3. p_raised = (\E i \in DOMAIN Listed : Listed[i] \notin Existing)
  <2>1. CASE p_next <= Len(Listed)
    <3>1. p_next \in DOMAIN Listed /\ Listed[p_next] \notin Existing
      BY <1>1, <2>1, PoolNames
    <3>2. p_raised = TRUE
      BY <1>1, <2>1
    <3> QED BY <3>1, <3>2
  <2>2. CASE ~(p_next <= Len(Listed))
    <3>1. \A i \in DOMAIN Listed : i < p_next /\ i \in 1..Len(Listed)
      BY <1>1, <2>2, PoolNames
    <3>2. \A i \in DOMAIN Listed : Listed[i] \in Existing
      BY <3>1 DEF PoolInv
    <3>3. p_raised \in BOOLEAN /\ p_raised = (p_next <= Len(Listed))
      BY <1>1 DEF PoolInv, Pool!TypeOK
    <3>4. ~p_raised
      BY <2>2, <3>3, Zenon
    <3>5. ~(\E i \in DOMAIN Listed : Listed[i] \notin Existing)
      BY <3>2
    <3> QED BY <3>3, <3>4, <3>5
  <2> QED BY <2>1, <2>2
<1> QED BY <1>2, <1>3, PoolNames DEF Pool!EverySuiteIsOver

-----------------------------------------------------------------------------
(***************************************************************************)
(* The binary of Cluster.__init__ (BinaryCache).  When suites come one     *)
(* after another, a part of a download lies about only while its suite     *)
(* still writes it or removes it, or after a kill, and of a package the    *)
(* bridge is unpacked last: where it is, the binary is too.                *)
(***************************************************************************)
IsActive(s) == b_pc[s] \notin {"todo", "done", "raised"}

Alone == \A s, t \in Suites : IsActive(s) /\ IsActive(t) => s = t

PastBinary ==
    \A s \in Suites :
        /\ b_pc[s] \in {"get_bridge", "writing_bridge"} => b_bin = "whole" \/ b_missed
        /\ b_pc[s] = "ready" => Binary!Used = "whole" \/ b_missed

Download ==
    /\ b_source = "https" /\ b_download = "partial" =>
          b_missed \/ \E s \in Suites : b_pc[s] \in {"wget", "clean"}
    /\ \A s \in Suites :
          /\ b_pc[s] \in {"get", "wget", "clean"} => b_source \in {"https", "https_deb"}
          /\ b_pc[s] \in {"get_binary", "writing", "get_bridge", "writing_bridge"} =>
                b_source # "https"

Package ==
    b_source \in {"deb", "https_deb"} =>
        /\ b_bridge # "none" => b_bin = "whole" \/ b_missed
        /\ b_bin = "none" => b_bridge = "none"
        /\ \A s \in Suites :
              /\ b_pc[s] \in {"get_binary", "writing"} => b_bridge = "none"
              /\ b_pc[s] \in {"writing", "get_bridge", "writing_bridge"} => b_bin # "none"

BinaryInv ==
    /\ Binary!TypeOK
    /\ AtOnce = 1 => Alone /\ PastBinary /\ Download /\ Package

LEMMA BinarySets ==
    /\ IsFiniteSet(Suites) /\ AtOnce \in Nat \ {0}
    /\ Sources \subseteq {"https", "docker", "deb", "https_deb"}
    /\ \A S : Binary!Cardinality(S) = Cardinality(S)
<1>1. \A S : Binary!IsFiniteSet(S) <=> IsFiniteSet(S)
  BY DEF Binary!IsFiniteSet, IsFiniteSet
<1>2. \A S : Binary!Cardinality(S) = Cardinality(S)
  BY DEF Binary!Cardinality, Cardinality
<1> QED BY <1>1, <1>2, BinaryAssumption DEF Binary!BinaryCacheAssumption

LEMMA ActiveSet ==
    /\ Binary!Active = {s \in Suites : IsActive(s)}
    /\ IsFiniteSet(Binary!Active) /\ Cardinality(Binary!Active) \in Nat
<1>1. Binary!Active = {s \in Suites : IsActive(s)}
  BY DEF Binary!Active, IsActive
<1>2. IsFiniteSet(Binary!Active)
  BY <1>1, BinarySets, FS_Subset
<1> QED BY <1>1, <1>2, FS_CardinalityType

(* With a limit of one, who looks finds nobody active *)
LEMMA NoneActive ==
    ASSUME AtOnce = 1, Cardinality(Binary!Active) < AtOnce
    PROVE  \A s \in Suites : ~IsActive(s)
<1>1. Cardinality(Binary!Active) = 0
  BY ActiveSet
<1>2. Binary!Active = {}
  BY <1>1, ActiveSet, FS_EmptySet
<1> QED BY <1>2, ActiveSet

(* A suite that is not new does not become active by its step *)
LEMMA ActiveStays ==
    ASSUME Binary!TypeOK, (Binary!Active)' \subseteq Binary!Active
    PROVE  Binary!Cardinality(Binary!Active)' <= AtOnce
<1>1. Cardinality((Binary!Active)') <= Cardinality(Binary!Active)
  BY ActiveSet, FS_Subset
<1>2. Cardinality((Binary!Active)') \in Nat
  BY ActiveSet, FS_Subset, FS_CardinalityType
<1>3. Cardinality(Binary!Active) <= AtOnce
  BY BinarySets DEF Binary!TypeOK
<1> QED BY <1>1, <1>2, <1>3, ActiveSet, BinarySets

LEMMA BinaryFirst ==
    ASSUME Binary!Init
    PROVE  BinaryInv
<1>1. Binary!Active = {}
  BY DEF Binary!Init, Binary!Active
<1>2. Binary!Cardinality(Binary!Active) <= AtOnce
  BY <1>1, BinarySets, FS_EmptySet
<1>3. Binary!TypeOK
  BY <1>2 DEF Binary!Init, Binary!TypeOK, Binary!Files
<1> QED BY <1>3 DEF Binary!Init, BinaryInv, Alone, IsActive, PastBinary, Download,
    Package

(* The types of what a step of a suite changes, but for the number of active ones *)
BinaryTypes ==
    /\ b_source \in Sources /\ b_missed \in BOOLEAN
    /\ b_download \in Binary!Files /\ b_bin \in Binary!Files /\ b_bridge \in Binary!Files
    /\ b_pc \in [Suites -> Binary!Getting \cup {"todo", "clean", "ready", "done", "raised"}]

(* What the steps of the suites but for Look have in common *)
LEMMA BinarySteps ==
    ASSUME BinaryInv, NEW s \in Suites, NEW step \in Binary!Getting \cup {"clean", "ready", "done", "raised"},
           IsActive(s), BinaryTypes', b_pc' = [b_pc EXCEPT ![s] = step]
    PROVE  /\ Binary!TypeOK' /\ (Alone => Alone')
           /\ b_pc'[s] = step /\ \A t \in Suites : t # s => b_pc'[t] = b_pc[t]
           /\ Alone => \A t \in Suites : t # s => ~IsActive(t)
<1>1. b_pc'[s] = step /\ \A t \in Suites : t # s => b_pc'[t] = b_pc[t]
  BY DEF BinaryInv, Binary!TypeOK
<1>2. \A t \in Suites : IsActive(t)' => IsActive(t)
  BY <1>1 DEF IsActive
<1>3. (Binary!Active)' \subseteq Binary!Active
  BY <1>2 DEF Binary!Active, IsActive
<1>4. Binary!Cardinality(Binary!Active)' <= AtOnce
  BY <1>3, ActiveStays DEF BinaryInv
<1> QED BY <1>1, <1>2, <1>4 DEF Binary!TypeOK, BinaryTypes, Alone

(* And what is left to show of them *)
LEMMA BinaryFacts ==
    ASSUME BinaryInv, NEW s \in Suites, NEW step \in Binary!Getting \cup {"clean", "ready", "done", "raised"},
           IsActive(s), BinaryTypes', b_pc' = [b_pc EXCEPT ![s] = step], b_source' = b_source,
           AtOnce = 1 =>
             /\ step \in {"get_bridge", "writing_bridge"} => b_bin' = "whole" \/ b_missed'
             /\ step = "ready" => (Binary!Used)' = "whole" \/ b_missed'
             /\ b_source = "https" /\ b_download' = "partial" =>
                   b_missed' \/ step \in {"wget", "clean"}
             /\ step \in {"get", "wget", "clean"} => b_source \in {"https", "https_deb"}
             /\ step \in {"get_binary", "writing", "get_bridge", "writing_bridge"} =>
                   b_source # "https"
             /\ b_source \in {"deb", "https_deb"} =>
                   /\ b_bridge' # "none" => b_bin' = "whole" \/ b_missed'
                   /\ b_bin' = "none" => b_bridge' = "none"
                   /\ step \in {"get_binary", "writing"} => b_bridge' = "none"
                   /\ step \in {"writing", "get_bridge", "writing_bridge"} => b_bin' # "none"
    PROVE  BinaryInv'
<1>1. /\ Binary!TypeOK' /\ (Alone => Alone')
      /\ b_pc'[s] = step /\ \A t \in Suites : t # s => b_pc'[t] = b_pc[t]
      /\ Alone => \A t \in Suites : t # s => ~IsActive(t)
  BY BinarySteps
<1>2. ASSUME AtOnce = 1
      PROVE  Alone' /\ PastBinary' /\ Download' /\ Package'
  <2>1. Alone' /\ \A t \in Suites : t # s => b_pc'[t] \in {"todo", "done", "raised"}
    BY <1>1, <1>2 DEF BinaryInv, IsActive
  <2>2. PastBinary'
    BY <1>1, <1>2, <2>1 DEF PastBinary
  <2>3. Download'
    BY <1>1, <1>2, <2>1 DEF Download
  <2>4. Package'
    BY <1>1, <1>2, <2>1 DEF Package
  <2> QED BY <2>1, <2>2, <2>3, <2>4
<1> QED BY <1>1, <1>2 DEF BinaryInv

LEMMA BinaryLook ==
    ASSUME BinaryInv, NEW s \in Suites, Binary!Look(s)
    PROVE  BinaryInv'
<1>1. BinaryTypes'
  BY DEF Binary!Look, Binary!Goto, Binary!Downloaded, Binary!Getting, BinaryInv,
      Binary!TypeOK, BinaryTypes
<1>2. (Binary!Active)' = Binary!Active \cup {s} /\ s \notin Binary!Active
  BY DEF Binary!Look, Binary!Goto, Binary!Downloaded, BinaryInv, Binary!TypeOK,
      Binary!Active
<1>3. Cardinality((Binary!Active)') = Cardinality(Binary!Active) + 1
  BY <1>2, ActiveSet, FS_AddElement
<1>4. Cardinality(Binary!Active) < AtOnce
  BY BinarySets DEF Binary!Look
<1>5. Binary!Cardinality(Binary!Active)' <= AtOnce
  BY <1>3, <1>4, ActiveSet, BinarySets
<1>6. Binary!TypeOK'
  BY <1>1, <1>5 DEF Binary!TypeOK, BinaryTypes
<1>7. ASSUME AtOnce = 1
      PROVE  Alone' /\ PastBinary' /\ Download' /\ Package'
  <2>1. \A t \in Suites : ~IsActive(t)
    BY <1>4, <1>7, NoneActive
  <2>2. /\ UNCHANGED <<b_source, b_download, b_bin, b_bridge, b_missed>>
        /\ b_pc'[s] = IF b_source \in {"https", "https_deb"} /\ b_download = "none"
                        THEN "get" ELSE Binary!Downloaded
        /\ \A t \in Suites : t # s => b_pc'[t] = b_pc[t]
    BY DEF Binary!Look, Binary!Goto, BinaryInv, Binary!TypeOK
  <2>3. \A t \in Suites : t # s => b_pc'[t] \in {"todo", "done", "raised"}
    BY <2>1, <2>2 DEF IsActive
  <2>4. Alone'
    BY <2>3 DEF Alone, IsActive
  <2>5. /\ b_source \in {"https", "docker", "deb", "https_deb"}
        /\ b_download \in Binary!Files /\ b_bin \in Binary!Files
        /\ b_bridge \in Binary!Files
    BY BinarySets DEF BinaryInv, Binary!TypeOK
  <2>6. b_source = "https" => b_download # "partial" \/ b_missed
    BY <1>7, <2>1 DEF BinaryInv, Download, IsActive
  <2>7. b_source \in {"deb", "https_deb"} =>
          /\ b_bridge # "none" => b_bin = "whole" \/ b_missed
          /\ b_bin = "none" => b_bridge = "none"
    BY <1>7 DEF BinaryInv, Package
  <2>8. PastBinary'
    BY <2>2, <2>3, <2>5, <2>6, <2>7
       DEF PastBinary, Binary!Used, Binary!Downloaded, Binary!Files
  <2>9. Download'
    BY <2>2, <2>3, <2>5, <2>6 DEF Download, Binary!Downloaded
  <2>10. Package'
    BY <2>2, <2>3, <2>5, <2>7 DEF Package, Binary!Downloaded
  <2> QED BY <2>4, <2>8, <2>9, <2>10
<1> QED BY <1>6, <1>7 DEF BinaryInv

LEMMA BinaryNext ==
    ASSUME BinaryInv, Binary!Next
    PROVE  BinaryInv'
<1>1. /\ b_source \in {"https", "docker", "deb", "https_deb"}
      /\ b_download \in Binary!Files /\ b_bin \in Binary!Files /\ b_bridge \in Binary!Files
      /\ b_missed \in BOOLEAN
  BY BinarySets DEF BinaryInv, Binary!TypeOK
<1>2. ASSUME NEW s \in Suites, Binary!Look(s)
      PROVE  BinaryInv'
  BY <1>2, BinaryLook
<1>3. ASSUME NEW s \in Suites, Binary!Get(s)
      PROVE  BinaryInv'
  <2> DEFINE step == "wget"
  <2>1. /\ BinaryTypes' /\ IsActive(s) /\ b_source' = b_source
        /\ b_pc' = [b_pc EXCEPT ![s] = step]
        /\ step \in Binary!Getting \cup {"clean", "ready", "done", "raised"}
    BY <1>1, <1>3 DEF Binary!Get, Binary!Goto, Binary!Getting, Binary!Files,
        BinaryInv, Binary!TypeOK, BinaryTypes, IsActive
  <2> QED BY <1>1, <1>3, <2>1, BinaryFacts
          DEF Binary!Get, Binary!Used, Binary!Getting, Binary!Files, BinaryInv,
              PastBinary, Download, Package
<1>4. ASSUME NEW s \in Suites, Binary!Got(s)
      PROVE  BinaryInv'
  <2> DEFINE step == Binary!Downloaded
  <2>1. /\ BinaryTypes' /\ IsActive(s) /\ b_source' = b_source
        /\ b_pc' = [b_pc EXCEPT ![s] = step]
        /\ step \in Binary!Getting \cup {"clean", "ready", "done", "raised"}
    BY <1>1, <1>4 DEF Binary!Got, Binary!Goto, Binary!Downloaded, Binary!Getting, Binary!Files,
        BinaryInv, Binary!TypeOK, BinaryTypes, IsActive
  <2> QED BY <1>1, <1>4, <2>1, BinaryFacts
          DEF Binary!Got, Binary!Downloaded, Binary!Used, Binary!Getting, Binary!Files, BinaryInv,
              PastBinary, Download, Package
<1>5. ASSUME NEW s \in Suites, Binary!GetBinary(s)
      PROVE  BinaryInv'
  <2> DEFINE step == "writing"
  <2>1. /\ BinaryTypes' /\ IsActive(s) /\ b_source' = b_source
        /\ b_pc' = [b_pc EXCEPT ![s] = step]
        /\ step \in Binary!Getting \cup {"clean", "ready", "done", "raised"}
    BY <1>1, <1>5 DEF Binary!GetBinary, Binary!Goto, Binary!Getting, Binary!Files,
        BinaryInv, Binary!TypeOK, BinaryTypes, IsActive
  <2> QED BY <1>1, <1>5, <2>1, BinaryFacts
          DEF Binary!GetBinary, Binary!Used, Binary!Getting, Binary!Files, BinaryInv,
              PastBinary, Download, Package
<1>6. ASSUME NEW s \in Suites, Binary!GotBinary(s)
      PROVE  BinaryInv'
  <2> DEFINE step == "get_bridge"
  <2>1. /\ BinaryTypes' /\ IsActive(s) /\ b_source' = b_source
        /\ b_pc' = [b_pc EXCEPT ![s] = step]
        /\ step \in Binary!Getting \cup {"clean", "ready", "done", "raised"}
    BY <1>1, <1>6 DEF Binary!GotBinary, Binary!Goto, Binary!Getting, Binary!Files,
        BinaryInv, Binary!TypeOK, BinaryTypes, IsActive
  <2> QED BY <1>1, <1>6, <2>1, BinaryFacts
          DEF Binary!GotBinary, Binary!Used, Binary!Getting, Binary!Files, BinaryInv,
              PastBinary, Download, Package
<1>7. ASSUME NEW s \in Suites, Binary!GetBridge(s)
      PROVE  BinaryInv'
  <2> DEFINE step == "writing_bridge"
  <2>1. /\ BinaryTypes' /\ IsActive(s) /\ b_source' = b_source
        /\ b_pc' = [b_pc EXCEPT ![s] = step]
        /\ step \in Binary!Getting \cup {"clean", "ready", "done", "raised"}
    BY <1>1, <1>7 DEF Binary!GetBridge, Binary!Goto, Binary!Getting, Binary!Files,
        BinaryInv, Binary!TypeOK, BinaryTypes, IsActive
  <2> QED BY <1>1, <1>7, <2>1, BinaryFacts
          DEF Binary!GetBridge, Binary!Used, Binary!Getting, Binary!Files, BinaryInv,
              PastBinary, Download, Package
<1>8. ASSUME NEW s \in Suites, Binary!GotBridge(s)
      PROVE  BinaryInv'
  <2> DEFINE step == "ready"
  <2>1. /\ BinaryTypes' /\ IsActive(s) /\ b_source' = b_source
        /\ b_pc' = [b_pc EXCEPT ![s] = step]
        /\ step \in Binary!Getting \cup {"clean", "ready", "done", "raised"}
    BY <1>1, <1>8 DEF Binary!GotBridge, Binary!Goto, Binary!Getting, Binary!Files,
        BinaryInv, Binary!TypeOK, BinaryTypes, IsActive
  <2> QED BY <1>1, <1>8, <2>1, BinaryFacts
          DEF Binary!GotBridge, Binary!Used, Binary!Getting, Binary!Files, BinaryInv,
              PastBinary, Download, Package
<1>9. ASSUME NEW s \in Suites, Binary!FailsUnnoticed(s)
      PROVE  BinaryInv'
  <2> DEFINE step == IF b_pc[s] = "writing" THEN "get_bridge" ELSE "ready"
  <2>1. /\ BinaryTypes' /\ IsActive(s) /\ b_source' = b_source
        /\ b_pc' = [b_pc EXCEPT ![s] = step]
        /\ step \in Binary!Getting \cup {"clean", "ready", "done", "raised"}
    BY <1>1, <1>9 DEF Binary!FailsUnnoticed, Binary!Goto, Binary!Getting, Binary!Files,
        BinaryInv, Binary!TypeOK, BinaryTypes, IsActive
  <2> QED BY <1>1, <1>9, <2>1, BinaryFacts
          DEF Binary!FailsUnnoticed, Binary!Used, Binary!Getting, Binary!Files, BinaryInv,
              PastBinary, Download, Package
<1>10. ASSUME NEW s \in Suites, Binary!Fails(s)
      PROVE  BinaryInv'
  <2> DEFINE step == IF b_pc[s] \in {"get", "wget"} THEN "clean" ELSE "raised"
  <2>1. /\ BinaryTypes' /\ IsActive(s) /\ b_source' = b_source
        /\ b_pc' = [b_pc EXCEPT ![s] = step]
        /\ step \in Binary!Getting \cup {"clean", "ready", "done", "raised"}
    BY <1>1, <1>10 DEF Binary!Fails, Binary!Goto, Binary!Getting, Binary!Files,
        BinaryInv, Binary!TypeOK, BinaryTypes, IsActive
  <2> QED BY <1>1, <1>10, <2>1, BinaryFacts
          DEF Binary!Fails, Binary!Used, Binary!Getting, Binary!Files, BinaryInv,
              PastBinary, Download, Package
<1>11. ASSUME NEW s \in Suites, Binary!Clean(s)
      PROVE  BinaryInv'
  <2> DEFINE step == "raised"
  <2>1. /\ BinaryTypes' /\ IsActive(s) /\ b_source' = b_source
        /\ b_pc' = [b_pc EXCEPT ![s] = step]
        /\ step \in Binary!Getting \cup {"clean", "ready", "done", "raised"}
    BY <1>1, <1>11 DEF Binary!Clean, Binary!Goto, Binary!Getting, Binary!Files,
        BinaryInv, Binary!TypeOK, BinaryTypes, IsActive
  <2> QED BY <1>1, <1>11, <2>1, BinaryFacts
          DEF Binary!Clean, Binary!Used, Binary!Getting, Binary!Files, BinaryInv,
              PastBinary, Download, Package
<1>12. ASSUME NEW s \in Suites, Binary!Killed(s)
      PROVE  BinaryInv'
  <2> DEFINE step == "raised"
  <2>1. /\ BinaryTypes' /\ IsActive(s) /\ b_source' = b_source
        /\ b_pc' = [b_pc EXCEPT ![s] = step]
        /\ step \in Binary!Getting \cup {"clean", "ready", "done", "raised"}
    BY <1>1, <1>12 DEF Binary!Killed, Binary!Goto, Binary!Getting, Binary!Files,
        BinaryInv, Binary!TypeOK, BinaryTypes, IsActive
  <2> QED BY <1>1, <1>12, <2>1, BinaryFacts
          DEF Binary!Killed, Binary!Used, Binary!Getting, Binary!Files, BinaryInv,
              PastBinary, Download, Package
<1>13. ASSUME NEW s \in Suites, Binary!Ends(s)
      PROVE  BinaryInv'
  <2> DEFINE step == "done"
  <2>1. /\ BinaryTypes' /\ IsActive(s) /\ b_source' = b_source
        /\ b_pc' = [b_pc EXCEPT ![s] = step]
        /\ step \in Binary!Getting \cup {"clean", "ready", "done", "raised"}
    BY <1>1, <1>13 DEF Binary!Ends, Binary!Goto, Binary!Getting, Binary!Files,
        BinaryInv, Binary!TypeOK, BinaryTypes, IsActive
  <2> QED BY <1>1, <1>13, <2>1, BinaryFacts
          DEF Binary!Ends, Binary!Used, Binary!Getting, Binary!Files, BinaryInv,
              PastBinary, Download, Package
<1>14. CASE UNCHANGED Binary!vars
  BY <1>14 DEF Binary!vars, BinaryInv, Binary!TypeOK, Binary!Active, Binary!Used, Alone,
      IsActive, PastBinary, Download, Package
<1> QED BY <1>2, <1>3, <1>4, <1>5, <1>6, <1>7, <1>8, <1>9, <1>10, <1>11, <1>12, <1>13, <1>14
    DEF Binary!Next, Binary!Terminated

LEMMA BinaryKeeps == AtOnce = 1 /\ BinaryInv => Binary!WholeUnlessMissed
BY DEF BinaryInv, PastBinary, Binary!WholeUnlessMissed

-----------------------------------------------------------------------------
(***************************************************************************)
(* The order of versions (VersionCheck).  Python's order of lists is a     *)
(* total order: two lists that differ do so at a first place, or one is a  *)
(* part of the other.                                                      *)
(***************************************************************************)
LEMMA LeastNatural ==
    ASSUME NEW T, T \subseteq Nat, T # {}
    PROVE  \E x \in T : \A y \in T : x <= y
<1> DEFINE R == OpToRel(<, Nat)
<1>1. \A x, y \in Nat : x < y => <<x, y>> \in R
  BY DEF OpToRel
<1>2. IsWellFoundedOn(R, Nat)
  BY NatLessThanWellFounded
<1> HIDE DEF R
<1>3. PICK x \in T : \A y \in T : ~(<<y, x>> \in R)
  BY <1>2, WFMin
<1>4. \A y \in T : ~(y < x)
  BY <1>1, <1>3
<1> QED BY <1>4

LEMMA LessIrreflexive ==
    ASSUME NEW a \in Seq(Nat)
    PROVE  ~Version!Less(a, a)
BY DEF Version!Less

LEMMA LessTransitive ==
    ASSUME NEW a \in Seq(Nat), NEW b \in Seq(Nat), NEW c \in Seq(Nat),
           Version!Less(a, b), Version!Less(b, c)
    PROVE  Version!Less(a, c)
<1>1. PICK i \in 1..Len(b) :
        /\ \A j \in 1..(i - 1) : j <= Len(a) /\ a[j] = b[j]
        /\ i <= Len(a) => a[i] < b[i]
  BY DEF Version!Less
<1>2. PICK k \in 1..Len(c) :
        /\ \A j \in 1..(k - 1) : j <= Len(b) /\ b[j] = c[j]
        /\ k <= Len(b) => b[k] < c[k]
  BY DEF Version!Less
<1>3. Len(a) \in Nat /\ Len(b) \in Nat /\ Len(c) \in Nat
  OBVIOUS
<1>4. /\ \A j \in 1..Len(a) : a[j] \in Nat
      /\ \A j \in 1..Len(b) : b[j] \in Nat
      /\ \A j \in 1..Len(c) : c[j] \in Nat
  OBVIOUS
<1>5. CASE i < k
  <2>1. \A j \in 1..(i - 1) : j <= Len(a) /\ a[j] = c[j]
    BY <1>1, <1>2, <1>3, <1>5
  <2>2. i <= Len(a) => a[i] < c[i]
    BY <1>1, <1>2, <1>3, <1>5
  <2>3. i \in 1..Len(c)
    BY <1>3, <1>5
  <2> QED BY <2>1, <2>2, <2>3 DEF Version!Less
<1>6. CASE i = k
  <2>1. \A j \in 1..(i - 1) : j <= Len(a) /\ a[j] = c[j]
    BY <1>1, <1>2, <1>3, <1>6
  <2>2. i <= Len(a) => a[i] < c[i]
    BY <1>1, <1>2, <1>3, <1>4, <1>6
  <2> QED BY <1>6, <2>1, <2>2 DEF Version!Less
<1>7. CASE k < i
  <2>1. \A j \in 1..(k - 1) : j <= Len(a) /\ a[j] = c[j]
    BY <1>1, <1>2, <1>3, <1>7
  <2>2. a[k] = b[k] /\ k <= Len(b)
    BY <1>1, <1>3, <1>7
  <2>3. a[k] < c[k]
    BY <1>2, <2>2
  <2> QED BY <2>1, <2>3 DEF Version!Less
<1> QED BY <1>3, <1>5, <1>6, <1>7

LEMMA LessTotal ==
    ASSUME NEW a \in Seq(Nat), NEW b \in Seq(Nat), a # b
    PROVE  Version!Less(a, b) \/ Version!Less(b, a)
<1> DEFINE n == IF Len(a) < Len(b) THEN Len(a) ELSE Len(b)
           T == {i \in 1..n : a[i] # b[i]}
<1>1. /\ Len(a) \in Nat /\ Len(b) \in Nat /\ n \in Nat
      /\ \A j \in 1..n : a[j] \in Nat /\ b[j] \in Nat
  OBVIOUS
<1>2. CASE T = {}
  <2>1. \A j \in 1..n : a[j] = b[j]
    BY <1>2
  <2>2. Len(a) # Len(b)
    <3> SUFFICES ASSUME Len(a) = Len(b) PROVE a = b
      OBVIOUS
    <3>1. n = Len(a) /\ n = Len(b)
      OBVIOUS
    <3>2. DOMAIN a = 1..n /\ DOMAIN b = 1..n
      BY <3>1
    <3>3. a = [j \in 1..n |-> a[j]] /\ b = [j \in 1..n |-> b[j]]
      BY <3>2
    <3> HIDE DEF n, T
    <3>4. [j \in 1..n |-> a[j]] = [j \in 1..n |-> b[j]]
      BY <2>1
    <3> QED BY <3>3, <3>4
  <2>3. CASE Len(a) < Len(b)
    <3>1. n + 1 \in 1..Len(b) /\ n = Len(a)
      BY <1>1, <2>3
    <3>2. \A j \in 1..((n + 1) - 1) : j <= Len(a) /\ a[j] = b[j]
      BY <1>1, <2>1, <2>3
    <3>3. ~(n + 1 <= Len(a))
      BY <1>1, <2>3
    <3> HIDE DEF n
    <3> QED BY <3>1, <3>2, <3>3 DEF Version!Less
  <2>4. CASE Len(b) < Len(a)
    <3>1. n + 1 \in 1..Len(a) /\ n = Len(b)
      BY <1>1, <2>4
    <3>2. \A j \in 1..((n + 1) - 1) : j <= Len(b) /\ b[j] = a[j]
      BY <1>1, <2>1, <2>4
    <3>3. ~(n + 1 <= Len(b))
      BY <1>1, <2>4
    <3> HIDE DEF n
    <3> QED BY <3>1, <3>2, <3>3 DEF Version!Less
  <2> QED BY <1>1, <2>2, <2>3, <2>4
<1>3. CASE T # {}
  <2>1. PICK i \in T : \A j \in T : i <= j
    <3>1. T \subseteq Nat
      BY <1>1
    <3> HIDE DEF T
    <3> QED BY <1>3, <3>1, LeastNatural
  <2>2. i \in 1..n /\ a[i] # b[i]
    BY <2>1
  <2>3. \A j \in 1..(i - 1) : j \in 1..n /\ j \notin T
    BY <1>1, <2>1, <2>2
  <2>4. \A j \in 1..(i - 1) : j <= Len(a) /\ j <= Len(b) /\ a[j] = b[j]
    BY <1>1, <2>3
  <2>5. i \in 1..Len(a) /\ i \in 1..Len(b) /\ (a[i] < b[i] \/ b[i] < a[i])
    BY <1>1, <2>2
  <2> HIDE DEF n, T
  <2> QED BY <2>4, <2>5 DEF Version!Less
<1> QED BY <1>2, <1>3

-----------------------------------------------------------------------------
(***************************************************************************)
(* What check_clickhouse_version compares: as many parts as the server's   *)
(* version has numbers.                                                    *)
(***************************************************************************)
LEMMA VersionBounds ==
    /\ Numbers \subseteq Nat /\ MaxParts \in Nat \ {0} /\ MaxBinaries \in Nat \ {0}
    /\ Word \notin Nat /\ None \notin Version!Versions
BY VersionAssumption DEF Version!VersionCheckAssumption

LEMMA NumericIsSeq ==
    ASSUME NEW v \in Version!Numeric
    PROVE  /\ v \in Seq(Nat) /\ Len(v) \in Nat /\ Len(v) >= 1
           /\ \A i \in 1..Len(v) : v[i] \in Nat /\ v[i] # Word
<1>1. PICK n \in 1..MaxParts : v \in [1..n -> Numbers]
  BY DEF Version!Numeric
<1>2. v \in [1..n -> Nat] /\ n \in Nat
  <2>1. n \in Nat
    BY VersionBounds
  <2>2. \A x \in Numbers : x \in Nat
    BY VersionBounds
  <2> QED BY <1>1, <2>1, <2>2
<1>3. v \in Seq(Nat) /\ Len(v) = n
  BY <1>2
<1> QED BY <1>2, <1>3, VersionBounds

(* The numbers of a version that begins with n of them *)
LEMMA PartsAre ==
    ASSUME NEW v, NEW n \in 0..Len(v), Len(v) \in Nat,
           \A i \in 1..n : v[i] # Word, n < Len(v) => v[n + 1] = Word
    PROVE  Version!NumericParts(v) = n
<1> DEFINE P(m) == (\A i \in 1..m : v[i] # Word) /\ (m < Len(v) => v[m + 1] = Word)
<1>1. n \in 0..Len(v) /\ P(n)
  OBVIOUS
<1>2. ASSUME NEW m \in 0..Len(v), P(m)
      PROVE  m = n
  BY <1>1, <1>2
<1> HIDE DEF P
<1>3. Version!NumericParts(v) = CHOOSE m \in 0..Len(v) : P(m)
  BY DEF Version!NumericParts, P
<1> QED BY <1>1, <1>2, <1>3

LEMMA CutIs ==
    ASSUME NEW S, NEW v \in Seq(S), NEW n \in 0..Len(v)
    PROVE  /\ Version!Cut(v, n) \in Seq(S) /\ Len(Version!Cut(v, n)) = n
           /\ \A i \in 1..n : Version!Cut(v, n)[i] = v[i]
           /\ Version!Cut(v, n) = SubSeq(v, 1, n)
BY DEF Version!Cut

LEMMA CutAll ==
    ASSUME NEW S, NEW v \in Seq(S), NEW n \in Nat, n >= Len(v)
    PROVE  Version!Cut(v, n) = v
<1>1. Version!Cut(v, n) = SubSeq(v, 1, Len(v))
  BY DEF Version!Cut
<1> QED BY <1>1

(* The three forms of a version *)
LEMMA VersionForms ==
    ASSUME NEW v \in Version!Versions
    PROVE  \/ v \in Version!Numeric /\ Version!NumericParts(v) = Len(v)
           \/ \E u \in Version!Numeric :
                 v = Append(u, Word) /\ Version!NumericParts(v) = Len(u)
           \/ v = <<Word>> /\ Version!NumericParts(v) = 0
<1>1. CASE v \in Version!Numeric
  <2>1. Len(v) \in Nat /\ \A i \in 1..Len(v) : v[i] # Word
    BY <1>1, NumericIsSeq
  <2>2. Len(v) \in 0..Len(v) /\ ~(Len(v) < Len(v))
    BY <2>1
  <2> QED BY <1>1, <2>1, <2>2, PartsAre
<1>2. ASSUME NEW u \in Version!Numeric, v = Append(u, Word)
      PROVE  Version!NumericParts(v) = Len(u)
  <2>1. u \in Seq(Nat) /\ Len(u) \in Nat /\ \A i \in 1..Len(u) : u[i] # Word
    BY NumericIsSeq
  <2>2. /\ Len(v) = Len(u) + 1 /\ v[Len(u) + 1] = Word
        /\ \A i \in 1..Len(u) : v[i] = u[i]
    BY <1>2, <2>1
  <2>3. Len(u) \in 0..Len(v) /\ Len(v) \in Nat
    BY <2>1, <2>2
  <2> QED BY <2>1, <2>2, <2>3, PartsAre
<1>3. CASE v = <<Word>>
  <2>1. Len(v) = 1 /\ v[1] = Word
    BY <1>3
  <2>2. 0 \in 0..Len(v) /\ Len(v) \in Nat /\ 0 + 1 = 1 /\ \A i \in 1..0 : FALSE
    BY <2>1
  <2> QED BY <1>3, <2>1, <2>2, PartsAre
<1> QED BY <1>1, <1>2, <1>3 DEF Version!Versions, Version!ServerVersions

LEMMA VersionCut ==
    ASSUME NEW v \in Version!Versions
    PROVE  /\ Version!NumericParts(v) \in Nat
           /\ Version!Cut(v, Version!NumericParts(v)) \in Seq(Nat)
           /\ Len(Version!Cut(v, Version!NumericParts(v))) = Version!NumericParts(v)
           /\ v \in Seq(Nat \cup {Word}) /\ Version!NumericParts(v) <= Len(v)
           /\ v \in Version!ServerVersions => Version!NumericParts(v) > 0
<1> DEFINE n == Version!NumericParts(v)
           c == Version!Cut(v, n)
<1>1. CASE v \in Version!Numeric /\ n = Len(v)
  <2>1. v \in Seq(Nat) /\ Len(v) \in Nat /\ Len(v) >= 1
    BY <1>1, NumericIsSeq
  <2>2. c = v
    BY <1>1, <2>1, CutAll
  <2>3. v \in Seq(Nat \cup {Word})
    BY <2>1
  <2> QED BY <1>1, <2>1, <2>2, <2>3
<1>2. ASSUME NEW u \in Version!Numeric, v = Append(u, Word), n = Len(u)
      PROVE  /\ n \in Nat /\ c \in Seq(Nat) /\ Len(c) = n
             /\ v \in Seq(Nat \cup {Word}) /\ n <= Len(v) /\ n > 0
  <2>1. u \in Seq(Nat) /\ Len(u) \in Nat /\ Len(u) >= 1
    BY NumericIsSeq
  <2>2. /\ v \in Seq(Nat \cup {Word}) /\ Len(v) = Len(u) + 1
        /\ \A i \in 1..Len(u) : v[i] = u[i]
    BY <1>2, <2>1
  <2>3. c \in Seq(Nat \cup {Word}) /\ Len(c) = n /\ \A i \in 1..n : c[i] = v[i]
    <3>1. n \in 0..Len(v)
      BY <1>2, <2>1, <2>2
    <3> HIDE DEF n
    <3> QED BY <2>2, <3>1, CutIs
  <2>4. \A i \in 1..n : c[i] \in Nat
    BY <1>2, <2>1, <2>2, <2>3
  <2>5. c \in Seq(Nat)
    BY <1>2, <2>1, <2>3, <2>4
  <2> QED BY <1>2, <2>1, <2>2, <2>3, <2>5
<1>3. CASE v = <<Word>> /\ n = 0
  <2>1. v \in Seq(Nat \cup {Word}) /\ Len(v) = 1 /\ v[1] = Word
    BY <1>3
  <2>2. c \in Seq(Nat) /\ Len(c) = 0
    <3>1. c = SubSeq(v, 1, 0)
      BY <1>3, <2>1 DEF Version!Cut
    <3>2. c = << >>
      BY <2>1, <3>1
    <3> QED BY <3>2
  <2>3. v \notin Version!ServerVersions
    <3>1. v \notin Version!Numeric
      BY <2>1, NumericIsSeq
    <3>2. ASSUME NEW u \in Version!Numeric, v = Append(u, Word)
          PROVE  FALSE
      BY <2>1, <3>2, NumericIsSeq
    <3> QED BY <3>1, <3>2 DEF Version!ServerVersions
  <2> QED BY <1>3, <2>1, <2>2, <2>3
<1> HIDE DEF c, n
<1>4. \/ v \in Version!Numeric /\ n = Len(v)
      \/ \E u \in Version!Numeric : v = Append(u, Word) /\ n = Len(u)
      \/ v = <<Word>> /\ n = 0
  BY VersionForms DEF n
<1> QED BY <1>1, <1>2, <1>3, <1>4 DEF c, n

(* When check says yes; ValueError and None are not an answer *)
LEMMA CheckSays ==
    ASSUME NEW r, NEW x, NEW v \in Version!Versions
    PROVE  Version!Check(r, x, v) = "True" <=>
             /\ Version!NumericParts(v) # 0
             /\ Word \notin Version!Range(Version!Cut(x, Version!NumericParts(v)))
             /\ Version!Compare(r, Version!Cut(v, Version!NumericParts(v)),
                                   Version!Cut(x, Version!NumericParts(v)))
<1>1. v # None
  BY VersionBounds
<1> QED BY <1>1 DEF Version!Check

(* A version asked for is numbers only *)
LEMMA AskedCut ==
    ASSUME NEW x \in Version!Numeric, NEW n \in Nat
    PROVE  /\ Version!Cut(x, n) \in Seq(Nat)
           /\ Word \notin Version!Range(Version!Cut(x, n))
<1>1. x \in Seq(Nat) /\ Len(x) \in Nat
  BY NumericIsSeq
<1>2. Version!Cut(x, n) \in Seq(Nat)
  <2>1. CASE n \in 0..Len(x)
    BY <1>1, <2>1, CutIs
  <2>2. CASE n >= Len(x)
    BY <1>1, <2>2, CutAll
  <2> QED BY <1>1, <2>1, <2>2
<1> QED BY <1>2, VersionBounds DEF Version!Range

(***************************************************************************)
(* The version of the tests (VersionCheck): from the creation of the       *)
(* cluster on it is that of the option, the tag or the server, as far as   *)
(* one of them has been asked.                                             *)
(***************************************************************************)
Expected ==
    CASE v_option # None -> v_option
      [] v_option = None /\ Version!TagVersion(v_binary.tag) # None ->
           Version!TagVersion(v_binary.tag)
      [] OTHER -> v_binary.server

VersionInv ==
    /\ v_option \in Version!Versions \cup {None}
    /\ v_pc \in {"cluster", "up", "test", "tests"} => v_binary \in Version!Binaries
    /\ v_pc = "cluster" => v_version \in {v_option, Expected}
    /\ v_pc = "up" =>
          \/ v_version = Expected
          \/ /\ v_version = None /\ v_option = None
             /\ Version!TagVersion(v_binary.tag) = None
    /\ v_pc \in {"test", "tests"} => v_version = Expected
    /\ Version!TestedVersionIsServers

LEMMA ExpectedIsVersion ==
    ASSUME v_option \in Version!Versions \cup {None}, v_binary \in Version!Binaries
    PROVE  Expected \in Version!Versions /\ Expected # None
<1>1. v_binary.tag \in Version!Versions /\ v_binary.server \in Version!Versions
  BY DEF Version!Binaries, Version!Versions
<1>2. Version!TagVersion(v_binary.tag) \in Version!Versions \cup {None}
  BY <1>1 DEF Version!TagVersion
<1> QED BY <1>1, <1>2, VersionBounds DEF Expected

LEMMA VersionFirst ==
    ASSUME Version!Init
    PROVE  Version!TypeOK /\ VersionInv
<1>1. v_left \in 1..MaxBinaries => v_left \in 0..MaxBinaries
  BY VersionAssumption DEF Version!VersionCheckAssumption
<1> QED BY <1>1 DEF Version!Init, Version!TypeOK, VersionInv, Version!TestedVersionIsServers

LEMMA VersionTypes ==
    ASSUME Version!TypeOK, Version!Next
    PROVE  Version!TypeOK'
<1>1. v_left > 0 => v_left - 1 \in 0..MaxBinaries
  BY VersionAssumption DEF Version!VersionCheckAssumption, Version!TypeOK
<1>2. v_binary \in Version!Binaries =>
        /\ v_binary.server \in Version!Versions
        /\ Version!TagVersion(v_binary.tag) \in Version!Versions \cup {None}
  BY DEF Version!Binaries, Version!Versions, Version!TagVersion
<1>3. CASE Version!Binary
  BY <1>1, <1>3 DEF Version!Binary, Version!TypeOK
<1>4. CASE Version!CreateCluster
  BY <1>2, <1>4 DEF Version!CreateCluster, Version!TypeOK
<1>5. CASE Version!Healthy
  BY <1>2, <1>5 DEF Version!Healthy, Version!TypeOK
<1>6. CASE Version!Ask \/ Version!TestsEnd
  BY <1>6 DEF Version!Ask, Version!TestsEnd, Version!TypeOK
<1>7. CASE Version!Over
  BY <1>7 DEF Version!Over, Version!vars, Version!TypeOK
<1> QED BY <1>3, <1>4, <1>5, <1>6, <1>7 DEF Version!Next

(* The server's own answer begins with its numbers *)
LEMMA OwnPrefix ==
    ASSUME NEW v \in Version!ServerVersions
    PROVE  /\ Version!NumericParts(v) > 0
           /\ Version!IsPrefix(Version!Cut(v, Version!NumericParts(v)), v)
<1> DEFINE n == Version!NumericParts(v)
           c == Version!Cut(v, n)
<1>1. v \in Version!Versions
  BY DEF Version!Versions
<1>2. n \in Nat /\ n <= Len(v) /\ n > 0 /\ v \in Seq(Nat \cup {Word}) /\ Len(c) = n
  BY <1>1, VersionCut
<1>3. n \in 0..Len(v) /\ Len(v) \in Nat
  BY <1>2
<1> HIDE DEF n
<1>4. c = SubSeq(v, 1, n) /\ c \in Seq(Nat \cup {Word})
  BY <1>2, <1>3, CutIs
<1>5. SubSeq(c, 1, Len(c)) = c
  BY <1>4
<1>6. Version!IsPrefix(c, v)
  BY <1>2, <1>4, <1>5 DEF Version!IsPrefix
<1> QED BY <1>2, <1>6 DEF n

(* What agrees with the server's answer as far as it goes begins it *)
LEMMA AgreedPrefix ==
    ASSUME NEW v \in Version!Versions, NEW answer \in Version!ServerVersions,
           Version!Check("=", answer, v) = "True"
    PROVE  /\ Version!NumericParts(v) > 0
           /\ Version!IsPrefix(Version!Cut(v, Version!NumericParts(v)), answer)
<1> DEFINE n == Version!NumericParts(v)
           c == Version!Cut(v, n)
<1>1. n \in Nat /\ Len(c) = n /\ c \in Seq(Nat)
  BY VersionCut
<1>2. n # 0 /\ c = Version!Cut(answer, n)
  <2>1. n # 0 /\ Version!Compare("=", c, Version!Cut(answer, n))
    BY CheckSays
  <2> QED BY <2>1 DEF Version!Compare
<1>3. answer \in Seq(Nat \cup {Word}) /\ Len(answer) \in Nat
  BY VersionCut DEF Version!Versions
<1> HIDE DEF n, c
<1>4. c = SubSeq(answer, 1, n) /\ n <= Len(answer)
  <2>1. CASE n \in 0..Len(answer)
    <3>1. Version!Cut(answer, n) = SubSeq(answer, 1, n)
      BY <1>3, <2>1, CutIs
    <3> QED BY <1>2, <1>3, <2>1, <3>1
  <2>2. CASE n > Len(answer)
    <3>1. c = answer
      BY <1>1, <1>2, <1>3, <2>2, CutAll
    <3> QED BY <1>1, <1>3, <2>2, <3>1
  <2> QED BY <1>1, <1>3, <2>1, <2>2
<1>5. SubSeq(c, 1, Len(c)) = c
  BY <1>1
<1>6. Version!IsPrefix(c, answer)
  BY <1>1, <1>4, <1>5 DEF Version!IsPrefix
<1> QED BY <1>1, <1>2, <1>6 DEF n, c

LEMMA VersionNext ==
    ASSUME VersionInv, Version!Next
    PROVE  VersionInv'
<1>1. CASE Version!Binary
  BY <1>1 DEF Version!Binary, VersionInv, Version!TestedVersionIsServers
<1>2. CASE Version!CreateCluster
  <2>1. v_option \in Version!Versions \cup {None} /\ v_binary \in Version!Binaries
    BY <1>2 DEF Version!CreateCluster, VersionInv
  <2>2. Expected # None /\ Expected' = Expected
    BY <1>2, <2>1, ExpectedIsVersion DEF Version!CreateCluster, Expected
  <2>3. v_option # None => Expected = v_option
    BY DEF Expected
  <2>4. v_option = None /\ Version!TagVersion(v_binary.tag) # None
          => Expected = Version!TagVersion(v_binary.tag)
    BY DEF Expected
  <2> QED BY <1>2, <2>2, <2>3, <2>4
          DEF Version!CreateCluster, VersionInv, Version!TestedVersionIsServers
<1>3. CASE Version!Healthy
  <2>1. /\ v_option \in Version!Versions \cup {None} /\ v_binary \in Version!Binaries
        /\ v_binary.server \in Version!ServerVersions
        /\ UNCHANGED <<v_option, v_binary>>
    BY <1>3 DEF Version!Healthy, VersionInv, Version!Binaries
  <2>2. Expected # None /\ Expected' = Expected /\ Expected \in Version!Versions
    BY <2>1, ExpectedIsVersion DEF Expected
  <2>3. CASE v_version = None /\ v_version' = v_binary.server /\ v_pc' = "test"
    <3>1. Expected = v_binary.server
      BY <1>3, <2>2, <2>3 DEF Version!Healthy, VersionInv, Expected
    <3>2. Version!TestedVersionIsServers'
      BY <2>1, <2>3, OwnPrefix DEF Version!TestedVersionIsServers
    <3> QED BY <2>1, <2>2, <2>3, <3>1, <3>2 DEF VersionInv
  <2>4. CASE /\ v_version # None /\ v_version' = v_version
             /\ v_pc' = IF Version!Check("=", v_binary.server, v_version) = "True"
                          THEN "test" ELSE "over"
    <3>1. v_version = Expected
      BY <1>3, <2>4 DEF Version!Healthy, VersionInv
    <3>2. Version!TestedVersionIsServers'
      BY <2>1, <2>2, <2>4, <3>1, AgreedPrefix DEF Version!TestedVersionIsServers
    <3> QED BY <2>1, <2>2, <2>4, <3>1, <3>2 DEF VersionInv
  <2> QED BY <1>3, <2>3, <2>4 DEF Version!Healthy
<1>4. CASE Version!Ask
  BY <1>4 DEF Version!Ask, VersionInv, Version!TestedVersionIsServers, Expected
<1>5. CASE Version!TestsEnd
  BY <1>5 DEF Version!TestsEnd, VersionInv, Version!TestedVersionIsServers, Expected
<1>6. CASE Version!Over
  BY <1>6 DEF Version!Over, Version!vars, VersionInv, Version!TestedVersionIsServers,
      Expected
<1> QED BY <1>1, <1>2, <1>3, <1>4, <1>5, <1>6 DEF Version!Next

LEMMA VersionKeeps == VersionInv => Version!VersionOfBinary
BY DEF VersionInv, Version!VersionOfBinary, Expected

(* The version a test compares with has a number *)
LEMMA TestedVersion ==
    ASSUME VersionInv, v_pc = "test"
    PROVE  v_version \in Version!Versions /\ Version!NumericParts(v_version) > 0
<1>1. v_version \in Version!Versions
  BY ExpectedIsVersion DEF VersionInv
<1> QED BY <1>1 DEF VersionInv, Version!TestedVersionIsServers

LEMMA VersionTrichotomy == VersionInv => Version!Trichotomy
<1> SUFFICES ASSUME VersionInv, v_pc = "test", NEW asked \in Version!Numeric
             PROVE  LET Holds(r) == Version!Check(r, asked, v_version) = "True" IN
                    /\ Holds(">=") = ~Holds("<") /\ Holds("<=") = ~Holds(">")
                    /\ Holds("<") => ~Holds(">") /\ ~Holds("==")
                    /\ Holds("==") = (Holds(">=") /\ Holds("<="))
  BY DEF Version!Trichotomy
<1> DEFINE n == Version!NumericParts(v_version)
           a == Version!Cut(v_version, n)
           b == Version!Cut(asked, n)
           Holds(r) == Version!Check(r, asked, v_version) = "True"
<1>1. v_version \in Version!Versions /\ n \in Nat /\ n > 0
  BY TestedVersion, VersionCut
<1>2. a \in Seq(Nat)
  BY <1>1, VersionCut
<1>3. b \in Seq(Nat) /\ Word \notin Version!Range(b)
  BY <1>1, AskedCut
<1>4. \A r : Holds(r) <=> Version!Compare(r, a, b)
  BY <1>1, <1>3, CheckSays
<1> HIDE DEF a, b, Holds
<1>5. /\ Holds(">=") <=> ~Version!Less(a, b)
      /\ Holds("<=") <=> ~Version!Less(b, a)
      /\ Holds(">") <=> Version!Less(b, a)
      /\ Holds("<") <=> Version!Less(a, b)
      /\ Holds("==") <=> a = b
  BY <1>4 DEF Version!Compare
<1>6. Version!Less(a, b) => ~Version!Less(b, a) /\ a # b
  BY <1>2, <1>3, LessIrreflexive, LessTransitive
<1>7. ~Version!Less(a, b) /\ ~Version!Less(b, a) => a = b
  BY <1>2, <1>3, LessTotal
<1>8. a = b => ~Version!Less(a, b) /\ ~Version!Less(b, a)
  BY <1>2, LessIrreflexive
<1> QED BY <1>5, <1>6, <1>7, <1>8 DEF Holds

LEMMA VersionMonotone == VersionInv => Version!Monotone
<1> SUFFICES ASSUME VersionInv, v_pc = "test",
                    NEW asked \in Version!Numeric, NEW later \in Version!Numeric,
                    Version!NumericParts(v_version) >= Len(asked),
                    Len(later) >= Len(asked),
                    Version!Less(Version!Cut(v_version, Version!NumericParts(v_version)),
                                 later),
                    Version!Check(">=", asked, v_version) = "True"
             PROVE  Version!Check(">=", asked, later) = "True"
  BY DEF Version!Monotone
<1> DEFINE n == Version!NumericParts(v_version)
           a == Version!Cut(v_version, n)
<1>1. v_version \in Version!Versions /\ n \in Nat /\ a \in Seq(Nat)
  BY TestedVersion, VersionCut
<1>2. /\ asked \in Seq(Nat) /\ later \in Seq(Nat)
      /\ Len(asked) \in Nat /\ Len(later) \in Nat /\ Len(later) >= 1
  BY NumericIsSeq
<1>3. Version!Cut(asked, n) = asked
  BY <1>1, <1>2, CutAll
<1>4. ~Version!Less(a, asked)
  <2>1. Version!Compare(">=", a, asked)
    BY <1>1, <1>3, CheckSays
  <2> QED BY <2>1 DEF Version!Compare
<1>5. later \in Version!Versions /\ Version!NumericParts(later) = Len(later)
  <2>1. Len(later) \in 0..Len(later) /\ ~(Len(later) < Len(later))
    BY <1>2
  <2>2. \A i \in 1..Len(later) : later[i] # Word
    BY NumericIsSeq
  <2> QED BY <1>2, <2>1, <2>2, PartsAre DEF Version!Versions, Version!ServerVersions
<1>6. Version!Cut(later, Len(later)) = later /\ Version!Cut(asked, Len(later)) = asked
  BY <1>2, CutAll
<1>7. ~Version!Less(later, asked)
  BY <1>1, <1>2, <1>4, LessTransitive
<1>8. Word \notin Version!Range(asked)
  BY <1>2, <1>6, AskedCut
<1>9. Version!Compare(">=", later, asked)
  BY <1>7 DEF Version!Compare
<1>10. Len(later) # 0
  BY <1>2
<1> QED BY <1>5, <1>6, <1>8, <1>9, <1>10, CheckSays

-----------------------------------------------------------------------------
(***************************************************************************)
(* The parts together.  A behaviour stays with its part: the invariants of *)
(* the others have nothing to say.                                         *)
(***************************************************************************)
AllInv ==
    /\ IInv
    /\ part = "binary" => BinaryInv
    /\ part = "version" => Version!TypeOK /\ VersionInv
    /\ part = "pool" => PoolInv
    /\ part = "trigger" => TriggerInv
    /\ part = "retry" => RetryInv

LEMMA AllFirst == AllInit => AllInv
BY InvInit, BinaryFirst, VersionFirst, PoolFirst, TriggerFirst, RetryFirst
   DEF AllInit, BinaryInit, VersionInit, PoolInit, TriggerInit, RetryInit, AllInv

LEMMA AllStep == AllInv /\ [AllNext]_allVars => AllInv'
<1> SUFFICES ASSUME AllInv, [AllNext]_allVars PROVE AllInv'
  OBVIOUS
<1>1. CASE ClusterStep
  BY <1>1, InvNext DEF ClusterStep, AllInv
<1>2. CASE BinaryStep
  BY <1>2, InvNext, BinaryNext DEF BinaryStep, AllInv
<1>3. CASE VersionStep
  BY <1>3, InvNext, VersionTypes, VersionNext DEF VersionStep, AllInv
<1>4. CASE PoolStep
  BY <1>4, InvNext, PoolNext DEF PoolStep, AllInv
<1>5. CASE TriggerStep
  BY <1>5, InvNext, TriggerNext DEF TriggerStep, AllInv
<1>6. CASE RetryStep
  BY <1>6, InvNext, RetryNext DEF RetryStep, AllInv
<1>7. CASE UNCHANGED allVars
  <2>1. IInv' /\ part' = part
    BY <1>7, InvNext DEF allVars, AllInv
  <2>2. BinaryInv => BinaryInv'
    BY <1>7 DEF allVars, binaryVars, BinaryInv, Binary!TypeOK, Binary!Active, Binary!Used,
        Alone, IsActive, PastBinary, Download, Package
  <2>3. (Version!TypeOK => Version!TypeOK') /\ (VersionInv => VersionInv')
    BY <1>7 DEF allVars, versionVars, VersionInv, Version!TypeOK, Version!TestedVersionIsServers,
        Expected
  <2>4. PoolInv => PoolInv'
    BY <1>7 DEF allVars, poolVars, PoolInv, Pool!TypeOK, OnItsWay, Pool!LoadingEnds
  <2>5. TriggerInv => TriggerInv'
    BY <1>7 DEF allVars, triggerVars, TriggerInv, Trigger!TypeOK, KnownIsFinal,
        HasTrigger, Trigger!ZeroMeans, Trigger!OwnTrigger
  <2>6. RetryInv => RetryInv'
    BY <1>7 DEF allVars, retryVars, RetryInv, Retry!TypeOK, Retry!ExitCodeOfLastTry
  <2> QED BY <2>1, <2>2, <2>3, <2>4, <2>5, <2>6 DEF AllInv
<1> QED BY <1>1, <1>2, <1>3, <1>4, <1>5, <1>6, <1>7 DEF AllNext

(***************************************************************************)
(* The invariants of the parts hold in every behaviour of AllSpec.         *)
(***************************************************************************)
THEOREM AllInvariant == AllSpec => []AllInv
BY AllFirst, AllStep, PTL DEF AllSpec

(***************************************************************************)
(* The variables of all six parts keep their types, no more suites than    *)
(* AtOnce are between their first step and their end, and no script makes  *)
(* more tries than it was asked for.                                       *)
(***************************************************************************)
THEOREM TypesCorrect == AllSpec => []TypesOK
<1>1. AllInv => TypesOK
  BY DEF AllInv, IInv, BinaryInv, PoolInv, TriggerInv, RetryInv, TypesOK
<1> QED BY <1>1, AllInvariant, PTL

(***************************************************************************)
(* However many suites there are and wherever each of them is interrupted  *)
(* in its download or unpacking, a suite that comes after them runs on a   *)
(* whole binary, unless a failure of docker or tar was not noticed or the  *)
(* program was killed while wget wrote the binary, provided that they come *)
(* one after another.                                                      *)
(***************************************************************************)
THEOREM WholeBinary == ASSUME AtOnce = 1 PROVE AllSpec => []WholeUnlessMissed
<1>1. AllInv => WholeUnlessMissed
  BY BinaryKeeps DEF AllInv, WholeUnlessMissed
<1> QED BY <1>1, AllInvariant, PTL

(***************************************************************************)
(* For every list of binaries, the tests of a binary know the version of   *)
(* the option, of its own tag or of its own server, never that of the      *)
(* binary before.                                                          *)
(***************************************************************************)
THEOREM OwnVersion == AllSpec => []VersionOfBinary
<1>1. AllInv => VersionOfBinary
  BY VersionKeeps DEF AllInv, VersionOfBinary
<1> QED BY <1>1, AllInvariant, PTL

(***************************************************************************)
(* Whoever gave the version, the tests run on a server whose version       *)
(* begins with it: wait_clickhouse_healthy lets no other pass.             *)
(***************************************************************************)
THEOREM ServersVersion == AllSpec => []TestedVersionIsServers
<1>1. AllInv => TestedVersionIsServers
  BY DEF AllInv, VersionInv, TestedVersionIsServers
<1> QED BY <1>1, AllInvariant, PTL

(***************************************************************************)
(* For versions of any length, exactly one of <, = and > holds in          *)
(* check_clickhouse_version, and >= and <= are their negations.            *)
(***************************************************************************)
THEOREM TotalOrder == AllSpec => []Trichotomy
<1>1. AllInv => Trichotomy
  BY VersionTrichotomy DEF AllInv, Trichotomy
<1> QED BY <1>1, AllInvariant, PTL

(***************************************************************************)
(* For versions of any length, what check_clickhouse_version says to hold  *)
(* from a version on holds for every later one.                            *)
(***************************************************************************)
THEOREM MonotoneChecks == AllSpec => []Monotone
<1>1. AllInv => Monotone
  BY VersionMonotone DEF AllInv, Monotone
<1> QED BY <1>1, AllInvariant, PTL

(***************************************************************************)
(* For every list of suites, whatever arguments they require, and every    *)
(* size of the pool, regression.py ends only when each suite has met its   *)
(* fate: skipped, an error for want of an argument, run, or never called   *)
(* because a suite before it, or it itself, cannot be loaded.              *)
(***************************************************************************)
THEOREM EverySuiteOver == AllSpec => []EverySuiteIsOver
<1>1. AllInv => EverySuiteIsOver
  BY PoolKeeps DEF AllInv, EverySuiteIsOver
<1> QED BY <1>1, AllInvariant, PTL

(***************************************************************************)
(* However many runs of cicd-trigger.py there are, with --wait or without, *)
(* and however many tries are asked for, none included, exit code 0 means  *)
(* what ExitCodeZero says.                                                 *)
(***************************************************************************)
THEOREM MeaningOfZero == AllSpec => []ExitCodeZero
<1>1. AllInv => ExitCodeZero
  BY DEF AllInv, TriggerInv, RetryInv, ExitCodeZero
<1> QED BY <1>1, AllInvariant, PTL

(***************************************************************************)
(* However many runs of cicd-trigger.py there are for however many users,  *)
(* a pipeline is started only with a trigger of its own user.              *)
(***************************************************************************)
THEOREM TriggerOfOwn == AllSpec => []OwnTrigger
<1>1. AllInv => OwnTrigger
  BY DEF AllInv, TriggerInv, OwnTrigger
<1> QED BY <1>1, AllInvariant, PTL
===============================================================================

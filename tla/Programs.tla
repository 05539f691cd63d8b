---------------------------- MODULE Programs ----------------------------
(***************************************************************************)
(* The programs on a host and what they do before and after the tests: the *)
(* cluster that is brought up and down, the binary, the version, the pool  *)
(* of suites and the scripts of the CI.                                    *)
(*                                                                         *)
(* They share no variable, so a step of one cannot disturb a property of   *)
(* another: a behaviour is about one of them, chosen at the beginning.     *)
(***************************************************************************)
EXTENDS ClusterUp

CONSTANTS
    Suites, Sources, AtOnce,                     \* of BinaryCache
    Numbers, MaxParts, MaxBinaries, Word, None,  \* of VersionCheck
    Listed, Existing, Required, Passed, Skipped, PoolSize,  \* of RegressionPool
    Scripts, User,                               \* of CicdTrigger
    Retries, DockerTries                         \* of RetryScripts

VARIABLES
    part,  \* which of them this behaviour is about
    b_source, b_download, b_bin, b_bridge, b_missed, b_pc,
    v_option, v_binary, v_left, v_version, v_pc,
    p_next, p_pc, p_suite, p_raised,
    t_triggers, t_trigger, t_pipeline, t_wait, t_known, t_pc, t_exit,
    r_script, r_limit, r_try, r_exit, r_done

Binary == INSTANCE BinaryCache WITH
    source <- b_source, download <- b_download, bin <- b_bin, bridge <- b_bridge,
    missed <- b_missed, pc <- b_pc

Version == INSTANCE VersionCheck WITH
    option <- v_option, binary <- v_binary, left <- v_left, version <- v_version,
    pc <- v_pc

Pool == INSTANCE RegressionPool WITH
    next <- p_next, pc <- p_pc, suite <- p_suite, raised <- p_raised

Trigger == INSTANCE CicdTrigger WITH
    triggers <- t_triggers, trigger <- t_trigger, pipeline <- t_pipeline,
    wait <- t_wait, known <- t_known, pc <- t_pc, exit <- t_exit

Retry == INSTANCE RetryScripts WITH
    script <- r_script, limit <- r_limit, try <- r_try, exit <- r_exit,
    done <- r_done

-----------------------------------------------------------------------------
ASSUME BinaryAssumption == Binary!BinaryCacheAssumption
ASSUME VersionAssumption == Version!VersionCheckAssumption
ASSUME PoolAssumption == Pool!RegressionPoolAssumption
ASSUME RetryAssumption == Retry!RetryScriptsAssumption

binaryVars ==
    <<b_source, b_download, b_bin, b_bridge, b_missed, b_pc>>
versionVars ==
    <<v_option, v_binary, v_left, v_version, v_pc>>
poolVars ==
    <<p_next, p_pc, p_suite, p_raised>>
triggerVars ==
    <<t_triggers, t_trigger, t_pipeline, t_wait, t_known, t_pc, t_exit>>
retryVars ==
    <<r_script, r_limit, r_try, r_exit, r_done>>

Parts == {"cluster", "binary", "version", "pool", "trigger", "retry"}

(* The variables of a part that the behaviour is not about stay off *)
BinaryInit ==
    IF part = "binary" THEN Binary!Init
      ELSE /\ b_source = "off" /\ b_download = "off" /\ b_bin = "off"
           /\ b_bridge = "off" /\ b_missed = "off" /\ b_pc = "off"

VersionInit ==
    IF part = "version" THEN Version!Init
      ELSE /\ v_option = "off" /\ v_binary = "off" /\ v_left = "off"
           /\ v_version = "off" /\ v_pc = "off"

PoolInit ==
    IF part = "pool" THEN Pool!Init
      ELSE /\ p_next = "off" /\ p_pc = "off" /\ p_suite = "off" /\ p_raised = "off"

TriggerInit ==
    IF part = "trigger" THEN Trigger!Init
      ELSE /\ t_triggers = "off" /\ t_trigger = "off" /\ t_pipeline = "off"
           /\ t_wait = "off"
           /\ t_known = "off" /\ t_pc = [s \in Scripts |-> "off"] /\ t_exit = "off"

RetryInit ==
    IF part = "retry" THEN Retry!Init
      ELSE /\ r_script = "off" /\ r_limit = "off" /\ r_try = "off"
           /\ r_exit = "off" /\ r_done = "off"

AllInit ==
    /\ part \in Parts /\ Init
    /\ BinaryInit /\ VersionInit /\ PoolInit /\ TriggerInit /\ RetryInit

ClusterStep ==
    /\ part = "cluster" /\ Next
    /\ UNCHANGED <<part, binaryVars, versionVars, poolVars, triggerVars, retryVars>>

BinaryStep ==
    /\ part = "binary" /\ Binary!Next
    /\ UNCHANGED <<part, vars, versionVars, poolVars, triggerVars, retryVars>>

VersionStep ==
    /\ part = "version" /\ Version!Next
    /\ UNCHANGED <<part, vars, binaryVars, poolVars, triggerVars, retryVars>>

PoolStep ==
    /\ part = "pool" /\ Pool!Next
    /\ UNCHANGED <<part, vars, binaryVars, versionVars, triggerVars, retryVars>>

TriggerStep ==
    /\ part = "trigger" /\ Trigger!Next
    /\ UNCHANGED <<part, vars, binaryVars, versionVars, poolVars, retryVars>>

RetryStep ==
    /\ part = "retry" /\ Retry!Next
    /\ UNCHANGED <<part, vars, binaryVars, versionVars, poolVars, triggerVars>>

AllNext ==
    \/ ClusterStep
    \/ BinaryStep
    \/ VersionStep
    \/ PoolStep
    \/ TriggerStep
    \/ RetryStep

allVars == <<part, vars, binaryVars, versionVars, poolVars, triggerVars, retryVars>>

(* The fairness of each part is that of its own specification *)
AllSpec ==
    /\ AllInit /\ [][AllNext]_allVars
    /\ WF_vars(part = "cluster" /\ Step)
    /\ WF_poolVars(part = "pool" /\ Pool!Program)
    /\ WF_poolVars(part = "pool" /\ Pool!Work)
    /\ \A s \in Scripts :
          /\ WF_triggerVars(part = "trigger" /\ Trigger!Script(s))
          /\ WF_triggerVars(part = "trigger" /\ Trigger!PipelineEnds(s))
    /\ WF_retryVars(part = "retry" /\ Retry!Next)

-----------------------------------------------------------------------------
(***************************************************************************)
(* The types of every part.                                                *)
(***************************************************************************)
TypesOK ==
    /\ TypeOK
    /\ part = "binary" => Binary!TypeOK
    /\ part = "version" => Version!TypeOK
    /\ part = "pool" => Pool!TypeOK
    /\ part = "trigger" => Trigger!TypeOK
    /\ part = "retry" => Retry!TypeOK

(***************************************************************************)
(* Every call of up comes to an end.                                       *)
(***************************************************************************)
EveryUpEnds == part = "cluster" => UpEnds

(***************************************************************************)
(* Suites one after another run on a whole binary (Cluster.__init__).      *)
(***************************************************************************)
WholeUnlessMissed == part = "binary" => Binary!WholeUnlessMissed

(***************************************************************************)
(* The tests of a binary know its own version.                             *)
(***************************************************************************)
VersionOfBinary == part = "version" => Version!VersionOfBinary

(***************************************************************************)
(* The version the tests know is that of the server they run on.           *)
(***************************************************************************)
TestedVersionIsServers == part = "version" => Version!TestedVersionIsServers

(***************************************************************************)
(* check_clickhouse_version compares in a total order.                     *)
(***************************************************************************)
Trichotomy == part = "version" => Version!Trichotomy

(***************************************************************************)
(* What check_clickhouse_version says of a version holds for later ones.   *)
(***************************************************************************)
Monotone == part = "version" => Version!Monotone

(***************************************************************************)
(* When regression.py ends each suite has met its own fate.                *)
(***************************************************************************)
EverySuiteIsOver == part = "pool" => Pool!EverySuiteIsOver

(***************************************************************************)
(* What exit code 0 means: of cicd-trigger.py a successful pipeline with   *)
(* --wait and a started one without, of retry.sh and dockerd-start.sh a    *)
(* last try that was successful, or no try at all.                         *)
(***************************************************************************)
ExitCodeZero ==
    /\ part = "trigger" => Trigger!ZeroMeans
    /\ part = "retry" => Retry!ExitCodeOfLastTry

(***************************************************************************)
(* cicd-trigger.py uses a trigger of its own user.                         *)
(***************************************************************************)
OwnTrigger == part = "trigger" => Trigger!OwnTrigger

(***************************************************************************)
(* Every program ends: regression.py though a suite cannot be loaded, all  *)
(* runs of cicd-trigger.py, retry.sh and dockerd-start.sh.                 *)
(***************************************************************************)
ProgramsEnd ==
    /\ part = "pool" => Pool!ProgramEnds
    /\ part = "trigger" => Trigger!ScriptsEnd
    /\ part = "retry" => Retry!ScriptEnds
=============================================================================

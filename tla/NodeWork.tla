---------------------------- MODULE NodeWork ----------------------------
(***************************************************************************)
(* What tests do on a node: queries, invalid configurations, the log of    *)
(* the server, steps with a clean-up, groups of keepers and the lookup of  *)
(* the container.                                                          *)
(*                                                                         *)
(* They share no variable, so a step of one cannot disturb a property of   *)
(* another: a behaviour is about one of them, chosen at the beginning.     *)
(***************************************************************************)
EXTENDS NodeQuery

CONSTANTS
    MaxCalls,                                \* of AddInvalidConfig
    MaxLog,                                  \* of ServerLogWindow
    Steps, Before, Default, MaxFailures,     \* of NodeFixtures
    Names, MaxDeaths,                        \* of KeeperNodes
    Timeout, ControlTimeout, Probe, Horizon  \* of ContainerLookup

VARIABLES
    part,  \* which of them this behaviour is about
    i_file, i_merged, i_server, i_loaded, i_visible, i_logged, i_pc, i_calls,
    i_restart, i_recover, i_exception, i_stuck,
    w_log, w_pc, w_start_logsize, w_end_logsize, w_terminating, w_dump,
    f_node, f_stack, f_pc, f_failures, f_left,
    k_keeper, k_pidfile, k_pc, k_next, k_manual, k_result, k_deaths,
    c_now, c_left, c_control, c_opening, c_there, c_copy, c_pc

Invalid == INSTANCE AddInvalidConfig WITH
    file <- i_file, merged <- i_merged, server <- i_server, loaded <- i_loaded,
    visible <- i_visible, logged <- i_logged, pc <- i_pc, calls <- i_calls,
    restart <- i_restart, recover <- i_recover, exception <- i_exception,
    stuck <- i_stuck

LogWindow == INSTANCE ServerLogWindow WITH
    log <- w_log, pc <- w_pc, start_logsize <- w_start_logsize,
    end_logsize <- w_end_logsize, terminating <- w_terminating, dump <- w_dump

Fixtures == INSTANCE NodeFixtures WITH
    node <- f_node, stack <- f_stack, pc <- f_pc, failures <- f_failures,
    left <- f_left

Keepers == INSTANCE KeeperNodes WITH
    keeper <- k_keeper, pidfile <- k_pidfile, pc <- k_pc, next <- k_next,
    manual <- k_manual, result <- k_result, deaths <- k_deaths

Lookup == INSTANCE ContainerLookup WITH
    now <- c_now, left <- c_left, control <- c_control, opening <- c_opening,
    there <- c_there, copy <- c_copy, pc <- c_pc

-----------------------------------------------------------------------------
ASSUME InvalidAssumption == Invalid!AddInvalidConfigAssumption
ASSUME LogWindowAssumption == LogWindow!ServerLogWindowAssumption
ASSUME FixturesAssumption == Fixtures!NodeFixturesAssumption
ASSUME KeepersAssumption == Keepers!KeeperNodesAssumption
ASSUME LookupAssumption == Lookup!ContainerLookupAssumption

invalidVars ==
    <<i_file, i_merged, i_server, i_loaded, i_visible, i_logged, i_pc, i_calls,
      i_restart, i_recover, i_exception, i_stuck>>
logVars ==
    <<w_log, w_pc, w_start_logsize, w_end_logsize, w_terminating, w_dump>>
fixturesVars ==
    <<f_node, f_stack, f_pc, f_failures, f_left>>
keepersVars ==
    <<k_keeper, k_pidfile, k_pc, k_next, k_manual, k_result, k_deaths>>
lookupVars ==
    <<c_now, c_left, c_control, c_opening, c_there, c_copy, c_pc>>

Parts == {"query", "invalid", "log", "fixtures", "keepers", "lookup"}

(* The variables of a part that the behaviour is not about stay off *)
InvalidInit ==
    IF part = "invalid" THEN Invalid!Init
      ELSE /\ i_file = "off" /\ i_merged = "off" /\ i_server = "off"
           /\ i_loaded = "off" /\ i_visible = "off" /\ i_logged = "off"
           /\ i_pc = "off" /\ i_calls = "off" /\ i_restart = "off"
           /\ i_recover = "off" /\ i_exception = "off" /\ i_stuck = "off"

LogWindowInit ==
    IF part = "log" THEN LogWindow!Init
      ELSE /\ w_log = "off" /\ w_pc = "off" /\ w_start_logsize = "off"
           /\ w_end_logsize = "off" /\ w_terminating = "off" /\ w_dump = "off"

FixturesInit ==
    IF part = "fixtures" THEN Fixtures!Init
      ELSE /\ f_node = "off" /\ f_stack = "off" /\ f_pc = "off"
           /\ f_failures = "off" /\ f_left = "off"

KeepersInit ==
    IF part = "keepers" THEN Keepers!Init
      ELSE /\ k_keeper = "off" /\ k_pidfile = "off" /\ k_pc = "off"
           /\ k_next = "off" /\ k_manual = "off" /\ k_result = "off"
           /\ k_deaths = "off"

LookupInit ==
    IF part = "lookup" THEN Lookup!Init
      ELSE /\ c_now = "off" /\ c_left = "off" /\ c_control = "off"
           /\ c_opening = "off" /\ c_there = "off" /\ c_copy = "off" /\ c_pc = "off"

AllInit ==
    /\ part \in Parts /\ Init
    /\ InvalidInit /\ LogWindowInit /\ FixturesInit /\ KeepersInit /\ LookupInit

QueryStep ==
    /\ part = "query" /\ Next
    /\ UNCHANGED <<part, invalidVars, logVars, fixturesVars, keepersVars, lookupVars>>

InvalidStep ==
    /\ part = "invalid" /\ Invalid!Next
    /\ UNCHANGED <<part, vars, logVars, fixturesVars, keepersVars, lookupVars>>

LogWindowStep ==
    /\ part = "log" /\ LogWindow!Next
    /\ UNCHANGED <<part, vars, invalidVars, fixturesVars, keepersVars, lookupVars>>

FixturesStep ==
    /\ part = "fixtures" /\ Fixtures!Next
    /\ UNCHANGED <<part, vars, invalidVars, logVars, keepersVars, lookupVars>>

KeepersStep ==
    /\ part = "keepers" /\ Keepers!Next
    /\ UNCHANGED <<part, vars, invalidVars, logVars, fixturesVars, lookupVars>>

LookupStep ==
    /\ part = "lookup" /\ Lookup!Next
    /\ UNCHANGED <<part, vars, invalidVars, logVars, fixturesVars, keepersVars>>

AllNext ==
    \/ QueryStep
    \/ InvalidStep
    \/ LogWindowStep
    \/ FixturesStep
    \/ KeepersStep
    \/ LookupStep

allVars == <<part, vars, invalidVars, logVars, fixturesVars, keepersVars, lookupVars>>

AllSpec == AllInit /\ [][AllNext]_allVars /\ WF_lookupVars(part = "lookup" /\ Lookup!Lookup)

-----------------------------------------------------------------------------
(***************************************************************************)
(* The types of every part: queries, and whichever of the other five the   *)
(* behaviour is about.                                                     *)
(***************************************************************************)
TypesOK ==
    /\ TypeOK
    /\ part = "invalid" => Invalid!TypeOK
    /\ part = "log" => LogWindow!TypeOK
    /\ part = "fixtures" => Fixtures!TypeOK
    /\ part = "keepers" => Keepers!TypeOK
    /\ part = "lookup" => Lookup!TypeOK

(***************************************************************************)
(* add_invalid_config passes on the message of its own config only.        *)
(***************************************************************************)
MessageIsOwn == part = "invalid" => Invalid!MessageIsOwn

(***************************************************************************)
(* add_invalid_config leaves the server on a good configuration.           *)
(***************************************************************************)
InvalidConfigIsGone == part = "invalid" => Invalid!InvalidConfigIsGone

(***************************************************************************)
(* The dump of the log is the test's own but for a byte at each end        *)
(* (instrument_clickhouse_server_log).                                     *)
(***************************************************************************)
DumpIsOffByOneAtMost == part = "log" => LogWindow!DumpIsOffByOneAtMost

(***************************************************************************)
(* Steps with a clean-up leave nothing on the node, whatever has failed.   *)
(***************************************************************************)
LeavesNothing == part = "fixtures" => Fixtures!LeavesNothing

(***************************************************************************)
(* A test that start_keepers has let begin has its keepers.                *)
(***************************************************************************)
TestHasKeepers == part = "keepers" => Keepers!TestHasKeepers

(***************************************************************************)
(* A clean-up of keepers that gets through has stopped all of them.        *)
(***************************************************************************)
CleanUpStopsAll == part = "keepers" => Keepers!CleanUpStopsAll

(***************************************************************************)
(* node_container_id of helpers holds the lock no longer than its time and *)
(* that of opening a control terminal once; the one of ssl_keeper does not *)
(* give up on docker-compose before its time is over.                      *)
(***************************************************************************)
KeepsItsTime == part = "lookup" => Lookup!KeepsItsTime

(***************************************************************************)
(* node_container_id of helpers ends.                                      *)
(***************************************************************************)
LookupEnds == part = "lookup" => Lookup!LookupEnds
=============================================================================

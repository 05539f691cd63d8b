------------------------------ MODULE AddConfig ------------------------------
(***************************************************************************)
(* add_config of helpers/common.py: a test adds a file to the directory    *)
(* config.d of a server, waits until the server has loaded it, runs, and   *)
(* removes it again.                                                       *)
(*                                                                         *)
(* There is no way to ask the server which files it has loaded.  The code  *)
(* looks at two traces of a reload: the preprocessed file, which holds the *)
(* uid of the config, and a message in the log.  The message does not say  *)
(* which reload it is about; the code takes the first one after the moment *)
(* it began to follow the log.                                             *)
(*                                                                         *)
(* The reloader of the server is external and modelled from what the code  *)
(* expects of it: it notices that the files changed, reads them, saves the *)
(* preprocessed file, updates the configuration and logs the outcome.      *)
(***************************************************************************)
EXTENDS Naturals, FiniteSets

CONSTANTS
    Configs,     \* one call of add_config each
    Bad,         \* those that the server cannot apply
    Options,     \* the options that are used: sets of arguments, see Call
    MaxFaults,   \* commands that raise
    Parallel     \* calls of several threads, or nested ones of one thread

ASSUME AddConfigAssumption ==
    /\ Bad \subseteq Configs
    /\ Options \subseteq SUBSET {"restart", "modify", "unchecked"}
    /\ MaxFaults \in Nat
    /\ Parallel \in BOOLEAN

VARIABLES
    files,         \* the configs in config.d
    server,        \* "up", "booting" or "down"
    reloader,      \* "idle", "read" or "saved"
    reading,       \* the files of the reload under way
    known,         \* the files of the last reload
    preprocessed,  \* the files merged in the preprocessed file
    loaded,        \* the files the server works with
    pc, phase, opts, result,  \* per call
    heard,         \* first message of the log the call's tail has shown
    faults

external == <<server, reloader, reading, known, preprocessed, loaded>>

vars == <<files, external, pc, phase, opts, result, heard, faults>>

(* The steps of a call that touch the node *)
Busy == {"tail", "edit", "pre", "stop", "stat", "start", "healthy", "expect"}

(* Those that have the terminal with the tail of the log *)
Following == Busy \ {"tail", "stat"}

TypeOK ==
    /\ files \subseteq Configs /\ reading \subseteq Configs /\ known \subseteq Configs
    /\ preprocessed \subseteq Configs /\ loaded \subseteq Configs
    /\ server \in {"up", "booting", "down"}
    /\ reloader \in {"idle", "read", "saved"}
    /\ pc \in [Configs -> Busy \cup {"idle", "body", "done"}]
    /\ phase \in [Configs -> {"add", "remove"}]
    /\ opts \in [Configs -> SUBSET {"restart", "modify", "unchecked"}]
    /\ result \in [Configs -> {"ok", "raised"}]
    /\ heard \in [Configs -> {"off", "nothing", "loaded", "error"}]
    /\ \A c \in Configs : heard[c] # "off" => pc[c] \in Following
    /\ faults \in 0..MaxFaults

(* after Cluster.up(): a server that has loaded the files it started with *)
Init ==
    /\ files = {} /\ reading = {} /\ known = {} /\ preprocessed = {} /\ loaded = {}
    /\ server = "up" /\ reloader = "idle"
    /\ pc = [c \in Configs |-> "idle"]
    /\ phase = [c \in Configs |-> "add"]
    /\ opts = [c \in Configs |-> {}]
    /\ result = [c \in Configs |-> "ok"]
    /\ heard = [c \in Configs |-> "off"]
    /\ faults = 0

-----------------------------------------------------------------------------
(***************************************************************************)
(* The reloader of the server                                              *)
(***************************************************************************)
ReadFiles ==
    /\ reloader = "idle"
    /\ server = "booting" \/ (server = "up" /\ files # known)
    /\ reloader' = "read"
    /\ reading' = files
    /\ UNCHANGED <<files, server, known, preprocessed, loaded, pc, phase, opts,
                   result, heard, faults>>

SavePreprocessed ==
    /\ reloader = "read"
    /\ reloader' = "saved"
    /\ preprocessed' = reading
    /\ known' = reading
    /\ UNCHANGED <<files, server, reading, loaded, pc, phase, opts, result,
                   heard, faults>>

(* Every tail that has not shown a message yet shows this one *)
Log(message) ==
    heard' = [c \in Configs |-> IF heard[c] = "nothing" THEN message ELSE heard[c]]

Update ==
    /\ reloader = "saved"
    /\ reloader' = "idle"
    /\ CASE reading \cap Bad = {} ->
              loaded' = reading /\ server' = "up" /\ Log("loaded")
         [] reading \cap Bad # {} /\ server = "up" ->
              Log("error") /\ UNCHANGED <<loaded, server>>
         [] OTHER ->  \* it does not come up
              server' = "down" /\ UNCHANGED <<loaded, heard>>
    /\ UNCHANGED <<files, reading, known, preprocessed, pc, phase, opts, result,
                   faults>>

(* Nothing is going to happen any more, unless somebody edits a file *)
Quiet ==
    \/ server = "down"
    \/ server = "up" /\ reloader = "idle" /\ files = known

-----------------------------------------------------------------------------
(***************************************************************************)
(* add_config.  Both phases, adding the file and removing it, take the     *)
(* same steps.                                                             *)
(***************************************************************************)
Goto(c, step) ==
    /\ pc' = [pc EXCEPT ![c] = step]
    /\ UNCHANGED <<phase, opts, result>>

(* The end of the phase, by an exception or not: the file is removed in    *)
(* the finally, unless modify=True                                         *)
Leaves(c, how) ==
    /\ result' = [result EXCEPT ![c] = IF how = "raised" THEN how ELSE @]
    /\ heard' = [heard EXCEPT ![c] = "off"]
    /\ IF phase[c] = "remove" \/ "modify" \in opts[c]
         THEN /\ pc' = [pc EXCEPT ![c] = "done"]
              /\ UNCHANGED phase
         ELSE /\ pc' = [pc EXCEPT ![c] = "tail"]
              /\ phase' = [phase EXCEPT ![c] = "remove"]
    /\ UNCHANGED opts

(* One thread makes one call at a time, and others inside its body *)
MayMove(c) == Parallel \/ \A d \in Configs : pc[d] \notin Busy

Call(c, o) ==
    /\ pc[c] = "idle" /\ MayMove(c)
    /\ opts' = [opts EXCEPT ![c] = o]
    /\ pc' = [pc EXCEPT ![c] = "tail"]
    /\ UNCHANGED <<files, external, phase, result, heard, faults>>

(* tail -n 0 -f of the log, in a terminal of its own *)
Tail(c) ==
    /\ pc[c] = "tail"
    /\ heard' = [heard EXCEPT ![c] = "nothing"]
    /\ Goto(c, "edit")
    /\ UNCHANGED <<files, external, faults>>

(* cat > or rm -rf *)
Edited(c) == IF phase[c] = "add" THEN files \cup {c} ELSE files \ {c}

(* A mistake: the terminal of the tail is not closed *)
YieldsFollowing(c) ==
    /\ pc' = [pc EXCEPT ![c] = "body"]
    /\ UNCHANGED <<phase, opts, result, heard>>

(* The terminal of the tail is closed and the test has its turn *)
Yields(c) ==
    /\ pc' = [pc EXCEPT ![c] = "body"]
    /\ heard' = [heard EXCEPT ![c] = "off"]
    /\ UNCHANGED <<phase, opts, result>>

Edit(c) ==
    /\ pc[c] = "edit"
    /\ files' = Edited(c)
    /\ IF phase[c] = "add" /\ "unchecked" \in opts[c]
         THEN Yields(c)
         ELSE Goto(c, "pre") /\ UNCHANGED heard
    /\ UNCHANGED <<external, faults>>

(* A mistake: grep is asked for the uid after the removal as well *)
UpdatedAlways(c) == c \in preprocessed

(***************************************************************************)
(* check_preprocessed_config_is_updated: a round that finds the uid in the *)
(* preprocessed file, or after the removal does not.  The timeout is       *)
(* longer than a reload takes.                                             *)
(***************************************************************************)
Updated(c) == (phase[c] = "add") = (c \in preprocessed)

(* A mistake: the log is not looked at *)
PreprocessedIsEnough(c) ==
    /\ pc[c] = "pre" /\ Updated(c)
    /\ IF phase[c] = "add" THEN Yields(c) ELSE Leaves(c, "ok")
    /\ UNCHANGED <<files, external, faults>>

Preprocessed(c) ==
    /\ pc[c] = "pre" /\ Updated(c)
    /\ Goto(c, IF "restart" \in opts[c] THEN "stop" ELSE "expect")
    /\ UNCHANGED <<files, external, heard, faults>>

NotPreprocessed(c) ==
    /\ pc[c] = "pre" /\ ~Updated(c) /\ Quiet
    /\ Leaves(c, "raised")
    /\ UNCHANGED <<files, external, faults>>

(* bash.close() and node.stop_clickhouse(safe=False) *)
Stop(c) ==
    /\ pc[c] = "stop" /\ server # "down"
    /\ server' = "down"
    /\ reloader' = "idle"
    /\ loaded' = {}
    /\ heard' = [heard EXCEPT ![c] = "off"]
    /\ Goto(c, "stat")
    /\ UNCHANGED <<files, reading, known, preprocessed, faults>>

(* No pid, or a pid file already: both raise *)
StopOrStartRaises(c) ==
    /\ \/ pc[c] = "stop" /\ server = "down"
       \/ pc[c] = "start" /\ server # "down"
       \/ pc[c] = "healthy" /\ server = "down"
    /\ Leaves(c, "raised")
    /\ UNCHANGED <<files, external, faults>>

(* The log is going to be followed from its current size on *)
Stat(c) ==
    /\ pc[c] = "stat"
    /\ heard' = [heard EXCEPT ![c] = "nothing"]
    /\ Goto(c, "start")
    /\ UNCHANGED <<files, external, faults>>

Start(c) ==
    /\ pc[c] = "start" /\ server = "down"
    /\ server' = "booting"
    /\ Goto(c, "healthy")
    /\ UNCHANGED <<files, reloader, reading, known, preprocessed, loaded, heard, faults>>

(* wait_clickhouse_healthy, or wait_healthy=False *)
Healthy(c) ==
    /\ pc[c] = "healthy" /\ server # "down"
    /\ Goto(c, "expect")
    /\ UNCHANGED <<files, external, heard, faults>>

(* bash.expect of one of the two messages *)
ExpectLoaded(c) ==
    /\ pc[c] = "expect" /\ heard[c] = "loaded"
    /\ IF phase[c] = "add" THEN Yields(c) ELSE Leaves(c, "ok")
    /\ UNCHANGED <<files, external, faults>>

ExpectError(c) ==
    /\ pc[c] = "expect" /\ heard[c] = "error"
    /\ Leaves(c, "raised")
    /\ UNCHANGED <<files, external, faults>>

(* A mistake: the wait for the message has no timeout *)
WaitsForEver(c) ==
    /\ pc[c] = "expect" /\ heard[c] = "error" /\ Quiet
    /\ Leaves(c, "raised")
    /\ UNCHANGED <<files, external, faults>>

(* ExpectTimeoutError: longer than a reload takes *)
ExpectTimeout(c) ==
    /\ pc[c] = "expect" /\ heard[c] = "nothing" /\ Quiet
    /\ Leaves(c, "raised")
    /\ UNCHANGED <<files, external, faults>>

(* The test between the yield and the finally, which may raise as well *)
Body(c) ==
    /\ pc[c] = "body" /\ MayMove(c)
    /\ Leaves(c, "ok")
    /\ UNCHANGED <<files, external, faults>>

(***************************************************************************)
(* A command raises.  That it raises after it did its work is a fault at   *)
(* the step that follows: a server that was stopped is down at "stat", one *)
(* that was started is booting at "healthy".  Only after an edit there may *)
(* be no such step, and so it is done or not here.                         *)
(***************************************************************************)
Fault(c) ==
    /\ pc[c] \in Busy /\ faults < MaxFaults
    /\ faults' = faults + 1
    /\ files' \in IF pc[c] = "edit" THEN {files, Edited(c)} ELSE {files}
    /\ Leaves(c, "raised")
    /\ UNCHANGED external

Step(c) ==
    \/ Tail(c) \/ Edit(c) \/ Preprocessed(c) \/ NotPreprocessed(c)
    \/ Stop(c) \/ StopOrStartRaises(c) \/ Stat(c) \/ Start(c) \/ Healthy(c)
    \/ ExpectLoaded(c) \/ ExpectError(c) \/ ExpectTimeout(c)

Reload == ReadFiles \/ SavePreprocessed \/ Update

Next ==
    \/ Reload
    \/ \E c \in Configs :
         Step(c) \/ Body(c) \/ Fault(c) \/ \E o \in Options : Call(c, o)

Spec == Init /\ [][Next]_vars

(* The reloader runs in a thread of the server that looks every 2 seconds, *)
(* and every loop of a call has a timeout.                                 *)
FairSpec == Spec /\ WF_vars(Reload) /\ \A c \in Configs : WF_vars(Step(c))

-----------------------------------------------------------------------------
(***************************************************************************)
(* When add_config hands over to the test the server works with the new    *)
(* config, if it was asked to check: the message that was taken for the    *)
(* end of the reload is not the one of an earlier reload.  "Wait for       *)
(* config to be loaded."                                                   *)
(***************************************************************************)
LoadedOnYield ==
    [][\A c \in Configs :
         pc[c] # "body" /\ pc'[c] = "body" /\ "unchecked" \notin opts[c]
            => c \in loaded']_vars

(***************************************************************************)
(* When add_config returns the server does not work with the config any    *)
(* more, whatever other configs are in place.                              *)
(***************************************************************************)
UnloadedOnReturn ==
    [][\A c \in Configs :
         pc[c] # "done" /\ pc'[c] = "done" /\ result'[c] = "ok"
             /\ "modify" \notin opts[c]
            => c \notin loaded']_vars

(***************************************************************************)
(* As long as no command raises and the configs are good, no call raises:  *)
(* every wait is for something that does happen, in the clean-up as well.  *)
(***************************************************************************)
NoFalseAlarm == \A c \in Configs : result[c] = "ok"

(***************************************************************************)
(* A call ends, or the test has its turn, whichever command raises and     *)
(* whatever the other calls do.  The server is taken to go on looking at   *)
(* its files and to finish a reload it began.                              *)
(***************************************************************************)
EveryWaitEnds == \A c \in Configs : pc[c] \in Busy ~> pc[c] \notin Busy
=============================================================================

------------------------------ MODULE CicdTrigger ------------------------------
(***************************************************************************)
(* cicd-trigger.py: several runs of the script, each looking for the       *)
(* pipeline trigger of its user, creating it when there is none, starting  *)
(* a pipeline with it and, with --wait, polling until it has finished.     *)
(* Every step is inside an Action, which turns an exception into exit code *)
(* 1.  GitLab is external: any request may fail.                           *)
(***************************************************************************)

CONSTANTS
    Scripts,  \* runs of the script
    User      \* the user each one is authenticated as

VARIABLES
    triggers,  \* project.triggers: which script has created one
    trigger,   \* the trigger each script uses
    pipeline,  \* status of the pipeline of each script
    wait,      \* --wait
    known,     \* what the last refresh has shown
    pc, exit

vars == <<triggers, trigger, pipeline, wait, known, pc, exit>>

Finished == {"success", "failed", "canceled"}

TypeOK ==
    /\ triggers \subseteq Scripts /\ trigger \in [Scripts -> Scripts \cup {"none"}]
    /\ pipeline \in [Scripts -> Finished \cup {"none", "running"}]
    /\ wait \in [Scripts -> BOOLEAN]
    /\ known \in [Scripts -> Finished \cup {"none", "running"}]
    /\ pc \in [Scripts -> {"new", "list", "create", "trigger", "print", "wait", "check",
                           "over"}]
    /\ exit \in [Scripts -> {"none", "0", "1"}]
    /\ \A s \in Scripts : exit[s] # "none" <=> pc[s] = "over"

Init ==
    /\ triggers = {} /\ trigger = [s \in Scripts |-> "none"]
    /\ pipeline = [s \in Scripts |-> "none"] /\ known = [s \in Scripts |-> "none"]
    /\ wait \in [Scripts -> BOOLEAN]
    /\ pc = [s \in Scripts |-> "new"] /\ exit = [s \in Scripts |-> "none"]

Goto(s, step) == pc' = [pc EXCEPT ![s] = step] /\ UNCHANGED <<exit, wait>>

Exits(s, code) ==
    /\ pc' = [pc EXCEPT ![s] = "over"] /\ exit' = [exit EXCEPT ![s] = code]
    /\ UNCHANGED wait

PipelineEnds(s) ==
    /\ pipeline[s] = "running"
    /\ \E status \in Finished : pipeline' = [pipeline EXCEPT ![s] = status]
    /\ UNCHANGED <<triggers, trigger, wait, known, pc, exit>>

-----------------------------------------------------------------------------
(* gl.auth() and gl.projects.get() *)
Authenticate(s) ==
    /\ pc[s] = "new"
    /\ Goto(s, "list")
    /\ UNCHANGED <<triggers, trigger, pipeline, known>>

Uses(s, t) == trigger' = [trigger EXCEPT ![s] = t] /\ Goto(s, "trigger")

(* Mistake: the triggers of all users are taken for one's own *)
GetAny(s) ==
    /\ pc[s] = "list"
    /\ \/ \E t \in triggers : Uses(s, t)
       \/ triggers = {} /\ Goto(s, "create") /\ UNCHANGED trigger
    /\ UNCHANGED <<triggers, pipeline, known>>

(* get_or_create_pipeline_trigger: one that carries the name of the user *)
Get(s) ==
    /\ pc[s] = "list"
    /\ LET own == {t \in triggers : User[t] = User[s]} IN
          \/ \E t \in own : Uses(s, t)
          \/ own = {} /\ Goto(s, "create") /\ UNCHANGED trigger
    /\ UNCHANGED <<triggers, pipeline, known>>

(* Another script of the user may have created one meanwhile *)
Create(s) ==
    /\ pc[s] = "create"
    /\ triggers' = triggers \cup {s} /\ Uses(s, s)
    /\ UNCHANGED <<pipeline, known>>

TriggerPipeline(s) ==
    /\ pc[s] = "trigger"
    /\ pipeline' = [pipeline EXCEPT ![s] = "running"]
    /\ known' = [known EXCEPT ![s] = "running"]
    /\ Goto(s, "print")
    /\ UNCHANGED <<triggers, trigger>>

(* What is printed needs variables["version"]: it may raise, with the pipeline running *)
PrintLinks(s) ==
    /\ pc[s] = "print"
    /\ IF wait[s] THEN Goto(s, "wait") ELSE Exits(s, "0")
    /\ UNCHANGED <<triggers, trigger, pipeline, known>>

(* Mistake: no pipeline.refresh() *)
NoRefresh(s) ==
    /\ pc[s] = "wait"
    /\ Goto(s, IF known[s] \in Finished THEN "check" ELSE "wait")
    /\ UNCHANGED <<triggers, trigger, pipeline, known>>

(* while pipeline.finished_at is None: pipeline.refresh() *)
Refresh(s) ==
    /\ pc[s] = "wait"
    /\ known' = [known EXCEPT ![s] = pipeline[s]]
    /\ Goto(s, IF pipeline[s] \in Finished THEN "check" ELSE "wait")
    /\ UNCHANGED <<triggers, trigger, pipeline>>

(* Mistake: only "failed" is an error *)
CheckNotFailed(s) ==
    /\ pc[s] = "check"
    /\ Exits(s, IF known[s] = "failed" THEN "1" ELSE "0")
    /\ UNCHANGED <<triggers, trigger, pipeline, known>>

Check(s) ==
    /\ pc[s] = "check"
    /\ Exits(s, IF known[s] = "success" THEN "0" ELSE "1")
    /\ UNCHANGED <<triggers, trigger, pipeline, known>>

(* A request fails: Action.__exit__ ends the script *)
Fails(s) ==
    /\ pc[s] \in {"new", "list", "create", "trigger", "print", "wait"}
    /\ Exits(s, "1")
    /\ UNCHANGED <<triggers, trigger, pipeline, known>>

AllOver == (\A s \in Scripts : pc[s] = "over") /\ UNCHANGED vars

Script(s) ==
    \/ Authenticate(s) \/ Get(s) \/ Create(s) \/ TriggerPipeline(s) \/ PrintLinks(s)
    \/ Refresh(s) \/ Check(s)

Next == (\E s \in Scripts : Script(s) \/ Fails(s) \/ PipelineEnds(s)) \/ AllOver

(* Scripts run on, and GitLab finishes every pipeline *)
Spec == /\ Init /\ [][Next]_vars
        /\ \A s \in Scripts : WF_vars(Script(s)) /\ WF_vars(PipelineEnds(s))

-----------------------------------------------------------------------------
(***************************************************************************)
(* Exit code 0 with --wait means that the pipeline this script has started *)
(* was successful; it is final ("Wait for pipeline to finish").  Without   *)
(* --wait it means no more than that a pipeline was started.               *)
(***************************************************************************)
ZeroMeans ==
    \A s \in Scripts :
        exit[s] = "0" => IF wait[s] THEN pipeline[s] = "success" ELSE pipeline[s] # "none"

(***************************************************************************)
(* A pipeline is started with a trigger of the script's own user, although *)
(* scripts of several users list and create triggers at the same time.     *)
(***************************************************************************)
OwnTrigger ==
    \A s \in Scripts :
        pipeline[s] # "none" => trigger[s] \in triggers /\ User[trigger[s]] = User[s]

(***************************************************************************)
(* Every script ends, however many run at the same time.                   *)
(***************************************************************************)
ScriptsEnd == \A s \in Scripts : <>(pc[s] = "over")
=============================================================================

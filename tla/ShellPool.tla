------------------------------ MODULE ShellPool ------------------------------
(***************************************************************************)
(* The terminals of a Cluster (helpers/cluster.py): the dictionary _bash   *)
(* of thread-local terminals, the control terminal that looks up container *)
(* ids, the unique terminals of Cluster.shell(), and the one lock that     *)
(* guards them.  Any thread runs commands and queries on any node or on    *)
(* the host, restarts nodes and exits; the main thread finally leaves the  *)
(* cluster's "with" block, which takes the cluster down.                   *)
(*                                                                         *)
(* A terminal is an object Shell() of testflows.connect with one bash      *)
(* process behind it while it is open.  That library is external: what is  *)
(* used of it here is that a call either completes, raises                 *)
(* ExpectTimeoutError with the process still there, or raises IOError      *)
(* because the process is gone, and that __exit__ ends the process.  A     *)
(* call on a terminal without a process starts one: control_shell, shell() *)
(* and bash() call terminals that were never entered.  A terminal that was *)
(* closed has none either, so a call on it may start one again, or raise.  *)
(***************************************************************************)
EXTENDS Naturals

CONSTANTS
    Threads,   \* thread names: the first component of a key of _bash
    Main,      \* the thread that enters and leaves the cluster
    Nodes,     \* docker-compose services
    Host,      \* the node None: a terminal on the host itself
    Shells,    \* identities of terminals; the one of a dropped terminal is reused
    NoThread,
    NoShell,
    Matches,   \* the services whose name ends with the name of a node
    MaxTries   \* failed attempts before a loop of bash() runs out of time

ASSUME ShellPoolAssumption ==
    /\ Main \in Threads /\ NoThread \notin Threads
    /\ Host \notin Nodes /\ NoShell \notin Shells \cup Threads \cup {NoThread}
    /\ Matches \in [Nodes -> SUBSET Nodes]
    /\ \A n \in Nodes : n \in Matches[n]
    /\ MaxTries \in Nat

Places == Nodes \cup {Host}

(***************************************************************************)
(* Where a thread is:                                                      *)
(*   off       not started, or exited        idle    outside this class    *)
(*   bash      waits for the lock in bash() or shell()                     *)
(*   ident     in node_container_id, lock held                             *)
(*   open      in the loop that opens the terminal, lock held              *)
(*   finish    exports the environment and cleans up, lock held            *)
(*   use       has the terminal and runs the command, without the lock     *)
(*   close     waits for the lock in close_bash()                          *)
(*   unique, private     opens, uses a terminal of its own                 *)
(*   downpool, downctl, final, gone      down() and __exit__ of the cluster*)
(***************************************************************************)
Locked == {"ident", "open", "finish"}

Steps == Locked \cup {"off", "idle", "bash", "use", "close", "unique",
                      "private", "downpool", "downctl", "final", "gone"}

(***************************************************************************)
(* What called bash(): Cluster.command() calls it before its try, cmd()    *)
(* and query() inside theirs; shell() and down() are the other two.        *)
(***************************************************************************)
Callers == {"command", "query", "shell", "down"}

VARIABLES
    lock,       \* Cluster.lock
    bash,       \* Cluster._bash, NoShell where there is no key
    control,    \* Cluster._control_shell
    opened,     \* terminals with a process
    exported,   \* terminals whose process has the whole of Cluster.environ
    pc,         \* per thread, where it is
    at,         \* per thread, the node it works on
    via,        \* per thread, the caller
    held,       \* per thread, the terminal it works with
    tries,      \* per thread, attempts that failed in the current loop
    restarted,  \* history: nodes close_bashes() was called for
    revived,    \* history: terminals that a call found out of _bash
    leaving     \* history: how far leaving the cluster got

vars == <<lock, bash, control, opened, exported, pc, at, via, held, tries,
          restarted, revived, leaving>>

terminals == <<bash, control, opened, exported>>

history == <<restarted, revived, leaving>>

TypeOK ==
    /\ lock \in Threads \cup {NoThread}
    /\ bash \in [Threads -> [Places -> Shells \cup {NoShell}]]
    /\ control \in Shells \cup {NoShell}
    /\ opened \subseteq Shells
    /\ exported \subseteq Shells
    /\ pc \in [Threads -> Steps]
    /\ at \in [Threads -> Places]
    /\ via \in [Threads -> Callers]
    /\ held \in [Threads -> Shells \cup {NoShell}]
    /\ tries \in [Threads -> 0..MaxTries]
    /\ restarted \subseteq Nodes
    /\ revived \subseteq Shells
    /\ leaving \in {"no", "down"}

Init ==
    /\ lock = NoThread
    /\ bash = [t \in Threads |-> [n \in Places |-> NoShell]]
    /\ control = NoShell
    /\ opened = {} /\ exported = {}
    /\ pc = [t \in Threads |-> IF t = Main THEN "idle" ELSE "off"]
    /\ at = [t \in Threads |-> Host]
    /\ via = [t \in Threads |-> "command"]
    /\ held = [t \in Threads |-> NoShell]
    /\ tries = [t \in Threads |-> 0]
    /\ restarted = {} /\ revived = {}
    /\ leaving = "no"

(* The thread goes on with its request, or is done with it *)
Goto(t, step) ==
    /\ pc' = [pc EXCEPT ![t] = step]
    /\ UNCHANGED <<at, via, tries>>

Return(t) ==
    /\ pc' = [pc EXCEPT ![t] = "idle"]
    /\ at' = [at EXCEPT ![t] = Host]
    /\ via' = [via EXCEPT ![t] = "command"]
    /\ tries' = [tries EXCEPT ![t] = 0]

(* A mistake: the key of _bash is the node alone *)
MineOfAnyThread(t) == bash[Main][at[t]]

(* The thread's entry of _bash, and the entry changed *)
Mine(t) == bash[t][at[t]]

SetMine(t, s) == bash' = [bash EXCEPT ![t][at[t]] = s]

Referenced(s) ==
    \/ s = control
    \/ \E t \in Threads : held[t] = s \/ \E n \in Places : bash[t][n] = s

(* What Shell() may create: a terminal that is nowhere *)
Fresh == {s \in Shells : s \notin opened /\ ~Referenced(s)}

(* __exit__ of every terminal in S; S may hold NoShell *)
Exit(S) ==
    /\ opened' = opened \ S
    /\ exported' = exported \ S

(* An exception leaves the caller; in down() it ends in the finally of     *)
(* Cluster.__exit__, as the name bash is unbound there.                    *)
Raise(t) == IF via[t] = "down" THEN Goto(t, "final") ELSE Return(t)

-----------------------------------------------------------------------------
(***************************************************************************)
(* Threads come and go.  A name can be used again.                         *)
(***************************************************************************)
Spawn(t) ==
    /\ pc[t] = "off" /\ pc[Main] = "idle"
    /\ Goto(t, "idle")
    /\ UNCHANGED <<lock, terminals, held, history>>

ThreadExit(t) ==
    /\ t # Main /\ pc[t] = "idle"
    /\ Goto(t, "off")
    /\ UNCHANGED <<lock, terminals, held, history>>

(***************************************************************************)
(* A request for a terminal: of a command, of a query, or unique.          *)
(***************************************************************************)
Ask(t, n, v) ==
    /\ at' = [at EXCEPT ![t] = n]
    /\ via' = [via EXCEPT ![t] = v]
    /\ pc' = [pc EXCEPT ![t] =
                IF v = "shell" /\ n = Host THEN "unique" ELSE "bash"]
    /\ UNCHANGED tries

Call(t, n, v) ==
    /\ pc[t] = "idle"
    /\ Ask(t, n, v)
    /\ UNCHANGED <<lock, terminals, held, history>>

(* bash() returns the terminal s *)
Give(t, s) ==
    /\ held' = [held EXCEPT ![t] = s]
    /\ Goto(t, IF via[t] = "down" THEN "downpool" ELSE "use")

(* bash() finds an entry: whatever is there is returned *)
Hit(t) ==
    /\ pc[t] = "bash" /\ lock = NoThread
    /\ via[t] # "shell" /\ Mine(t) # NoShell
    /\ Give(t, Mine(t))
    /\ UNCHANGED <<lock, terminals, history>>

(* no entry, or shell() of a node: the lock is kept to find the container *)
Miss(t) ==
    /\ pc[t] = "bash" /\ lock = NoThread
    /\ via[t] = "shell" \/ Mine(t) = NoShell
    /\ lock' = t
    /\ Goto(t, IF at[t] = Host THEN "open" ELSE "ident")
    /\ UNCHANGED <<terminals, held, history>>

(* A mistake: the time is compared one round too late *)
AgainOnceMore(t) ==
    \/ /\ tries[t] <= MaxTries
       /\ tries' = [tries EXCEPT ![t] = @ + 1]
       /\ UNCHANGED <<lock, pc, at, via>>
    \/ /\ tries[t] > MaxTries
       /\ lock' = NoThread
       /\ Raise(t)

(* A mistake: the time spent is not taken off the time allowed *)
AgainForever(t) == UNCHANGED <<lock, pc, at, via, tries>>

(* A loop that failed goes round again, or its time is up and it raises *)
Again(t) ==
    \/ /\ tries[t] < MaxTries
       /\ tries' = [tries EXCEPT ![t] = @ + 1]
       /\ UNCHANGED <<lock, pc, at, via>>
    \/ /\ tries[t] = MaxTries
       /\ lock' = NoThread
       /\ Raise(t)

(***************************************************************************)
(* node_container_id on the control terminal, which control_shell opens    *)
(* when there is none.                                                     *)
(***************************************************************************)
ControlShells == IF control = NoShell THEN Fresh ELSE {control}

Found(t) ==
    /\ pc[t] = "ident"
    /\ \E s \in ControlShells : control' = s /\ opened' = opened \cup {s}
    /\ pc' = [pc EXCEPT ![t] = IF via[t] = "shell" THEN "unique" ELSE "open"]
    /\ lock' = IF via[t] = "shell" THEN NoThread ELSE lock
    /\ tries' = [tries EXCEPT ![t] = 0]
    /\ UNCHANGED <<bash, exported, at, via, held, history>>

(* exit code not 0, or no container id in the output *)
NotFound(t) ==
    /\ pc[t] = "ident"
    /\ \E s \in ControlShells : control' = s /\ opened' = opened \cup {s}
    /\ Again(t)
    /\ UNCHANGED <<bash, exported, held, history>>

(* ExpectTimeoutError: close_control_shell() *)
LookupTimeout(t) ==
    /\ pc[t] = "ident" /\ ControlShells # {}
    /\ control' = NoShell
    /\ Exit({control})
    /\ Again(t)
    /\ UNCHANGED <<bash, held, history>>

(* IOError, or no control terminal could be opened: _control_shell stays *)
LookupFails(t) ==
    /\ pc[t] = "ident"
    /\ Exit({control})
    /\ lock' = NoThread
    /\ Raise(t)
    /\ UNCHANGED <<bash, control, held, history>>

(***************************************************************************)
(* The loop of bash() that opens a terminal and probes it with echo 1.     *)
(***************************************************************************)
Opens(t) ==
    /\ pc[t] = "open"
    /\ \E s \in Fresh : SetMine(t, s) /\ opened' = opened \cup {s}
    /\ Goto(t, "finish")
    /\ UNCHANGED <<lock, control, exported, held, history>>

(* the new terminal did not answer: it is closed and stays in _bash *)
ProbeFails(t) ==
    /\ pc[t] = "open"
    /\ \E s \in Fresh : SetMine(t, s)
    /\ Again(t)
    /\ UNCHANGED <<control, opened, exported, held, history>>

(* The terminal could not even be created: _bash keeps what the previous   *)
(* round left there, and without one the handler itself raises KeyError.   *)
CreateFails(t) ==
    /\ pc[t] = "open"
    /\ IF Mine(t) = NoShell THEN lock' = NoThread /\ Raise(t) ELSE Again(t)
    /\ UNCHANGED <<terminals, held, history>>

(* IOError is not retried; the terminal without a process stays in _bash *)
ProbeIOError(t) ==
    /\ pc[t] = "open"
    /\ \E s \in Fresh : SetMine(t, s)
    /\ lock' = NoThread
    /\ Raise(t)
    /\ UNCHANGED <<control, opened, exported, held, history>>

(***************************************************************************)
(* The environment is exported on the host, terminals of threads that have *)
(* exited are closed, and the terminal is returned.                        *)
(***************************************************************************)
(* A mistake: threads that are not opening a terminal count as exited *)
StaleTooMany == {t \in Threads : pc[t] \notin Locked}

Stale == {t \in Threads : pc[t] = "off"}

Export(t) == IF at[t] = Host THEN {Mine(t)} ELSE {}

Finish(t) ==
    /\ pc[t] = "finish"
    /\ LET closed == {bash[u][n] : u \in Stale, n \in Places}
       IN  /\ opened' = opened \ closed
           /\ exported' = (exported \cup Export(t)) \ closed
    /\ bash' = [u \in Threads |-> [n \in Places |->
                  IF u \in Stale THEN NoShell ELSE bash[u][n]]]
    /\ lock' = NoThread
    /\ Give(t, Mine(t))
    /\ UNCHANGED <<control, history>>

(* export timed out: only a caller with bash() inside its try closes it *)
ExportTimeout(t) ==
    /\ pc[t] = "finish" /\ at[t] = Host
    /\ lock' = NoThread
    /\ IF via[t] = "query" THEN Goto(t, "close") ELSE Raise(t)
    /\ UNCHANGED <<terminals, held, history>>

ExportFails(t) ==
    /\ pc[t] = "finish" /\ at[t] = Host
    /\ Exit({Mine(t)})
    /\ lock' = NoThread
    /\ Raise(t)
    /\ UNCHANGED <<bash, control, held, history>>

(***************************************************************************)
(* The command runs in the terminal, without the lock.                     *)
(***************************************************************************)
LetGo(t) == held' = [held EXCEPT ![t] = NoShell]

(* The call goes through.  When close_bashes() has closed the terminal     *)
(* since bash() returned it, the call starts a process again, and _bash    *)
(* does not know of it.                                                    *)
Runs(t) ==
    /\ opened' = opened \cup {held[t]}
    /\ revived' = revived \cup ({held[t]} \ {Mine(t)})
    /\ LetGo(t)
    /\ UNCHANGED <<lock, bash, control, exported, restarted, leaving>>

RunOk(t) ==
    /\ pc[t] = "use"
    /\ Runs(t)
    /\ IF via[t] = "down" THEN Goto(t, "downctl") ELSE Return(t)

RunTimeout(t) ==
    /\ pc[t] = "use"
    /\ Runs(t)
    /\ Goto(t, "close")

(* IOError: the process behind the terminal is gone *)
RunFails(t) ==
    /\ pc[t] = "use"
    /\ Exit({held[t]})
    /\ LetGo(t)
    /\ Raise(t)
    /\ UNCHANGED <<lock, bash, control, history>>

(* A mistake: the entry is deleted and the terminal left as it is *)
CloseBashWithoutExit(t) ==
    /\ pc[t] = "close" /\ lock = NoThread
    /\ SetMine(t, NoShell)
    /\ Raise(t)
    /\ UNCHANGED <<lock, control, opened, exported, held, history>>

(* close_bash(), after which the ExpectTimeoutError goes on *)
CloseBash(t) ==
    /\ pc[t] = "close" /\ lock = NoThread
    /\ Exit({Mine(t)})
    /\ SetMine(t, NoShell)
    /\ Raise(t)
    /\ UNCHANGED <<lock, control, held, history>>

(***************************************************************************)
(* restart() and stop() of a node close the terminals that every thread    *)
(* has there, and then run docker-compose on the host.                     *)
(***************************************************************************)
CloseBashes(t, n) ==
    /\ pc[t] = "idle" /\ lock = NoThread
    /\ Exit({bash[u][m] : u \in Threads, m \in Matches[n]})
    /\ bash' = [u \in Threads |-> [m \in Places |->
                  IF m \in Matches[n] THEN NoShell ELSE bash[u][m]]]
    /\ restarted' = restarted \cup {n}
    /\ Ask(t, Host, "command")
    /\ UNCHANGED <<lock, control, held, revived, leaving>>

(***************************************************************************)
(* Cluster.shell(): a terminal outside _bash, closed by the with statement *)
(* of its user.                                                            *)
(***************************************************************************)
UniqueOpens(t) ==
    /\ pc[t] = "unique"
    /\ \E s \in Fresh : /\ held' = [held EXCEPT ![t] = s]
                        /\ opened' = opened \cup {s}
    /\ Goto(t, "private")
    /\ UNCHANGED <<lock, bash, control, exported, history>>

UniqueFails(t) ==
    /\ pc[t] = "unique"
    /\ Return(t)
    /\ UNCHANGED <<lock, terminals, held, history>>

UniqueExit(t) ==
    /\ pc[t] = "private"
    /\ Exit({held[t]})
    /\ LetGo(t)
    /\ Return(t)
    /\ UNCHANGED <<lock, bash, control, history>>

-----------------------------------------------------------------------------
(***************************************************************************)
(* The with block of the cluster ends, after the threads of the tests have *)
(* been joined: down(), then the finally of __exit__.                      *)
(***************************************************************************)
Joined == pc[Main] = "idle" /\ \A t \in Threads \ {Main} : pc[t] = "off"

Down ==
    /\ Joined
    /\ Ask(Main, Host, "down")
    /\ UNCHANGED <<lock, terminals, held, history>>

(* collecting the service logs, or the message that down() writes to the   *)
(* server logs first, raised: down() never gets to its try                 *)
DownSkipped ==
    /\ Joined
    /\ Goto(Main, "final")
    /\ UNCHANGED <<lock, terminals, held, history>>

(* every terminal but the one in hand is removed and closed *)
DownPool ==
    /\ pc[Main] = "downpool" /\ lock = NoThread
    /\ Exit({bash[t][n] : t \in Threads, n \in Places} \ {held[Main]})
    /\ bash' = [t \in Threads |-> [n \in Places |->
                  IF bash[t][n] = held[Main] THEN bash[t][n] ELSE NoShell]]
    /\ Goto(Main, "use")
    /\ UNCHANGED <<lock, control, held, history>>

DownControl ==
    /\ pc[Main] = "downctl" /\ lock = NoThread
    /\ Exit({control})
    /\ control' = NoShell
    /\ leaving' = "down"
    /\ Goto(Main, "final")
    /\ UNCHANGED <<lock, bash, held, restarted, revived>>

(* A mistake: __exit__ relies on down() to close the terminals *)
FinalWithoutExit ==
    /\ pc[Main] = "final" /\ lock = NoThread
    /\ Goto(Main, "gone")
    /\ UNCHANGED <<lock, terminals, held, history>>

Final ==
    /\ pc[Main] = "final" /\ lock = NoThread
    /\ Exit({bash[t][n] : t \in Threads, n \in Places})
    /\ Goto(Main, "gone")
    /\ UNCHANGED <<lock, bash, control, held, history>>

Terminated ==
    /\ pc[Main] = "gone"
    /\ UNCHANGED vars

-----------------------------------------------------------------------------
(* What a thread does by itself once it has called *)
Acquire(t) == Hit(t) \/ Miss(t) \/ CloseBash(t)

Work(t) ==
    \/ Found(t) \/ NotFound(t) \/ LookupTimeout(t) \/ LookupFails(t)
    \/ Opens(t) \/ ProbeFails(t) \/ CreateFails(t) \/ ProbeIOError(t)
    \/ Finish(t) \/ ExportTimeout(t) \/ ExportFails(t)
    \/ RunOk(t) \/ RunTimeout(t) \/ RunFails(t)
    \/ UniqueOpens(t) \/ UniqueFails(t) \/ UniqueExit(t)

Leave == DownPool \/ DownControl \/ Final

Next ==
    \/ \E t \in Threads :
         \/ Spawn(t) \/ ThreadExit(t) \/ Acquire(t) \/ Work(t)
         \/ \E n \in Places, v \in {"command", "query", "shell"} : Call(t, n, v)
         \/ \E n \in Nodes : CloseBashes(t, n)
    \/ Down \/ DownSkipped \/ Leave \/ Terminated

Spec == Init /\ [][Next]_vars

(***************************************************************************)
(* A thread that can go on does; the lock is not denied for ever to a      *)
(* thread that asks for it.  Nobody is forced to make another call.        *)
(***************************************************************************)
Fairness ==
    /\ \A t \in Threads : SF_vars(Acquire(t)) /\ WF_vars(Work(t))
    /\ WF_vars(Leave)

FairSpec == Spec /\ Fairness

-----------------------------------------------------------------------------
(***************************************************************************)
(* bash() "Returns thread-local bash terminal" and shell() a "unique shell *)
(* terminal": no two threads ever work with the same terminal, and none    *)
(* works with the one that looks up container ids.                         *)
(***************************************************************************)
ThreadLocal ==
    \A t \in Threads : held[t] # NoShell =>
        /\ held[t] # control
        /\ \A u \in Threads : held[u] = held[t] => u = t

(***************************************************************************)
(* No process is lost: an open terminal is in _bash, is the control        *)
(* terminal or is in the hands of a thread, so somebody can still close    *)
(* it, through failed openings, timeouts, clean-ups and exits of threads.  *)
(* The one way to lose a process is a call that was between bash() and its *)
(* command when close_bashes() closed its terminal: without a restart or   *)
(* stop of a node there is none.                                           *)
(***************************************************************************)
NoOrphan ==
    /\ \A s \in opened : Referenced(s) \/ s \in revived
    /\ restarted = {} => revived = {}

(***************************************************************************)
(* A terminal stays in _bash under its thread's key while its thread runs  *)
(* a command in it: cleaning up after exited threads, other threads'       *)
(* timeouts and a restart of another node do not take it away.  Only       *)
(* close_bashes() of a matching node does, and then it is closed too.      *)
(***************************************************************************)
KeptWhileUsed ==
    \A t \in Threads : pc[t] \in {"use", "downpool"} =>
        \/ Mine(t) = held[t]
        \/ held[t] \notin opened /\ \E n \in restarted : at[t] \in Matches[n]

(***************************************************************************)
(* When the program has left the cluster, whichever step of down() raised, *)
(* no terminal of _bash is open and no unique one.  What can be left is    *)
(* the control terminal, which only a down() that got to its end closes,   *)
(* and the processes that calls started after close_bashes().              *)
(***************************************************************************)
ExitClosesAll ==
    pc[Main] = "gone" =>
        opened \subseteq revived \cup (IF leaving = "down" THEN {} ELSE {control})

(***************************************************************************)
(* Every call that needs a terminal returns or raises: nobody waits for    *)
(* ever for the lock or in one of the loops that hold it.                  *)
(***************************************************************************)
EveryCallEnds ==
    \A t \in Threads :
        pc[t] \in Steps \ {"off", "idle", "gone"} ~> pc[t] \in {"idle", "gone"}

(***************************************************************************)
(* A working host terminal is handed out with the environment in it, which *)
(* bash() exports for docker-compose when it opens the terminal.           *)
(***************************************************************************)
HandedOutExported ==
    [][\A t \in Threads :
         /\ pc[t] \in {"bash", "finish"} /\ pc'[t] = "use" /\ at[t] = Host
         /\ held'[t] \in opened'
         => held'[t] \in exported']_vars

(***************************************************************************)
(* The implementation of TerminalOwnership: a terminal belongs to the      *)
(* thread that has it in hand or under its key of _bash, the control       *)
(* terminal to the cluster (NoThread stands for it), and no terminal goes  *)
(* from one to the other, whatever the interleaving of lookups, timeouts,  *)
(* restarts and exits.                                                     *)
(***************************************************************************)
Owns(t, s) == held[t] = s \/ \E n \in Places : bash[t][n] = s

OwnerOf(s) ==
    IF s = control THEN NoThread
    ELSE IF \E t \in Threads : Owns(t, s) THEN CHOOSE t \in Threads : Owns(t, s)
    ELSE NoShell

Ownership == INSTANCE TerminalOwnership
    WITH Terminals <- Shells, Owners <- Threads \cup {NoThread},
         Nobody <- NoShell, owner <- [s \in Shells |-> OwnerOf(s)]

ImplementsOwnership == Ownership!Spec
=============================================================================

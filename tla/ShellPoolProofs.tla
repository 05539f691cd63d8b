--------------------------- MODULE ShellPoolProofs ---------------------------
(***************************************************************************)
(* Proofs about ShellPool for every number of threads, nodes, terminals    *)
(* and tries, and every suffix relation between node names.                *)
(***************************************************************************)
EXTENDS ShellPool, TLAPS

(***************************************************************************)
(* The parts of the inductive invariant.                                   *)
(***************************************************************************)

(* The lock is held exactly in the sections of bash() that keep it *)
LockInv == \A t \in Threads : pc[t] \in Locked <=> lock = t

(* A thread has a terminal in hand exactly when it is using one *)
HandInv ==
    \A t \in Threads :
        held[t] # NoShell <=> pc[t] \in {"use", "downpool", "private"}

(* A terminal is under one key only *)
PoolInv ==
    \A t, u \in Threads : \A n, m \in Places :
        bash[t][n] # NoShell /\ bash[t][n] = bash[u][m] => t = u /\ n = m

(* A terminal in hand is under no other thread's key *)
HeldInv ==
    \A t, u \in Threads : \A n \in Places :
        held[t] # NoShell /\ held[t] = bash[u][n] => t = u

(* The control terminal is under no key and in no hand *)
ControlInv ==
    control # NoShell =>
        \A t \in Threads : held[t] # control /\ \A n \in Places : bash[t][n] # control

(* A terminal that bash() is about to return is under the caller's key *)
FinishInv ==
    \A t \in Threads : pc[t] = "finish" => Mine(t) # NoShell

(* In the loop that opens a terminal the entry to be replaced is closed *)
OpenInv ==
    \A t \in Threads :
        /\ pc[t] = "bash" /\ via[t] = "shell" => at[t] # Host
        /\ pc[t] = "ident" /\ via[t] # "shell" => Mine(t) = NoShell
        /\ pc[t] = "open" => Mine(t) \notin opened

(* The steps of down() and __exit__ are the main thread's, alone *)
Leaving == {"downpool", "downctl", "final", "gone"}

LeaveInv ==
    \A t \in Threads :
        /\ pc[t] \in Leaving \/ via[t] = "down" =>
              t = Main /\ \A u \in Threads \ {Main} : pc[u] = "off"
        /\ via[t] = "down" => at[t] = Host /\ pc[t] \notin {"off", "idle"}

(* What is left open when the main thread is gone *)
GoneInv ==
    /\ leaving = "down" => pc[Main] \in {"final", "gone"} /\ control = NoShell
    /\ pc[Main] = "gone" =>
          \A t \in Threads : \A n \in Places : bash[t][n] \notin opened

IInv ==
    /\ TypeOK /\ LockInv /\ HandInv /\ PoolInv /\ HeldInv /\ ControlInv
    /\ FinishInv /\ OpenInv /\ LeaveInv /\ GoneInv /\ ThreadLocal /\ NoOrphan /\ KeptWhileUsed

-----------------------------------------------------------------------------
(***************************************************************************)
(* Names that actions assign are of the types of the variables.            *)
(***************************************************************************)
LEMMA Names ==
    /\ {"off", "idle", "bash", "ident", "open", "finish", "use", "close", "unique",
        "private", "downpool", "downctl", "final", "gone"} \subseteq Steps
    /\ {"command", "query", "shell", "down"} \subseteq Callers
    /\ Host \in Places /\ Nodes \subseteq Places
    /\ 0 \in 0..MaxTries
BY ShellPoolAssumption DEF Steps, Locked, Callers, Places

(* A thread's own entry is a terminal or nothing *)
LEMMA MineType ==
    ASSUME TypeOK, NEW t \in Threads
    PROVE  Mine(t) \in Shells \cup {NoShell}
BY DEF TypeOK, Mine

(* Changing it keeps the type of _bash *)
LEMMA SetMineType ==
    ASSUME TypeOK, NEW t \in Threads, NEW s \in Shells \cup {NoShell}, SetMine(t, s)
    PROVE  bash' \in [Threads -> [Places -> Shells \cup {NoShell}]]
BY DEF TypeOK, SetMine

(* Every way out of a request keeps the types of its variables *)
LEMMA RequestType ==
    ASSUME TypeOK, NEW t \in Threads
    PROVE  LET OK == /\ pc' \in [Threads -> Steps] /\ at' \in [Threads -> Places]
                     /\ via' \in [Threads -> Callers]
                     /\ tries' \in [Threads -> 0..MaxTries]
           IN  /\ \A step \in Steps : Goto(t, step) => OK
               /\ Return(t) => OK
               /\ Raise(t) => OK
               /\ Again(t) => OK /\ lock' \in {lock, NoThread}
               /\ \A n \in Places, v \in Callers : Ask(t, n, v) => OK
<1> DEFINE OK == /\ pc' \in [Threads -> Steps] /\ at' \in [Threads -> Places]
                 /\ via' \in [Threads -> Callers]
                 /\ tries' \in [Threads -> 0..MaxTries]
<1>1. ASSUME NEW step \in Steps, Goto(t, step) PROVE OK
  BY <1>1 DEF TypeOK, Goto
<1>2. ASSUME Return(t) PROVE OK
  BY <1>2, Names DEF TypeOK, Return
<1>3. ASSUME Raise(t) PROVE OK
  BY <1>1, <1>2, <1>3, Names DEF Raise
<1>4. ASSUME Again(t) PROVE OK /\ lock' \in {lock, NoThread}
  <2>1. CASE tries[t] < MaxTries /\ tries' = [tries EXCEPT ![t] = @ + 1]
             /\ UNCHANGED <<lock, pc, at, via>>
    <3>1. tries[t] + 1 \in 0..MaxTries
      BY <2>1, ShellPoolAssumption DEF TypeOK
    <3> QED BY <2>1, <3>1 DEF TypeOK
  <2>2. CASE lock' = NoThread /\ Raise(t)
    BY <2>2, <1>3
  <2> QED BY <1>4, <2>1, <2>2 DEF Again
<1>5. ASSUME NEW n \in Places, NEW v \in Callers, Ask(t, n, v) PROVE OK
  BY <1>5, Names DEF TypeOK, Ask
<1> QED BY <1>1, <1>2, <1>3, <1>4, <1>5

(* Every step keeps the types *)
LEMMA TypeNext ==
    ASSUME TypeOK, HandInv, FinishInv, [Next]_vars
    PROVE  TypeOK'
<1>1. ASSUME NEW t \in Threads,
             Acquire(t) \/ Work(t) \/ Spawn(t) \/ ThreadExit(t)
      PROVE  TypeOK'
  <2>1. CASE Hit(t)
    BY <2>1, Names, RequestType, MineType
       DEF TypeOK, Hit, Give, terminals, history
  <2>2. CASE Miss(t)
    BY <2>2, Names, RequestType DEF TypeOK, Miss, terminals, history
  <2>3. CASE CloseBash(t)
    BY <2>3, Names, RequestType, SetMineType DEF TypeOK, CloseBash, Exit, history
  <2>4. CASE Found(t)
    BY <2>4, Names, RequestType DEF TypeOK, Found, ControlShells, Fresh, history
  <2>5. CASE NotFound(t)
    BY <2>5, Names, RequestType
       DEF TypeOK, NotFound, ControlShells, Fresh, history
  <2>6. CASE LookupTimeout(t)
    BY <2>6, Names, RequestType DEF TypeOK, LookupTimeout, Exit, history
  <2>7. CASE LookupFails(t)
    BY <2>7, Names, RequestType DEF TypeOK, LookupFails, Exit, history
  <2>8. CASE Opens(t)
    BY <2>8, Names, RequestType, SetMineType DEF TypeOK, Opens, Fresh, history
  <2>9. CASE ProbeFails(t)
    BY <2>9, Names, RequestType, SetMineType
       DEF TypeOK, ProbeFails, Fresh, history
  <2>10. CASE CreateFails(t)
    BY <2>10, Names, RequestType DEF TypeOK, CreateFails, terminals, history
  <2>11. CASE ProbeIOError(t)
    BY <2>11, Names, RequestType, SetMineType
       DEF TypeOK, ProbeIOError, Fresh, history
  <2>12. CASE Finish(t)
    BY <2>12, Names, RequestType, MineType
       DEF TypeOK, Finish, FinishInv, Give, Export, history
  <2>13. CASE ExportTimeout(t)
    BY <2>13, Names, RequestType DEF TypeOK, ExportTimeout, terminals, history
  <2>14. CASE ExportFails(t)
    BY <2>14, Names, RequestType DEF TypeOK, ExportFails, Exit, history
  <2>15. CASE RunOk(t)
    BY <2>15, Names, RequestType DEF TypeOK, RunOk, Runs, HandInv, LetGo, history
  <2>16. CASE RunTimeout(t)
    BY <2>16, Names, RequestType DEF TypeOK, RunTimeout, Runs, HandInv, LetGo, history
  <2>17. CASE RunFails(t)
    BY <2>17, Names, RequestType DEF TypeOK, RunFails, Exit, LetGo, history
  <2>18. CASE UniqueOpens(t)
    BY <2>18, Names, RequestType DEF TypeOK, UniqueOpens, Fresh, history
  <2>19. CASE UniqueFails(t)
    BY <2>19, Names, RequestType DEF TypeOK, UniqueFails, terminals, history
  <2>20. CASE UniqueExit(t)
    BY <2>20, Names, RequestType DEF TypeOK, UniqueExit, Exit, LetGo, history
  <2>21. CASE Spawn(t)
    BY <2>21, Names, RequestType DEF TypeOK, Spawn, terminals, history
  <2>22. CASE ThreadExit(t)
    BY <2>22, Names, RequestType DEF TypeOK, ThreadExit, terminals, history
  <2> QED
    BY <1>1, <2>1, <2>2, <2>3, <2>4, <2>5, <2>6, <2>7, <2>8, <2>9, <2>10, <2>11,
       <2>12, <2>13, <2>14, <2>15, <2>16, <2>17, <2>18, <2>19, <2>20, <2>21,
       <2>22
       DEF Acquire, Work
<1>2. ASSUME NEW t \in Threads, NEW n \in Places,
             NEW v \in {"command", "query", "shell"}, Call(t, n, v)
      PROVE  TypeOK'
  BY <1>2, Names, RequestType DEF TypeOK, Call, terminals, history
<1>3. ASSUME NEW t \in Threads, NEW n \in Nodes, CloseBashes(t, n)
      PROVE  TypeOK'
  BY <1>3, Names, RequestType DEF TypeOK, CloseBashes, Exit
<1>4. CASE Down
  BY <1>4, Names, RequestType, ShellPoolAssumption
     DEF TypeOK, Down, terminals, history
<1>5. CASE DownSkipped
  BY <1>5, Names, RequestType, ShellPoolAssumption
     DEF TypeOK, DownSkipped, terminals, history
<1>6. CASE DownPool
  BY <1>6, Names, RequestType, ShellPoolAssumption
     DEF TypeOK, DownPool, Exit, history
<1>7. CASE DownControl
  BY <1>7, Names, RequestType, ShellPoolAssumption DEF TypeOK, DownControl, Exit
<1>8. CASE Final
  BY <1>8, Names, RequestType, ShellPoolAssumption
     DEF TypeOK, Final, Exit, history
<1>9. CASE UNCHANGED vars
  BY <1>9 DEF TypeOK, vars
<1> QED
  BY <1>1, <1>2, <1>3, <1>4, <1>5, <1>6, <1>7, <1>8, <1>9
     DEF Next, Leave, Terminated

(* What the proofs below use of the assumptions *)
LEMMA Basics ==
    Main \in Threads /\ NoThread \notin Threads /\ NoShell \notin Shells
BY ShellPoolAssumption

(* A thread that raises, returns or goes round a loop changes nothing of   *)
(* the others' requests.                                                   *)
Apart(t) ==
    \A u \in Threads : u # t => pc'[u] = pc[u] /\ at'[u] = at[u] /\ via'[u] = via[u]

(* A request ends with the lock released, or goes on as it was *)
LEMMA Outcome ==
    ASSUME TypeOK, NEW t \in Threads
    PROVE  /\ Return(t) => Apart(t) /\ pc'[t] = "idle"
           /\ Raise(t) => Apart(t) /\ pc'[t] \in {"idle", "final"}
           /\ Again(t) => /\ Apart(t)
                          /\ \/ pc'[t] = pc[t] /\ lock' = lock
                             \/ pc'[t] \in {"idle", "final"} /\ lock' = NoThread
<1>1. Return(t) => Apart(t) /\ pc'[t] = "idle"
  BY DEF TypeOK, Return, Apart
<1>2. Raise(t) => Apart(t) /\ pc'[t] \in {"idle", "final"}
  BY <1>1 DEF TypeOK, Raise, Goto, Apart
<1>3. Again(t) => /\ Apart(t)
                  /\ \/ pc'[t] = pc[t] /\ lock' = lock
                     \/ pc'[t] \in {"idle", "final"} /\ lock' = NoThread
  BY <1>2 DEF Again, Apart
<1> QED BY <1>1, <1>2, <1>3

(* Changing a thread's own entry leaves the others' alone *)
LEMMA SetMineApart ==
    ASSUME TypeOK, NEW t \in Threads, NEW s, SetMine(t, s)
    PROVE  \A u \in Threads : u # t => bash'[u] = bash[u]
BY DEF TypeOK, SetMine

(* Every step keeps who holds the lock and who has a terminal in hand *)
LEMMA FlowNext ==
    ASSUME TypeOK, LockInv, HandInv, FinishInv, [Next]_vars
    PROVE  LockInv' /\ HandInv'
<1>1. ASSUME NEW t \in Threads,
             Acquire(t) \/ Work(t) \/ Spawn(t) \/ ThreadExit(t)
      PROVE  LockInv' /\ HandInv'
  <2>1. CASE Hit(t)
    BY <2>1, Basics DEF TypeOK, LockInv, HandInv, Locked, Hit, Give, Goto
  <2>2. CASE Miss(t)
    BY <2>2, Basics DEF TypeOK, LockInv, HandInv, Locked, Miss, Goto
  <2>3. CASE CloseBash(t)
    BY <2>3, Basics, Outcome DEF LockInv, HandInv, Locked, CloseBash, Apart
  <2>4. CASE Found(t)
    BY <2>4, Basics DEF TypeOK, LockInv, HandInv, Locked, Found
  <2>5. CASE NotFound(t)
    BY <2>5, Basics, Outcome DEF LockInv, HandInv, Locked, NotFound, Apart
  <2>6. CASE LookupTimeout(t)
    BY <2>6, Basics, Outcome DEF LockInv, HandInv, Locked, LookupTimeout, Apart
  <2>7. CASE LookupFails(t)
    BY <2>7, Basics, Outcome DEF LockInv, HandInv, Locked, LookupFails, Apart
  <2>8. CASE Opens(t)
    BY <2>8, Basics DEF TypeOK, LockInv, HandInv, Locked, Opens, Goto
  <2>9. CASE ProbeFails(t)
    BY <2>9, Basics, Outcome DEF LockInv, HandInv, Locked, ProbeFails, Apart
  <2>10. CASE CreateFails(t)
    BY <2>10, Basics, Outcome DEF LockInv, HandInv, Locked, CreateFails, Apart
  <2>11. CASE ProbeIOError(t)
    BY <2>11, Basics, Outcome DEF LockInv, HandInv, Locked, ProbeIOError, Apart
  <2>12. CASE Finish(t)
    BY <2>12, Basics
       DEF TypeOK, LockInv, HandInv, Locked, Finish, Give, Goto, FinishInv
  <2>13. CASE ExportTimeout(t)
    BY <2>13, Basics, Outcome
       DEF TypeOK, LockInv, HandInv, Locked, ExportTimeout, Apart, Goto
  <2>14. CASE ExportFails(t)
    BY <2>14, Basics, Outcome DEF LockInv, HandInv, Locked, ExportFails, Apart
  <2>15. CASE RunOk(t)
    BY <2>15, Basics
       DEF TypeOK, LockInv, HandInv, Locked, RunOk, Runs, LetGo, Return, Goto
  <2>16. CASE RunTimeout(t)
    BY <2>16, Basics DEF TypeOK, LockInv, HandInv, Locked, RunTimeout, Runs, LetGo, Goto
  <2>17. CASE RunFails(t)
    BY <2>17, Basics, Outcome
       DEF TypeOK, LockInv, HandInv, Locked, RunFails, LetGo, Apart
  <2>18. CASE UniqueOpens(t)
    BY <2>18, Basics
       DEF TypeOK, LockInv, HandInv, Locked, UniqueOpens, Fresh, Goto
  <2>19. CASE UniqueFails(t)
    BY <2>19, Basics DEF TypeOK, LockInv, HandInv, Locked, UniqueFails, Return
  <2>20. CASE UniqueExit(t)
    BY <2>20, Basics, Outcome
       DEF TypeOK, LockInv, HandInv, Locked, UniqueExit, LetGo, Apart
  <2>21. CASE Spawn(t)
    BY <2>21, Basics DEF TypeOK, LockInv, HandInv, Locked, Spawn, Goto
  <2>22. CASE ThreadExit(t)
    BY <2>22, Basics DEF TypeOK, LockInv, HandInv, Locked, ThreadExit, Goto
  <2> QED
    BY <1>1, <2>1, <2>2, <2>3, <2>4, <2>5, <2>6, <2>7, <2>8, <2>9, <2>10, <2>11,
       <2>12, <2>13, <2>14, <2>15, <2>16, <2>17, <2>18, <2>19, <2>20, <2>21,
       <2>22
       DEF Acquire, Work
<1>2. ASSUME NEW t \in Threads, NEW n \in Places,
             NEW v \in {"command", "query", "shell"}, Call(t, n, v)
      PROVE  LockInv' /\ HandInv'
  BY <1>2, Basics DEF TypeOK, LockInv, HandInv, Locked, Call, Ask
<1>3. ASSUME NEW t \in Threads, NEW n \in Nodes, CloseBashes(t, n)
      PROVE  LockInv' /\ HandInv'
  BY <1>3, Basics DEF TypeOK, LockInv, HandInv, Locked, CloseBashes, Ask
<1>4. CASE Down
  BY <1>4, Basics DEF TypeOK, LockInv, HandInv, Locked, Down, Joined, Ask
<1>5. CASE DownSkipped
  BY <1>5, Basics DEF TypeOK, LockInv, HandInv, Locked, DownSkipped, Joined, Goto
<1>6. CASE DownPool
  BY <1>6, Basics DEF TypeOK, LockInv, HandInv, Locked, DownPool, Goto
<1>7. CASE DownControl
  BY <1>7, Basics DEF TypeOK, LockInv, HandInv, Locked, DownControl, Goto
<1>8. CASE Final
  BY <1>8, Basics DEF TypeOK, LockInv, HandInv, Locked, Final, Goto
<1>9. CASE UNCHANGED vars
  BY <1>9 DEF vars, TypeOK, LockInv, HandInv, Locked
<1> QED
  BY <1>1, <1>2, <1>3, <1>4, <1>5, <1>6, <1>7, <1>8, <1>9
     DEF Next, Leave, Terminated

(* Only the main thread leaves, when the others have exited *)
LEMMA LeaveNext ==
    ASSUME TypeOK, LeaveInv, [Next]_vars
    PROVE  LeaveInv'
<1>1. ASSUME NEW t \in Threads,
             Acquire(t) \/ Work(t) \/ Spawn(t) \/ ThreadExit(t)
      PROVE  LeaveInv'
  <2>1. CASE Hit(t)
    BY <2>1, Basics DEF TypeOK, LeaveInv, Leaving, Hit, Give, Goto
  <2>2. CASE Miss(t)
    BY <2>2, Basics DEF TypeOK, LeaveInv, Leaving, Miss, Goto
  <2>3. CASE CloseBash(t)
    BY <2>3, Basics DEF TypeOK, LeaveInv, Leaving, CloseBash, Raise, Return, Goto
  <2>4. CASE Found(t)
    BY <2>4, Basics DEF TypeOK, LeaveInv, Leaving, Found
  <2>5. CASE NotFound(t)
    BY <2>5, Basics
       DEF TypeOK, LeaveInv, Leaving, NotFound, Again, Raise, Return, Goto
  <2>6. CASE LookupTimeout(t)
    BY <2>6, Basics
       DEF TypeOK, LeaveInv, Leaving, LookupTimeout, Again, Raise, Return, Goto
  <2>7. CASE LookupFails(t)
    BY <2>7, Basics
       DEF TypeOK, LeaveInv, Leaving, LookupFails, Raise, Return, Goto
  <2>8. CASE Opens(t)
    BY <2>8, Basics DEF TypeOK, LeaveInv, Leaving, Opens, Goto
  <2>9. CASE ProbeFails(t)
    BY <2>9, Basics
       DEF TypeOK, LeaveInv, Leaving, ProbeFails, Again, Raise, Return, Goto
  <2>10. CASE CreateFails(t)
    BY <2>10, Basics
       DEF TypeOK, LeaveInv, Leaving, CreateFails, Again, Raise, Return, Goto
  <2>11. CASE ProbeIOError(t)
    BY <2>11, Basics
       DEF TypeOK, LeaveInv, Leaving, ProbeIOError, Raise, Return, Goto
  <2>12. CASE Finish(t)
    BY <2>12, Basics DEF TypeOK, LeaveInv, Leaving, Finish, Give, Goto
  <2>13. CASE ExportTimeout(t)
    BY <2>13, Basics
       DEF TypeOK, LeaveInv, Leaving, ExportTimeout, Raise, Return, Goto
  <2>14. CASE ExportFails(t)
    BY <2>14, Basics
       DEF TypeOK, LeaveInv, Leaving, ExportFails, Raise, Return, Goto
  <2>15. CASE RunOk(t)
    BY <2>15, Basics DEF TypeOK, LeaveInv, Leaving, RunOk, Runs, LetGo, Return, Goto
  <2>16. CASE RunTimeout(t)
    BY <2>16, Basics DEF TypeOK, LeaveInv, Leaving, RunTimeout, Runs, LetGo, Goto
  <2>17. CASE RunFails(t)
    BY <2>17, Basics
       DEF TypeOK, LeaveInv, Leaving, RunFails, LetGo, Raise, Return, Goto
  <2>18. CASE UniqueOpens(t)
    BY <2>18, Basics DEF TypeOK, LeaveInv, Leaving, UniqueOpens, Fresh, Goto
  <2>19. CASE UniqueFails(t)
    BY <2>19, Basics DEF TypeOK, LeaveInv, Leaving, UniqueFails, Return
  <2>20. CASE UniqueExit(t)
    BY <2>20, Basics DEF TypeOK, LeaveInv, Leaving, UniqueExit, LetGo, Return
  <2>21. CASE Spawn(t)
    BY <2>21, Basics DEF TypeOK, LeaveInv, Leaving, Spawn, Goto
  <2>22. CASE ThreadExit(t)
    BY <2>22, Basics DEF TypeOK, LeaveInv, Leaving, ThreadExit, Goto
  <2> QED
    BY <1>1, <2>1, <2>2, <2>3, <2>4, <2>5, <2>6, <2>7, <2>8, <2>9, <2>10, <2>11,
       <2>12, <2>13, <2>14, <2>15, <2>16, <2>17, <2>18, <2>19, <2>20, <2>21,
       <2>22
       DEF Acquire, Work
<1>2. ASSUME NEW t \in Threads, NEW n \in Places,
             NEW v \in {"command", "query", "shell"}, Call(t, n, v)
      PROVE  LeaveInv'
  BY <1>2, Basics DEF TypeOK, LeaveInv, Leaving, Call, Ask
<1>3. ASSUME NEW t \in Threads, NEW n \in Nodes, CloseBashes(t, n)
      PROVE  LeaveInv'
  BY <1>3, Basics DEF TypeOK, LeaveInv, Leaving, CloseBashes, Ask
<1>4. CASE Down
  BY <1>4, Basics DEF TypeOK, LeaveInv, Leaving, Down, Joined, Ask
<1>5. CASE DownSkipped
  BY <1>5, Basics DEF TypeOK, LeaveInv, Leaving, DownSkipped, Joined, Goto
<1>6. CASE DownPool
  BY <1>6, Basics DEF TypeOK, LeaveInv, Leaving, DownPool, Goto
<1>7. CASE DownControl
  BY <1>7, Basics DEF TypeOK, LeaveInv, Leaving, DownControl, Goto
<1>8. CASE Final
  BY <1>8, Basics DEF TypeOK, LeaveInv, Leaving, Final, Goto
<1>9. CASE UNCHANGED vars
  BY <1>9 DEF vars, TypeOK, LeaveInv, Leaving
<1> QED
  BY <1>1, <1>2, <1>3, <1>4, <1>5, <1>6, <1>7, <1>8, <1>9
     DEF Next, Leave, Terminated

-----------------------------------------------------------------------------
(***************************************************************************)
(* The five things a step can do to who has which terminal.                *)
(***************************************************************************)

(* nothing, or terminals are taken out of _bash, of hands, of control *)
Drops ==
    /\ \A t \in Threads : \A n \in Places : bash'[t][n] \in {bash[t][n], NoShell}
    /\ \A t \in Threads : held'[t] \in {held[t], NoShell}
    /\ control' \in {control, NoShell}

(* bash() returns the caller's terminal; stale ones may be dropped *)
Gives(t) ==
    /\ \A u \in Threads : \A n \in Places : bash'[u][n] \in {bash[u][n], NoShell}
    /\ Mine(t) # NoShell /\ bash'[t] = bash[t]
    /\ \A u \in Threads : held'[u] = IF u = t THEN Mine(t) ELSE held[u]
    /\ control' = control

(* a new terminal is put under the caller's key *)
Pools(t, s) ==
    /\ \A u \in Threads : \A n \in Places :
          bash'[u][n] = IF u = t /\ n = at[t] THEN s ELSE bash[u][n]
    /\ UNCHANGED <<held, control>>

(* a new control terminal *)
Controls(s) ==
    /\ control = NoShell /\ control' = s
    /\ UNCHANGED <<bash, held>>

(* a new terminal in the hands of the caller only *)
Takes(t, s) ==
    /\ \A u \in Threads : held'[u] = IF u = t THEN s ELSE held[u]
    /\ held[t] = NoShell
    /\ UNCHANGED <<bash, control>>

Shape ==
    \/ Drops
    \/ \E t \in Threads : Gives(t)
    \/ \E s \in Fresh : Controls(s)
    \/ \E t \in Threads, s \in Fresh : Pools(t, s) \/ Takes(t, s)

(* Every step has one of these shapes *)
LEMMA StepShape ==
    ASSUME TypeOK, HandInv, FinishInv, [Next]_vars
    PROVE  Shape
<1>1. ASSUME NEW t \in Threads,
             Acquire(t) \/ Work(t) \/ Spawn(t) \/ ThreadExit(t)
      PROVE  Shape
  <2>1. ASSUME Hit(t) PROVE Gives(t)
    BY <2>1 DEF TypeOK, Hit, Gives, Give, terminals
  <2>2. ASSUME Miss(t) PROVE Drops
    BY <2>2 DEF TypeOK, Miss, Drops, terminals
  <2>3. ASSUME CloseBash(t) PROVE Drops
    BY <2>3 DEF TypeOK, CloseBash, SetMine, Drops
  <2>4. ASSUME Found(t) PROVE Drops \/ \E s \in Fresh : Controls(s)
    BY <2>4 DEF TypeOK, Found, ControlShells, Drops, Controls
  <2>5. ASSUME NotFound(t) PROVE Drops \/ \E s \in Fresh : Controls(s)
    BY <2>5 DEF TypeOK, NotFound, ControlShells, Drops, Controls
  <2>6. ASSUME LookupTimeout(t) PROVE Drops
    BY <2>6 DEF TypeOK, LookupTimeout, Drops
  <2>7. ASSUME LookupFails(t) PROVE Drops
    BY <2>7 DEF TypeOK, LookupFails, Drops
  <2>8. ASSUME Opens(t) PROVE \E s \in Fresh : Pools(t, s)
    BY <2>8 DEF TypeOK, Opens, SetMine, Pools
  <2>9. ASSUME ProbeFails(t) PROVE \E s \in Fresh : Pools(t, s)
    BY <2>9 DEF TypeOK, ProbeFails, SetMine, Pools
  <2>10. ASSUME CreateFails(t) PROVE Drops
    BY <2>10 DEF TypeOK, CreateFails, Drops, terminals
  <2>11. ASSUME ProbeIOError(t) PROVE \E s \in Fresh : Pools(t, s)
    BY <2>11 DEF TypeOK, ProbeIOError, SetMine, Pools
  <2>12. ASSUME Finish(t) PROVE Gives(t)
    BY <2>12 DEF TypeOK, Finish, Stale, FinishInv, Gives, Give
  <2>13. ASSUME ExportTimeout(t) PROVE Drops
    BY <2>13 DEF TypeOK, ExportTimeout, Drops, terminals
  <2>14. ASSUME ExportFails(t) PROVE Drops
    BY <2>14 DEF TypeOK, ExportFails, Drops
  <2>15. ASSUME RunOk(t) PROVE Drops
    BY <2>15 DEF TypeOK, RunOk, Runs, LetGo, Drops
  <2>16. ASSUME RunTimeout(t) PROVE Drops
    BY <2>16 DEF TypeOK, RunTimeout, Runs, LetGo, Drops
  <2>17. ASSUME RunFails(t) PROVE Drops
    BY <2>17 DEF TypeOK, RunFails, LetGo, Drops
  <2>18. ASSUME UniqueOpens(t) PROVE \E s \in Fresh : Takes(t, s)
    BY <2>18 DEF TypeOK, UniqueOpens, HandInv, Takes
  <2>19. ASSUME UniqueFails(t) PROVE Drops
    BY <2>19 DEF TypeOK, UniqueFails, Drops, terminals
  <2>20. ASSUME UniqueExit(t) PROVE Drops
    BY <2>20 DEF TypeOK, UniqueExit, LetGo, Drops
  <2>21. ASSUME Spawn(t) PROVE Drops
    BY <2>21 DEF TypeOK, Spawn, Drops, terminals
  <2>22. ASSUME ThreadExit(t) PROVE Drops
    BY <2>22 DEF TypeOK, ThreadExit, Drops, terminals
  <2> QED
    BY <1>1, <2>1, <2>2, <2>3, <2>4, <2>5, <2>6, <2>7, <2>8, <2>9, <2>10, <2>11,
       <2>12, <2>13, <2>14, <2>15, <2>16, <2>17, <2>18, <2>19, <2>20, <2>21,
       <2>22
       DEF Acquire, Work, Shape
<1>2. ASSUME NEW t \in Threads, NEW n \in Places,
             NEW v \in {"command", "query", "shell"}, Call(t, n, v)
      PROVE  Drops
  BY <1>2 DEF TypeOK, Call, Drops, terminals
<1>3. ASSUME NEW t \in Threads, NEW n \in Nodes, CloseBashes(t, n)
      PROVE  Drops
  BY <1>3 DEF TypeOK, CloseBashes, Drops
<1>4. ASSUME Down \/ DownSkipped PROVE Drops
  BY <1>4 DEF TypeOK, Down, DownSkipped, Drops, terminals
<1>5. ASSUME DownPool PROVE Drops
  BY <1>5 DEF TypeOK, DownPool, Drops
<1>6. ASSUME DownControl PROVE Drops
  BY <1>6 DEF TypeOK, DownControl, Drops
<1>7. ASSUME Final PROVE Drops
  BY <1>7 DEF TypeOK, Final, Drops
<1>8. ASSUME UNCHANGED vars PROVE Drops
  BY <1>8 DEF vars, Drops
<1> QED
  BY <1>1, <1>2, <1>3, <1>4, <1>5, <1>6, <1>7, <1>8
     DEF Next, Leave, Terminated, Shape


OwnInv == PoolInv /\ HeldInv /\ ControlInv /\ ThreadLocal

(* Whatever its shape, a step keeps every terminal with one owner *)
LEMMA OwnNext ==
    ASSUME TypeOK, TypeOK', OwnInv, Shape
    PROVE  OwnInv'
<1> USE DEF TypeOK, OwnInv
<1>1. CASE Drops
  <2>1. PoolInv' BY <1>1 DEF Drops, PoolInv
  <2>2. HeldInv' BY <1>1 DEF Drops, HeldInv
  <2>3. ControlInv' BY <1>1 DEF Drops, ControlInv
  <2>4. ThreadLocal' BY <1>1 DEF Drops, ThreadLocal
  <2> QED BY <2>1, <2>2, <2>3, <2>4
<1>2. ASSUME NEW t \in Threads, Gives(t) PROVE OwnInv'
  <2>1. PoolInv' BY <1>2 DEF Gives, PoolInv
  <2>2. HeldInv' BY <1>2 DEF Gives, HeldInv, PoolInv, Mine
  <2>3. ControlInv' BY <1>2 DEF Gives, ControlInv, Mine
  <2>4. ThreadLocal'
    <3>1. Mine(t) # control BY <1>2 DEF Gives, ControlInv, Mine
    <3>2. \A u \in Threads : held[u] = Mine(t) => u = t
      BY <1>2 DEF Gives, HeldInv, Mine
    <3> QED BY <1>2, <3>1, <3>2 DEF Gives, ThreadLocal
  <2> QED BY <2>1, <2>2, <2>3, <2>4
<1>3. ASSUME NEW s \in Fresh, Controls(s) PROVE OwnInv'
  <2>1. PoolInv' BY <1>3 DEF Controls, PoolInv
  <2>2. HeldInv' BY <1>3 DEF Controls, HeldInv
  <2>3. ControlInv' BY <1>3 DEF Controls, ControlInv, Fresh, Referenced
  <2>4. ThreadLocal' BY <1>3 DEF Controls, ThreadLocal, Fresh, Referenced
  <2> QED BY <2>1, <2>2, <2>3, <2>4
<1>4. ASSUME NEW t \in Threads, NEW s \in Fresh, Pools(t, s) PROVE OwnInv'
  <2>1. PoolInv' BY <1>4 DEF Pools, PoolInv, Fresh, Referenced
  <2>2. HeldInv' BY <1>4 DEF Pools, HeldInv, Fresh, Referenced
  <2>3. ControlInv' BY <1>4 DEF Pools, ControlInv, Fresh, Referenced
  <2>4. ThreadLocal' BY <1>4 DEF Pools, ThreadLocal
  <2> QED BY <2>1, <2>2, <2>3, <2>4
<1>5. ASSUME NEW t \in Threads, NEW s \in Fresh, Takes(t, s) PROVE OwnInv'
  <2>1. PoolInv' BY <1>5 DEF Takes, PoolInv
  <2>2. HeldInv' BY <1>5 DEF Takes, HeldInv, Fresh, Referenced
  <2>3. ControlInv' BY <1>5 DEF Takes, ControlInv, Fresh, Referenced
  <2>4. ThreadLocal' BY <1>5 DEF Takes, ThreadLocal, Fresh, Referenced
  <2> QED BY <2>1, <2>2, <2>3, <2>4
<1> QED BY <1>1, <1>2, <1>3, <1>4, <1>5 DEF Shape

(* A terminal about to be returned stays where it is: the lock is held *)
LEMMA FinishNext ==
    ASSUME TypeOK, LockInv, FinishInv, [Next]_vars
    PROVE  FinishInv'
<1>1. ASSUME NEW t \in Threads,
             Acquire(t) \/ Work(t) \/ Spawn(t) \/ ThreadExit(t)
      PROVE  FinishInv'
  <2>1. CASE Hit(t)
    BY <2>1, Basics
       DEF TypeOK, LockInv, Locked, FinishInv, Mine, Hit, Give, Goto, terminals
  <2>2. CASE Miss(t)
    BY <2>2, Basics
       DEF TypeOK, LockInv, Locked, FinishInv, Mine, Miss, Goto, terminals
  <2>3. CASE CloseBash(t)
    BY <2>3, Basics, Outcome
       DEF TypeOK, LockInv, Locked, FinishInv, Mine, CloseBash, Apart, SetMine
  <2>4. CASE Found(t)
    BY <2>4, Basics DEF TypeOK, LockInv, Locked, FinishInv, Mine, Found
  <2>5. CASE NotFound(t)
    BY <2>5, Basics, Outcome DEF LockInv, Locked, FinishInv, Mine, NotFound, Apart
  <2>6. CASE LookupTimeout(t)
    BY <2>6, Basics, Outcome
       DEF LockInv, Locked, FinishInv, Mine, LookupTimeout, Apart
  <2>7. CASE LookupFails(t)
    BY <2>7, Basics, Outcome
       DEF LockInv, Locked, FinishInv, Mine, LookupFails, Apart
  <2>8. CASE Opens(t)
    BY <2>8, Basics
       DEF TypeOK, LockInv, Locked, FinishInv, Mine, Opens, Goto, SetMine, Fresh
  <2>9. CASE ProbeFails(t)
    BY <2>9, Basics, Outcome
       DEF TypeOK, LockInv, Locked, FinishInv, Mine, ProbeFails, Apart, SetMine
  <2>10. CASE CreateFails(t)
    BY <2>10, Basics, Outcome
       DEF LockInv, Locked, FinishInv, Mine, CreateFails, Apart, terminals
  <2>11. CASE ProbeIOError(t)
    BY <2>11, Basics, Outcome
       DEF TypeOK, LockInv, Locked, FinishInv, Mine, ProbeIOError, Apart,
           SetMine
  <2>12. CASE Finish(t)
    BY <2>12, Basics
       DEF TypeOK, LockInv, Locked, FinishInv, Mine, Finish, Give, Goto, Stale
  <2>13. CASE ExportTimeout(t)
    BY <2>13, Basics
       DEF TypeOK, LockInv, Locked, FinishInv, Mine, ExportTimeout, Raise,
           Return, Goto, terminals
  <2>14. CASE ExportFails(t)
    BY <2>14, Basics, Outcome
       DEF LockInv, Locked, FinishInv, Mine, ExportFails, Apart
  <2>15. CASE RunOk(t)
    BY <2>15, Basics
       DEF TypeOK, LockInv, Locked, FinishInv, Mine, RunOk, Runs, LetGo, Return, Goto
  <2>16. CASE RunTimeout(t)
    BY <2>16, Basics
       DEF TypeOK, LockInv, Locked, FinishInv, Mine, RunTimeout, Runs, LetGo, Goto
  <2>17. CASE RunFails(t)
    BY <2>17, Basics, Outcome
       DEF LockInv, Locked, FinishInv, Mine, RunFails, LetGo, Apart
  <2>18. CASE UniqueOpens(t)
    BY <2>18, Basics
       DEF TypeOK, LockInv, Locked, FinishInv, Mine, UniqueOpens, Fresh, Goto
  <2>19. CASE UniqueFails(t)
    BY <2>19, Basics
       DEF TypeOK, LockInv, Locked, FinishInv, Mine, UniqueFails, Return,
           terminals
  <2>20. CASE UniqueExit(t)
    BY <2>20, Basics, Outcome
       DEF LockInv, Locked, FinishInv, Mine, UniqueExit, LetGo, Apart
  <2>21. CASE Spawn(t)
    BY <2>21, Basics
       DEF TypeOK, LockInv, Locked, FinishInv, Mine, Spawn, Goto, terminals
  <2>22. CASE ThreadExit(t)
    BY <2>22, Basics
       DEF TypeOK, LockInv, Locked, FinishInv, Mine, ThreadExit, Goto, terminals
  <2> QED
    BY <1>1, <2>1, <2>2, <2>3, <2>4, <2>5, <2>6, <2>7, <2>8, <2>9, <2>10, <2>11,
       <2>12, <2>13, <2>14, <2>15, <2>16, <2>17, <2>18, <2>19, <2>20, <2>21,
       <2>22
       DEF Acquire, Work
<1>2. ASSUME NEW t \in Threads, NEW n \in Places,
             NEW v \in {"command", "query", "shell"}, Call(t, n, v)
      PROVE  FinishInv'
  BY <1>2, Basics
     DEF TypeOK, LockInv, Locked, FinishInv, Mine, Call, Ask, terminals
<1>3. ASSUME NEW t \in Threads, NEW n \in Nodes, CloseBashes(t, n)
      PROVE  FinishInv'
  BY <1>3, Basics DEF TypeOK, LockInv, Locked, FinishInv, Mine, CloseBashes, Ask
<1>4. CASE Down
  BY <1>4, Basics
     DEF TypeOK, LockInv, Locked, FinishInv, Mine, Down, Joined, Ask, terminals
<1>5. CASE DownSkipped
  BY <1>5, Basics
     DEF TypeOK, LockInv, Locked, FinishInv, Mine, DownSkipped, Joined, Goto,
         terminals
<1>6. CASE DownPool
  BY <1>6, Basics DEF TypeOK, LockInv, Locked, FinishInv, Mine, DownPool, Goto
<1>7. CASE DownControl
  BY <1>7, Basics DEF TypeOK, LockInv, Locked, FinishInv, Mine, DownControl, Goto
<1>8. CASE Final
  BY <1>8, Basics DEF TypeOK, LockInv, Locked, FinishInv, Mine, Final, Goto
<1>9. CASE UNCHANGED vars
  BY <1>9 DEF vars, TypeOK, LockInv, Locked, FinishInv, Mine
<1> QED
  BY <1>1, <1>2, <1>3, <1>4, <1>5, <1>6, <1>7, <1>8, <1>9
     DEF Next, Leave, Terminated

(* What a thread does outside of "use" is no matter to the others' terminals *)
LEMMA KeptByOthers ==
    ASSUME KeptWhileUsed, NEW t \in Threads, Apart(t),
           pc'[t] \notin {"use", "downpool"}, restarted' = restarted,
           \A u \in Threads : u # t =>
              /\ bash'[u] = bash[u] /\ held'[u] = held[u]
              /\ held[u] \in opened' => held[u] \in opened
    PROVE  KeptWhileUsed'
<1> SUFFICES ASSUME NEW u \in Threads, pc'[u] \in {"use", "downpool"}
             PROVE  \/ Mine(u)' = held'[u]
                    \/ held'[u] \notin opened' /\ \E n \in restarted' : at'[u] \in Matches[n]
  BY DEF KeptWhileUsed
<1>1. u # t OBVIOUS
<1>2. pc[u] \in {"use", "downpool"} /\ at'[u] = at[u] BY <1>1 DEF Apart
<1> QED BY <1>1, <1>2 DEF KeptWhileUsed, Mine

(* A terminal in use is taken away by close_bashes() only, and closed *)
LEMMA KeptNext ==
    ASSUME TypeOK, HandInv, LeaveInv, ThreadLocal, KeptWhileUsed, [Next]_vars
    PROVE  KeptWhileUsed'
<1>1. ASSUME NEW t \in Threads,
             Acquire(t) \/ Work(t) \/ Spawn(t) \/ ThreadExit(t)
      PROVE  KeptWhileUsed'
  <2>1. CASE Hit(t)
    BY <2>1, Basics
       DEF TypeOK, KeptWhileUsed, Mine, history, Hit, Give, Goto, terminals
  <2>2. CASE Miss(t)
    BY <2>2, Basics
       DEF TypeOK, KeptWhileUsed, Mine, history, Miss, Goto, terminals
  <2>3. CASE CloseBash(t)
    BY <2>3, Outcome, SetMineApart, KeptByOthers DEF CloseBash, history, Exit
  <2>4. CASE Found(t)
    BY <2>4, Basics
       DEF TypeOK, KeptWhileUsed, Mine, history, Found, Fresh, Referenced,
           ControlShells, ThreadLocal, HandInv
  <2>5. CASE NotFound(t)
    BY <2>5, Basics, Outcome
       DEF KeptWhileUsed, Mine, history, NotFound, Apart, Fresh, Referenced,
           ControlShells, ThreadLocal, HandInv
  <2>6. CASE LookupTimeout(t)
    BY <2>6, Basics, Outcome
       DEF KeptWhileUsed, Mine, history, LookupTimeout, Apart, Exit
  <2>7. CASE LookupFails(t)
    BY <2>7, Basics, Outcome
       DEF KeptWhileUsed, Mine, history, LookupFails, Apart, Exit
  <2>8. CASE Opens(t)
    BY <2>8, Basics
       DEF TypeOK, KeptWhileUsed, Mine, history, Opens, Goto, SetMine, Fresh,
           Referenced
  <2>9. CASE ProbeFails(t)
    BY <2>9, Outcome, SetMineApart, KeptByOthers DEF ProbeFails, history
  <2>10. CASE CreateFails(t)
    BY <2>10, Basics, Outcome
       DEF KeptWhileUsed, Mine, history, CreateFails, Apart, terminals
  <2>11. CASE ProbeIOError(t)
    BY <2>11, Outcome, SetMineApart, KeptByOthers DEF ProbeIOError, history
  <2>12. CASE Finish(t)
    BY <2>12, Basics
       DEF TypeOK, KeptWhileUsed, Mine, history, Finish, Give, Goto, Stale
  <2>13. CASE ExportTimeout(t)
    BY <2>13, Basics, Outcome
       DEF TypeOK, KeptWhileUsed, Mine, history, ExportTimeout, Apart, Goto,
           terminals
  <2>14. CASE ExportFails(t)
    BY <2>14, Basics, Outcome
       DEF KeptWhileUsed, Mine, history, ExportFails, Apart, Exit
  <2>15. CASE RunOk(t)
    BY <2>15, Basics
       DEF TypeOK, KeptWhileUsed, Mine, history, RunOk, Runs, LetGo, Return, Goto,
           ThreadLocal, HandInv
  <2>16. CASE RunTimeout(t)
    BY <2>16, Basics
       DEF TypeOK, KeptWhileUsed, Mine, history, RunTimeout, Runs, LetGo, Goto,
           ThreadLocal, HandInv
  <2>17. CASE RunFails(t)
    BY <2>17, Basics, Outcome
       DEF KeptWhileUsed, Mine, history, RunFails, LetGo, Apart, Exit
  <2>18. CASE UniqueOpens(t)
    BY <2>18, Basics
       DEF TypeOK, KeptWhileUsed, Mine, history, UniqueOpens, Fresh, Goto,
           Fresh, Referenced
  <2>19. CASE UniqueFails(t)
    BY <2>19, Basics
       DEF TypeOK, KeptWhileUsed, Mine, history, UniqueFails, Return, terminals
  <2>20. CASE UniqueExit(t)
    BY <2>20, Basics, Outcome
       DEF KeptWhileUsed, Mine, history, UniqueExit, LetGo, Apart, Exit
  <2>21. CASE Spawn(t)
    BY <2>21, Basics
       DEF TypeOK, KeptWhileUsed, Mine, history, Spawn, Goto, terminals
  <2>22. CASE ThreadExit(t)
    BY <2>22, Basics
       DEF TypeOK, KeptWhileUsed, Mine, history, ThreadExit, Goto, terminals
  <2> QED
    BY <1>1, <2>1, <2>2, <2>3, <2>4, <2>5, <2>6, <2>7, <2>8, <2>9, <2>10, <2>11,
       <2>12, <2>13, <2>14, <2>15, <2>16, <2>17, <2>18, <2>19, <2>20, <2>21,
       <2>22
       DEF Acquire, Work
<1>2. ASSUME NEW t \in Threads, NEW n \in Places,
             NEW v \in {"command", "query", "shell"}, Call(t, n, v)
      PROVE  KeptWhileUsed'
  BY <1>2, Basics DEF TypeOK, KeptWhileUsed, Mine, history, Call, Ask, terminals
<1>3. ASSUME NEW t \in Threads, NEW n \in Nodes, CloseBashes(t, n)
      PROVE  KeptWhileUsed'
  <2> SUFFICES ASSUME NEW u \in Threads, pc'[u] \in {"use", "downpool"}
               PROVE  \/ Mine(u)' = held'[u]
                      \/ /\ held'[u] \notin opened'
                         /\ \E m \in restarted' : at'[u] \in Matches[m]
    BY DEF KeptWhileUsed
  <2>1. u # t BY <1>3 DEF TypeOK, CloseBashes, Ask
  <2>2. /\ pc[u] \in {"use", "downpool"} /\ at'[u] = at[u] /\ held'[u] = held[u]
        /\ at[u] \in Places
    BY <1>3, <2>1 DEF TypeOK, CloseBashes, Ask
  <2>3. opened' \subseteq opened /\ restarted' = restarted \cup {n}
    BY <1>3 DEF CloseBashes, Exit
  <2>4. CASE Mine(u) # held[u]
    BY <2>2, <2>3, <2>4 DEF KeptWhileUsed
  <2>5. CASE Mine(u) = held[u] /\ at[u] \in Matches[n]
    BY <1>3, <2>2, <2>3, <2>5 DEF CloseBashes, Exit, Mine
  <2>6. CASE Mine(u) = held[u] /\ at[u] \notin Matches[n]
    BY <1>3, <2>2, <2>6 DEF CloseBashes, Mine
  <2> QED BY <2>4, <2>5, <2>6
<1>4. CASE Down
  BY <1>4, Basics
     DEF TypeOK, KeptWhileUsed, Mine, history, Down, Joined, Ask, terminals
<1>5. CASE DownSkipped
  BY <1>5, Basics
     DEF TypeOK, KeptWhileUsed, Mine, history, DownSkipped, Joined, Goto,
         terminals
<1>6. CASE DownPool
  <2> SUFFICES ASSUME NEW u \in Threads, pc'[u] \in {"use", "downpool"}
               PROVE  \/ Mine(u)' = held'[u]
                      \/ /\ held'[u] \notin opened'
                         /\ \E m \in restarted' : at'[u] \in Matches[m]
    BY DEF KeptWhileUsed
  <2>1. pc[Main] = "downpool" /\ u = Main
    BY <1>6, Basics DEF TypeOK, DownPool, Goto, LeaveInv, Leaving
  <2>2. /\ at'[u] = at[u] /\ held' = held /\ restarted' = restarted
        /\ opened' \subseteq opened /\ at[u] \in Places
    BY <1>6 DEF TypeOK, DownPool, Goto, Exit, history
  <2>3. Mine(u) = held[u] => Mine(u)' = held[u]
    BY <1>6, <2>1, <2>2 DEF DownPool, Mine
  <2> QED BY <2>1, <2>2, <2>3 DEF KeptWhileUsed
<1>7. CASE DownControl
  BY <1>7, Basics
     DEF TypeOK, KeptWhileUsed, Mine, history, DownControl, Goto, Exit
<1>8. CASE Final
  BY <1>8, Basics DEF TypeOK, KeptWhileUsed, Mine, history, Final, Goto, Exit
<1>9. CASE UNCHANGED vars
  BY <1>9 DEF vars, TypeOK, KeptWhileUsed, Mine, history
<1> QED
  BY <1>1, <1>2, <1>3, <1>4, <1>5, <1>6, <1>7, <1>8, <1>9
     DEF Next, Leave, Terminated

(* Nobody else touches or reopens the entry *)
LEMMA OpenNext ==
    ASSUME TypeOK, LockInv, HandInv, HeldInv, ControlInv, OpenInv, [Next]_vars
    PROVE  OpenInv'
<1>1. ASSUME NEW t \in Threads,
             Acquire(t) \/ Work(t) \/ Spawn(t) \/ ThreadExit(t)
      PROVE  OpenInv'
  <2>1. CASE Hit(t)
    BY <2>1, Basics
       DEF TypeOK, LockInv, Locked, OpenInv, Mine, Hit, Give, Goto, terminals
  <2>2. CASE Miss(t)
    BY <2>2, Basics
       DEF TypeOK, LockInv, Locked, OpenInv, Mine, Miss, Goto, terminals
  <2>3. CASE CloseBash(t)
    BY <2>3, Basics
       DEF TypeOK, LockInv, Locked, OpenInv, Mine, CloseBash, Raise, Return,
           Goto, Exit, SetMine
  <2>4. CASE Found(t)
    BY <2>4, Basics
       DEF TypeOK, LockInv, Locked, OpenInv, Mine, Found, ControlShells, Fresh,
           Referenced, ControlInv
  <2>5. CASE NotFound(t)
    BY <2>5, Basics
       DEF TypeOK, LockInv, Locked, OpenInv, Mine, NotFound, Again, Raise,
           Return, Goto, ControlShells, Fresh, Referenced, ControlInv
  <2>6. CASE LookupTimeout(t)
    BY <2>6, Basics
       DEF TypeOK, LockInv, Locked, OpenInv, Mine, LookupTimeout, Again, Raise,
           Return, Goto, Exit
  <2>7. CASE LookupFails(t)
    BY <2>7, Basics
       DEF TypeOK, LockInv, Locked, OpenInv, Mine, LookupFails, Raise, Return,
           Goto, Exit
  <2>8. CASE Opens(t)
    BY <2>8, Basics
       DEF TypeOK, LockInv, Locked, OpenInv, Mine, Opens, Goto, SetMine, Fresh,
           Referenced
  <2>9. CASE ProbeFails(t)
    BY <2>9, Basics
       DEF TypeOK, LockInv, Locked, OpenInv, Mine, ProbeFails, Again, Raise,
           Return, Goto, SetMine, Fresh, Referenced
  <2>10. CASE CreateFails(t)
    BY <2>10, Basics
       DEF TypeOK, LockInv, Locked, OpenInv, Mine, CreateFails, Again, Raise,
           Return, Goto, terminals
  <2>11. CASE ProbeIOError(t)
    BY <2>11, Basics
       DEF TypeOK, LockInv, Locked, OpenInv, Mine, ProbeIOError, Raise, Return,
           Goto, SetMine, Fresh, Referenced
  <2>12. CASE Finish(t)
    BY <2>12, Basics
       DEF TypeOK, LockInv, Locked, OpenInv, Mine, Finish, Give, Goto, Stale
  <2>13. CASE ExportTimeout(t)
    BY <2>13, Basics
       DEF TypeOK, LockInv, Locked, OpenInv, Mine, ExportTimeout, Raise, Return,
           Goto, terminals
  <2>14. CASE ExportFails(t)
    BY <2>14, Basics
       DEF TypeOK, LockInv, Locked, OpenInv, Mine, ExportFails, Raise, Return,
           Goto, Exit
  <2>15. CASE RunOk(t)
    BY <2>15, Basics
       DEF TypeOK, LockInv, Locked, OpenInv, Mine, RunOk, Runs, LetGo, Return, Goto,
           HeldInv, HandInv
  <2>16. CASE RunTimeout(t)
    BY <2>16, Basics
       DEF TypeOK, LockInv, Locked, OpenInv, Mine, RunTimeout, Runs, LetGo, Goto,
           HeldInv, HandInv
  <2>17. CASE RunFails(t)
    BY <2>17, Basics
       DEF TypeOK, LockInv, Locked, OpenInv, Mine, RunFails, LetGo, Raise,
           Return, Goto, Exit
  <2>18. CASE UniqueOpens(t)
    BY <2>18, Basics
       DEF TypeOK, LockInv, Locked, OpenInv, Mine, UniqueOpens, Fresh, Goto,
           Fresh, Referenced
  <2>19. CASE UniqueFails(t)
    BY <2>19, Basics
       DEF TypeOK, LockInv, Locked, OpenInv, Mine, UniqueFails, Return,
           terminals
  <2>20. CASE UniqueExit(t)
    BY <2>20, Basics
       DEF TypeOK, LockInv, Locked, OpenInv, Mine, UniqueExit, LetGo, Raise,
           Return, Goto, Exit
  <2>21. CASE Spawn(t)
    BY <2>21, Basics
       DEF TypeOK, LockInv, Locked, OpenInv, Mine, Spawn, Goto, terminals
  <2>22. CASE ThreadExit(t)
    BY <2>22, Basics
       DEF TypeOK, LockInv, Locked, OpenInv, Mine, ThreadExit, Goto, terminals
  <2> QED
    BY <1>1, <2>1, <2>2, <2>3, <2>4, <2>5, <2>6, <2>7, <2>8, <2>9, <2>10, <2>11,
       <2>12, <2>13, <2>14, <2>15, <2>16, <2>17, <2>18, <2>19, <2>20, <2>21,
       <2>22
       DEF Acquire, Work
<1>2. ASSUME NEW t \in Threads, NEW n \in Places,
             NEW v \in {"command", "query", "shell"}, Call(t, n, v)
      PROVE  OpenInv'
  BY <1>2, Basics DEF TypeOK, LockInv, Locked, OpenInv, Mine, Call, Ask, terminals
<1>3. ASSUME NEW t \in Threads, NEW n \in Nodes, CloseBashes(t, n)
      PROVE  OpenInv'
  BY <1>3, Basics
     DEF TypeOK, LockInv, Locked, OpenInv, Mine, CloseBashes, Ask, Exit
<1>4. CASE Down
  BY <1>4, Basics
     DEF TypeOK, LockInv, Locked, OpenInv, Mine, Down, Joined, Ask, terminals
<1>5. CASE DownSkipped
  BY <1>5, Basics
     DEF TypeOK, LockInv, Locked, OpenInv, Mine, DownSkipped, Joined, Goto,
         terminals
<1>6. CASE DownPool
  BY <1>6, Basics
     DEF TypeOK, LockInv, Locked, OpenInv, Mine, DownPool, Goto, Exit, LeaveInv,
         Leaving
<1>7. CASE DownControl
  BY <1>7, Basics
     DEF TypeOK, LockInv, Locked, OpenInv, Mine, DownControl, Goto, Exit
<1>8. CASE Final
  BY <1>8, Basics DEF TypeOK, LockInv, Locked, OpenInv, Mine, Final, Goto, Exit
<1>9. CASE UNCHANGED vars
  BY <1>9 DEF vars, TypeOK, LockInv, Locked, OpenInv, Mine
<1> QED
  BY <1>1, <1>2, <1>3, <1>4, <1>5, <1>6, <1>7, <1>8, <1>9
     DEF Next, Leave, Terminated

(* A terminal that a thread lets go of is under its key, or was revived *)
LEMMA RunsRef ==
    ASSUME TypeOK, KeptWhileUsed, NoOrphan, NEW t \in Threads, pc[t] = "use",
           Runs(t)
    PROVE  NoOrphan'
<1>1. ASSUME NEW s \in opened' PROVE Referenced(s)' \/ s \in revived'
  <2>1. CASE s = held[t] /\ Mine(t) = s
    BY <2>1 DEF TypeOK, Runs, Referenced, Mine
  <2>2. CASE s = held[t] /\ Mine(t) # s
    BY <2>2 DEF Runs
  <2>3. CASE s # held[t]
    BY <1>1, <2>3 DEF TypeOK, NoOrphan, Referenced, Runs, LetGo
  <2> QED BY <2>1, <2>2, <2>3
<1>2. ASSUME restarted' = {} PROVE revived' = {}
  <2>1. restarted = {} BY <1>2 DEF Runs
  <2>2. Mine(t) = held[t] BY <2>1 DEF KeptWhileUsed
  <2> QED BY <2>1, <2>2 DEF NoOrphan, Runs
<1> QED BY <1>1, <1>2 DEF NoOrphan

(* A terminal leaves the last place that refers to it only closed *)
LEMMA OrphanNext ==
    ASSUME TypeOK, HandInv, OpenInv, KeptWhileUsed, NoOrphan, [Next]_vars
    PROVE  NoOrphan'
<1>1. ASSUME NEW t \in Threads,
             Acquire(t) \/ Work(t) \/ Spawn(t) \/ ThreadExit(t)
      PROVE  NoOrphan'
  <2>1. CASE Hit(t)
    BY <2>1, Basics
       DEF TypeOK, NoOrphan, history, Referenced, Hit, Give, Goto, HandInv, terminals
  <2>2. CASE Miss(t)
    BY <2>2, Basics DEF TypeOK, NoOrphan, history, Referenced, Miss, Goto, terminals
  <2>3. CASE CloseBash(t)
    BY <2>3, Basics
       DEF TypeOK, NoOrphan, history, Referenced, CloseBash, Raise, Return, Goto, Exit,
           SetMine, Mine
  <2>4. CASE Found(t)
    BY <2>4, Basics DEF TypeOK, NoOrphan, history, Referenced, Found, ControlShells, Fresh
  <2>5. CASE NotFound(t)
    BY <2>5, Basics
       DEF TypeOK, NoOrphan, history, Referenced, NotFound, Again, Raise, Return, Goto,
           ControlShells, Fresh
  <2>6. CASE LookupTimeout(t)
    BY <2>6, Basics
       DEF TypeOK, NoOrphan, history, Referenced, LookupTimeout, Again, Raise, Return,
           Goto, Exit
  <2>7. CASE LookupFails(t)
    BY <2>7, Basics
       DEF TypeOK, NoOrphan, history, Referenced, LookupFails, Raise, Return, Goto, Exit
  <2>8. CASE Opens(t)
    BY <2>8, Basics
       DEF TypeOK, NoOrphan, history, Referenced, Opens, Goto, OpenInv, Mine, SetMine,
           Fresh
  <2>9. CASE ProbeFails(t)
    BY <2>9, Basics
       DEF TypeOK, NoOrphan, history, Referenced, ProbeFails, Again, Raise, Return, Goto,
           OpenInv, Mine, SetMine, Fresh
  <2>10. CASE CreateFails(t)
    BY <2>10, Basics
       DEF TypeOK, NoOrphan, history, Referenced, CreateFails, Again, Raise, Return,
           Goto, terminals
  <2>11. CASE ProbeIOError(t)
    BY <2>11, Basics
       DEF TypeOK, NoOrphan, history, Referenced, ProbeIOError, Raise, Return, Goto,
           OpenInv, Mine, SetMine, Fresh
  <2>12. CASE Finish(t)
    <3> SUFFICES ASSUME NEW s \in opened', s \notin revived
                 PROVE  Referenced(s)'
      BY <2>12 DEF NoOrphan, Finish, history
    <3>1. s \in opened /\ \A u \in Stale, n \in Places : bash[u][n] # s
      BY <2>12 DEF Finish
    <3>2. CASE s = control
      BY <2>12, <3>2 DEF Finish, Referenced
    <3>3. ASSUME NEW u \in Threads, held[u] = s PROVE Referenced(s)'
      <4>1. u # t BY <2>12, <3>1, <3>3, ShellPoolAssumption DEF TypeOK, Finish, HandInv
      <4> QED BY <2>12, <3>3, <4>1 DEF TypeOK, Finish, Give, Referenced
    <3>4. ASSUME NEW u \in Threads, NEW n \in Places, bash[u][n] = s
          PROVE  Referenced(s)'
      BY <2>12, <3>1, <3>4 DEF Finish, Referenced
    <3> QED BY <3>1, <3>2, <3>3, <3>4 DEF NoOrphan, Referenced
  <2>13. CASE ExportTimeout(t)
    BY <2>13, Basics
       DEF TypeOK, NoOrphan, history, Referenced, ExportTimeout, Raise, Return, Goto,
           terminals
  <2>14. CASE ExportFails(t)
    BY <2>14, Basics
       DEF TypeOK, NoOrphan, history, Referenced, ExportFails, Raise, Return, Goto, Exit
  <2>15. CASE RunOk(t)
    BY <2>15, RunsRef DEF RunOk
  <2>16. CASE RunTimeout(t)
    BY <2>16, RunsRef DEF RunTimeout
  <2>17. CASE RunFails(t)
    BY <2>17, Basics
       DEF TypeOK, NoOrphan, history, Referenced, RunFails, LetGo, Raise, Return, Goto,
           Exit
  <2>18. CASE UniqueOpens(t)
    <3> SUFFICES ASSUME NEW s \in opened', s \notin revived
                 PROVE  Referenced(s)'
      BY <2>18 DEF NoOrphan, UniqueOpens, history
    <3>1. held[t] = NoShell BY <2>18 DEF UniqueOpens, HandInv
    <3>2. PICK new \in Fresh : /\ held' = [held EXCEPT ![t] = new]
                               /\ opened' = opened \cup {new}
      BY <2>18 DEF UniqueOpens
    <3>3. CASE s = new BY <3>2, <3>3 DEF TypeOK, Referenced
    <3>4. CASE s \in opened
      <4>1. s # NoShell BY <3>4, ShellPoolAssumption DEF TypeOK
      <4>2. Referenced(s) BY <3>4 DEF NoOrphan
      <4> QED BY <2>18, <3>1, <3>2, <4>1, <4>2 DEF TypeOK, UniqueOpens, Referenced
    <3> QED BY <3>2, <3>3, <3>4
  <2>19. CASE UniqueFails(t)
    BY <2>19, Basics
       DEF TypeOK, NoOrphan, history, Referenced, UniqueFails, Return, terminals
  <2>20. CASE UniqueExit(t)
    BY <2>20, Basics
       DEF TypeOK, NoOrphan, history, Referenced, UniqueExit, LetGo, Return, Exit
  <2>21. CASE Spawn(t)
    BY <2>21, Basics DEF TypeOK, NoOrphan, history, Referenced, Spawn, Goto, terminals
  <2>22. CASE ThreadExit(t)
    BY <2>22, Basics DEF TypeOK, NoOrphan, history, Referenced, ThreadExit, Goto, terminals
  <2> QED
    BY <1>1, <2>1, <2>2, <2>3, <2>4, <2>5, <2>6, <2>7, <2>8, <2>9, <2>10, <2>11,
       <2>12, <2>13, <2>14, <2>15, <2>16, <2>17, <2>18, <2>19, <2>20, <2>21,
       <2>22
       DEF Acquire, Work
<1>2. ASSUME NEW t \in Threads, NEW n \in Places,
             NEW v \in {"command", "query", "shell"}, Call(t, n, v)
      PROVE  NoOrphan'
  BY <1>2, Basics DEF TypeOK, NoOrphan, history, Referenced, Call, Ask, terminals
<1>3. ASSUME NEW t \in Threads, NEW n \in Nodes, CloseBashes(t, n)
      PROVE  NoOrphan'
  BY <1>3, Basics DEF TypeOK, NoOrphan, history, Referenced, CloseBashes, Ask, Exit
<1>4. CASE Down
  BY <1>4, Basics DEF TypeOK, NoOrphan, history, Referenced, Down, Joined, Ask, terminals
<1>5. CASE DownSkipped
  BY <1>5, Basics
     DEF TypeOK, NoOrphan, history, Referenced, DownSkipped, Joined, Goto, terminals
<1>6. CASE DownPool
  BY <1>6, Basics
     DEF TypeOK, NoOrphan, history, Referenced, DownPool, Goto, Exit, LeaveInv, Leaving
<1>7. CASE DownControl
  BY <1>7, Basics DEF TypeOK, NoOrphan, history, Referenced, DownControl, Goto, Exit
<1>8. CASE Final
  BY <1>8, Basics DEF TypeOK, NoOrphan, history, Referenced, Final, Goto, Exit
<1>9. CASE UNCHANGED vars
  BY <1>9 DEF vars, TypeOK, NoOrphan, Referenced
<1> QED
  BY <1>1, <1>2, <1>3, <1>4, <1>5, <1>6, <1>7, <1>8, <1>9
     DEF Next, Leave, Terminated

(* Nothing happens any more when the main thread is gone *)
LEMMA GoneNext ==
    ASSUME TypeOK, LeaveInv, GoneInv, [Next]_vars
    PROVE  GoneInv'
<1>1. ASSUME NEW t \in Threads,
             Acquire(t) \/ Work(t) \/ Spawn(t) \/ ThreadExit(t)
      PROVE  GoneInv'
  <2>1. CASE Hit(t)
    BY <2>1, Basics
       DEF TypeOK, GoneInv, LeaveInv, Leaving, Hit, Give, Goto, terminals,
           history
  <2>2. CASE Miss(t)
    BY <2>2, Basics
       DEF TypeOK, GoneInv, LeaveInv, Leaving, Miss, Goto, terminals, history
  <2>3. CASE CloseBash(t)
    BY <2>3, Basics
       DEF TypeOK, GoneInv, LeaveInv, Leaving, CloseBash, Raise, Return, Goto,
           Exit, history
  <2>4. CASE Found(t)
    BY <2>4, Basics DEF TypeOK, GoneInv, LeaveInv, Leaving, Found, history
  <2>5. CASE NotFound(t)
    BY <2>5, Basics
       DEF TypeOK, GoneInv, LeaveInv, Leaving, NotFound, Again, Raise, Return,
           Goto, history
  <2>6. CASE LookupTimeout(t)
    BY <2>6, Basics
       DEF TypeOK, GoneInv, LeaveInv, Leaving, LookupTimeout, Again, Raise,
           Return, Goto, Exit, history
  <2>7. CASE LookupFails(t)
    BY <2>7, Basics
       DEF TypeOK, GoneInv, LeaveInv, Leaving, LookupFails, Raise, Return, Goto,
           Exit, history
  <2>8. CASE Opens(t)
    BY <2>8, Basics DEF TypeOK, GoneInv, LeaveInv, Leaving, Opens, Goto, history
  <2>9. CASE ProbeFails(t)
    BY <2>9, Basics
       DEF TypeOK, GoneInv, LeaveInv, Leaving, ProbeFails, Again, Raise, Return,
           Goto, history
  <2>10. CASE CreateFails(t)
    BY <2>10, Basics
       DEF TypeOK, GoneInv, LeaveInv, Leaving, CreateFails, Again, Raise,
           Return, Goto, terminals, history
  <2>11. CASE ProbeIOError(t)
    BY <2>11, Basics
       DEF TypeOK, GoneInv, LeaveInv, Leaving, ProbeIOError, Raise, Return,
           Goto, history
  <2>12. CASE Finish(t)
    BY <2>12, Basics
       DEF TypeOK, GoneInv, LeaveInv, Leaving, Finish, Give, Goto, history
  <2>13. CASE ExportTimeout(t)
    BY <2>13, Basics
       DEF TypeOK, GoneInv, LeaveInv, Leaving, ExportTimeout, Raise, Return,
           Goto, terminals, history
  <2>14. CASE ExportFails(t)
    BY <2>14, Basics
       DEF TypeOK, GoneInv, LeaveInv, Leaving, ExportFails, Raise, Return, Goto,
           Exit, history
  <2>15. CASE RunOk(t)
    BY <2>15, Basics
       DEF TypeOK, GoneInv, LeaveInv, Leaving, RunOk, Runs, LetGo, Return, Goto,
           history
  <2>16. CASE RunTimeout(t)
    BY <2>16, Basics
       DEF TypeOK, GoneInv, LeaveInv, Leaving, RunTimeout, Runs, LetGo, Goto, history
  <2>17. CASE RunFails(t)
    BY <2>17, Basics
       DEF TypeOK, GoneInv, LeaveInv, Leaving, RunFails, LetGo, Raise, Return,
           Goto, Exit, history
  <2>18. CASE UniqueOpens(t)
    BY <2>18, Basics
       DEF TypeOK, GoneInv, LeaveInv, Leaving, UniqueOpens, Fresh, Goto, history
  <2>19. CASE UniqueFails(t)
    BY <2>19, Basics
       DEF TypeOK, GoneInv, LeaveInv, Leaving, UniqueFails, Return, terminals,
           history
  <2>20. CASE UniqueExit(t)
    BY <2>20, Basics
       DEF TypeOK, GoneInv, LeaveInv, Leaving, UniqueExit, LetGo, Return, Exit,
           history
  <2>21. CASE Spawn(t)
    BY <2>21, Basics
       DEF TypeOK, GoneInv, LeaveInv, Leaving, Spawn, Goto, terminals, history
  <2>22. CASE ThreadExit(t)
    BY <2>22, Basics
       DEF TypeOK, GoneInv, LeaveInv, Leaving, ThreadExit, Goto, terminals,
           history
  <2> QED
    BY <1>1, <2>1, <2>2, <2>3, <2>4, <2>5, <2>6, <2>7, <2>8, <2>9, <2>10, <2>11,
       <2>12, <2>13, <2>14, <2>15, <2>16, <2>17, <2>18, <2>19, <2>20, <2>21,
       <2>22
       DEF Acquire, Work
<1>2. ASSUME NEW t \in Threads, NEW n \in Places,
             NEW v \in {"command", "query", "shell"}, Call(t, n, v)
      PROVE  GoneInv'
  BY <1>2, Basics
     DEF TypeOK, GoneInv, LeaveInv, Leaving, Call, Ask, terminals, history
<1>3. ASSUME NEW t \in Threads, NEW n \in Nodes, CloseBashes(t, n)
      PROVE  GoneInv'
  BY <1>3, Basics DEF TypeOK, GoneInv, LeaveInv, Leaving, CloseBashes, Ask, Exit
<1>4. CASE Down
  BY <1>4, Basics
     DEF TypeOK, GoneInv, LeaveInv, Leaving, Down, Joined, Ask, terminals,
         history
<1>5. CASE DownSkipped
  BY <1>5, Basics
     DEF TypeOK, GoneInv, LeaveInv, Leaving, DownSkipped, Joined, Goto,
         terminals, history
<1>6. CASE DownPool
  BY <1>6, Basics
     DEF TypeOK, GoneInv, LeaveInv, Leaving, DownPool, Goto, Exit, history
<1>7. CASE DownControl
  BY <1>7, Basics DEF TypeOK, GoneInv, LeaveInv, Leaving, DownControl, Goto, Exit
<1>8. CASE Final
  BY <1>8, Basics
     DEF TypeOK, GoneInv, LeaveInv, Leaving, Final, Goto, Exit, history
<1>9. CASE UNCHANGED vars
  BY <1>9 DEF vars, TypeOK, GoneInv, LeaveInv, Leaving
<1> QED
  BY <1>1, <1>2, <1>3, <1>4, <1>5, <1>6, <1>7, <1>8, <1>9
     DEF Next, Leave, Terminated

-----------------------------------------------------------------------------
(* The invariant holds of a new Cluster object *)
LEMMA InvInit == Init => IInv
<1> SUFFICES ASSUME Init PROVE IInv OBVIOUS
<1> USE ShellPoolAssumption DEF Init
<1>1. TypeOK BY Names DEF TypeOK
<1>2. LockInv /\ HandInv BY DEF LockInv, Locked, HandInv
<1>3. PoolInv /\ HeldInv /\ ControlInv BY DEF PoolInv, HeldInv, ControlInv
<1>4. FinishInv /\ OpenInv BY DEF FinishInv, OpenInv
<1>5. LeaveInv /\ GoneInv BY DEF LeaveInv, Leaving, GoneInv
<1>6. ThreadLocal /\ NoOrphan /\ KeptWhileUsed
  BY DEF ThreadLocal, NoOrphan, KeptWhileUsed
<1> QED BY <1>1, <1>2, <1>3, <1>4, <1>5, <1>6 DEF IInv

(* Every step keeps the invariant *)
LEMMA InvNext == IInv /\ [Next]_vars => IInv'
<1> SUFFICES ASSUME IInv, [Next]_vars PROVE IInv' OBVIOUS
<1> USE DEF IInv
<1>1. TypeOK' BY TypeNext
<1>2. Shape BY StepShape
<1>3. OwnInv' BY <1>1, <1>2, OwnNext DEF OwnInv
<1> QED
  BY <1>1, <1>3, FlowNext, FinishNext, OpenNext, LeaveNext, GoneNext, KeptNext,
     OrphanNext DEF OwnInv

(***************************************************************************)
(* The inductive invariant holds for every number of threads, nodes and    *)
(* terminals: the lock of the cluster serialises what bash(), shell() and  *)
(* down() do to the terminals.                                             *)
(***************************************************************************)
THEOREM Invariant == Spec => []IInv
BY InvInit, InvNext, PTL DEF Spec

(***************************************************************************)
(* The variables keep their types; in particular the loops of bash() and   *)
(* node_container_id() that hold the lock make no more than MaxTries rounds. *)
(***************************************************************************)
THEOREM TypeCorrect == Spec => []TypeOK
<1>1. IInv => TypeOK BY DEF IInv
<1> QED BY <1>1, Invariant, PTL

(***************************************************************************)
(* bash() and shell() never give a terminal to two threads, nor the one the *)
(* lookup of container ids uses.                                           *)
(***************************************************************************)
THEOREM TerminalsAreThreadLocal == Spec => []ThreadLocal
<1>1. IInv => ThreadLocal BY DEF IInv
<1> QED BY <1>1, Invariant, PTL

(***************************************************************************)
(* Every open terminal is still referred to, through failed openings,      *)
(* timeouts and exits of threads; what a restart of a node loses is the    *)
(* terminals of calls that it met between bash() and their command.        *)
(***************************************************************************)
THEOREM NoTerminalIsLost == Spec => []NoOrphan
<1>1. IInv => NoOrphan BY DEF IInv
<1> QED BY <1>1, Invariant, PTL

(***************************************************************************)
(* Nothing but close_bashes() for its node takes a terminal out of _bash   *)
(* while its thread runs a command in it.                                  *)
(***************************************************************************)
THEOREM TerminalInUseIsKept == Spec => []KeptWhileUsed
<1>1. IInv => KeptWhileUsed BY DEF IInv
<1> QED BY <1>1, Invariant, PTL

(***************************************************************************)
(* When the main thread has left the cluster no terminal is open, but for  *)
(* the control terminal of a down() that was cut short and the terminals   *)
(* that calls revived after close_bashes().                                *)
(***************************************************************************)
THEOREM ExitClosesTerminals == Spec => []ExitClosesAll
<1>1. IInv => ExitClosesAll
  <2> SUFFICES ASSUME IInv, pc[Main] = "gone", NEW s \in opened, s \notin revived
               PROVE  leaving # "down" /\ s = control
    BY DEF ExitClosesAll
  <2>1. s \in Shells /\ s # NoShell BY ShellPoolAssumption DEF IInv, TypeOK
  <2>2. \A t \in Threads : held[t] = NoShell
    BY ShellPoolAssumption DEF IInv, LeaveInv, Leaving, HandInv
  <2>3. s = control
    BY <2>1, <2>2 DEF IInv, GoneInv, NoOrphan, Referenced
  <2> QED BY <2>1, <2>3 DEF IInv, GoneInv
<1> QED BY <1>1, Invariant, PTL

-----------------------------------------------------------------------------
(***************************************************************************)
(* The refinement of TerminalOwnership.                                    *)
(***************************************************************************)

(* OwnerOf is well defined: one thread at most has a terminal *)
LEMMA OwnerOfOwned ==
    ASSUME OwnInv, NEW s \in Shells, NEW t \in Threads, Owns(t, s)
    PROVE  OwnerOf(s) = t
<1>0. s # NoShell BY ShellPoolAssumption
<1>1. s # control BY <1>0 DEF OwnInv, ControlInv, Owns
<1>2. ASSUME NEW u \in Threads, Owns(u, s) PROVE u = t
  BY <1>0, <1>2 DEF OwnInv, PoolInv, HeldInv, ThreadLocal, Owns
<1>3. (CHOOSE u \in Threads : Owns(u, s)) = t BY <1>2
<1> QED BY <1>1, <1>3 DEF OwnerOf

(* A terminal nobody has belongs to nobody *)
LEMMA OwnerOfFree ==
    ASSUME NEW s \in Shells, s # control, \A t \in Threads : ~Owns(t, s)
    PROVE  OwnerOf(s) = NoShell
BY DEF OwnerOf

(* A terminal that nobody gets in a step keeps its owner or loses it *)
LEMMA OwnerOfKept ==
    ASSUME OwnInv, OwnInv', NEW s \in Shells,
           \A t \in Threads : Owns(t, s)' => Owns(t, s),
           s = control' => s = control
    PROVE  OwnerOf(s)' \in {OwnerOf(s), NoShell}
<1>1. CASE s = control'
  <2>1. OwnerOf(s)' = NoThread /\ OwnerOf(s) = NoThread BY <1>1 DEF OwnerOf
  <2> QED BY <2>1
<1>2. ASSUME NEW t \in Threads, Owns(t, s)' PROVE OwnerOf(s)' = OwnerOf(s)
  <2>1. OwnerOf(s) = t BY <1>2, OwnerOfOwned
  <2>2. OwnerOf(s)' = t
    <3>0. s # NoShell BY ShellPoolAssumption
    <3>1. s # control' BY <1>2, <3>0 DEF OwnInv, ControlInv, Owns
    <3>2. ASSUME NEW u \in Threads, Owns(u, s)' PROVE u = t
      BY <1>2, <3>0, <3>2 DEF OwnInv, PoolInv, HeldInv, ThreadLocal, Owns
    <3>3. (CHOOSE u \in Threads : Owns(u, s)') = t BY <1>2, <3>2
    <3> QED BY <1>2, <3>1, <3>3 DEF OwnerOf
  <2> QED BY <2>1, <2>2
<1>3. CASE s # control' /\ \A t \in Threads : ~Owns(t, s)'
  BY <1>3 DEF OwnerOf
<1> QED BY <1>1, <1>2, <1>3

(* In a step at most one terminal gets an owner, and it had none *)
LEMMA OneCreated ==
    ASSUME TypeOK, TypeOK', OwnInv, OwnInv', Shape
    PROVE  \/ \A r \in Shells : OwnerOf(r)' \in {OwnerOf(r), NoShell}
           \/ \E s \in Shells :
                 /\ OwnerOf(s) = NoShell
                 /\ \A r \in Shells \ {s} : OwnerOf(r)' \in {OwnerOf(r), NoShell}
<1> USE DEF TypeOK
<1>1. CASE Drops \/ \E t \in Threads : Gives(t)
  <2> SUFFICES ASSUME NEW r \in Shells
               PROVE  /\ \A t \in Threads : Owns(t, r)' => Owns(t, r)
                      /\ r = control' => r = control
    BY OwnerOfKept
  <2>1. r # NoShell BY ShellPoolAssumption
  <2>2. CASE Drops BY <2>1, <2>2 DEF Drops, Owns
  <2>3. ASSUME NEW t \in Threads, Gives(t)
        PROVE  /\ \A u \in Threads : Owns(u, r)' => Owns(u, r)
               /\ r = control' => r = control
    BY <2>1, <2>3 DEF Gives, Owns, Mine
  <2> QED BY <1>1, <2>2, <2>3
<1>2. ASSUME NEW s \in Fresh,
             Controls(s) \/ \E t \in Threads : Pools(t, s) \/ Takes(t, s)
      PROVE  /\ s \in Shells /\ OwnerOf(s) = NoShell
             /\ \A r \in Shells \ {s} : OwnerOf(r)' \in {OwnerOf(r), NoShell}
  <2>1. s \in Shells /\ OwnerOf(s) = NoShell
    BY OwnerOfFree DEF Fresh, Referenced, Owns
  <2> SUFFICES ASSUME NEW r \in Shells \ {s}
               PROVE  /\ \A t \in Threads : Owns(t, r)' => Owns(t, r)
                      /\ r = control' => r = control
    BY <2>1, OwnerOfKept
  <2>2. CASE Controls(s) BY <2>2 DEF Controls, Owns
  <2>3. ASSUME NEW t \in Threads, Pools(t, s)
        PROVE  /\ \A u \in Threads : Owns(u, r)' => Owns(u, r)
               /\ r = control' => r = control
    BY <2>3 DEF Pools, Owns
  <2>4. ASSUME NEW t \in Threads, Takes(t, s)
        PROVE  /\ \A u \in Threads : Owns(u, r)' => Owns(u, r)
               /\ r = control' => r = control
    BY <2>4 DEF Takes, Owns
  <2> QED BY <1>2, <2>2, <2>3, <2>4
<1> QED BY <1>1, <1>2 DEF Shape

(***************************************************************************)
(* The dictionary of terminals with its lock implements TerminalOwnership: *)
(* terminals are created one at a time and never change hands.             *)
(***************************************************************************)
THEOREM PoolImplementsOwnership == Spec => ImplementsOwnership
<1> DEFINE own == [s \in Shells |-> OwnerOf(s)]
<1>1. Init => Ownership!Init
  <2> SUFFICES ASSUME Init, NEW s \in Shells PROVE OwnerOf(s) = NoShell
    BY DEF Ownership!Init
  <2>1. s # NoShell BY ShellPoolAssumption
  <2>2. s # control /\ \A t \in Threads : ~Owns(t, s)
    BY <2>1, ShellPoolAssumption DEF Init, Owns
  <2> QED BY <2>2, OwnerOfFree
<1>2. IInv /\ IInv' /\ [Next]_vars => [Ownership!Next]_own
  <2> SUFFICES ASSUME IInv, IInv', [Next]_vars PROVE Ownership!Next
    OBVIOUS
  <2>1. OwnInv /\ OwnInv' /\ TypeOK /\ TypeOK' BY DEF IInv, OwnInv
  <2>2. Shape BY StepShape DEF IInv
  <2>3. \A s \in Shells : OwnerOf(s)' \in (Threads \cup {NoThread}) \cup {NoShell}
    <3> SUFFICES ASSUME NEW s \in Shells
                 PROVE  OwnerOf(s)' \in (Threads \cup {NoThread}) \cup {NoShell}
      OBVIOUS
    <3>1. (\E t \in Threads : Owns(t, s)') =>
             (CHOOSE t \in Threads : Owns(t, s)') \in Threads
      OBVIOUS
    <3> QED BY <3>1 DEF OwnerOf
  <2>4. own' = [s \in Shells |-> OwnerOf(s)'] OBVIOUS
  <2>5. own' \in [Shells -> (Threads \cup {NoThread}) \cup {NoShell}]
    BY <2>3, <2>4
  <2>6. PICK C \in SUBSET Shells :
          /\ \A s \in C : OwnerOf(s) = NoShell
          /\ \A s, r \in C : s = r
          /\ \A r \in Shells \ C : OwnerOf(r)' \in {OwnerOf(r), NoShell}
    <3>1. CASE \A r \in Shells : OwnerOf(r)' \in {OwnerOf(r), NoShell}
      <4> WITNESS {} \in SUBSET Shells
      <4> QED BY <3>1
    <3>2. ASSUME NEW s \in Shells, OwnerOf(s) = NoShell,
                 \A r \in Shells \ {s} : OwnerOf(r)' \in {OwnerOf(r), NoShell}
          PROVE  \E C \in SUBSET Shells :
                   /\ \A r \in C : OwnerOf(r) = NoShell
                   /\ \A q, r \in C : q = r
                   /\ \A r \in Shells \ C : OwnerOf(r)' \in {OwnerOf(r), NoShell}
      <4> WITNESS {s} \in SUBSET Shells
      <4> QED BY <3>2
    <3> QED BY <2>1, <2>2, <3>1, <3>2, OneCreated
  <2>7. \A s \in Shells : own[s] = OwnerOf(s) /\ own'[s] = OwnerOf(s)'
    BY <2>4
  <2> HIDE DEF own
  <2>8. \A s \in Shells :
          \/ own'[s] \in {own[s], NoShell}
          \/ own[s] = NoShell /\ own'[s] # NoShell
    BY <2>6, <2>7
  <2>9. \A s, r \in Shells :
          /\ own[s] = NoShell /\ own'[s] # NoShell
          /\ own[r] = NoShell /\ own'[r] # NoShell
          => s = r
    BY <2>6, <2>7
  <2> QED BY <2>5, <2>8, <2>9 DEF Ownership!Next, Ownership!Created, own
<1> QED BY <1>1, <1>2, Invariant, PTL DEF Spec, ImplementsOwnership, Ownership!Spec
=============================================================================

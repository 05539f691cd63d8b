# Verification of the cluster helpers

This directory holds TLA+ models of the code every regression suite of this
repository runs on: the helpers that get a binary, bring a cluster up, open
terminals, start and stop servers, add configuration files, run queries and put
things on a node for the time of a test, and of the programs around them: the
pool of suites and the scripts of the CI. TLC checks the models on small
instances, TLAPS proves every safety property the runs check for every instance.

The suites themselves ask questions of ClickHouse and keep no state of their
own. What can go wrong in this repository's own code goes wrong above all in
`src/helpers/cluster.py` and `src/helpers/common.py`: they are shared by all
suites, run in up to four parallel test threads, and talk to containers and
servers that hang, crash and answer late.

## 1. Inventory

| Part | State | Operations | What is hard |
|---|---|---|---|
| Terminals of a `Cluster` (`cluster.py` 782-1404) | `_bash`: (thread, node) -> terminal; `_control_shell`; `lock` | `bash`, `close_bash`, `shell`, `control_shell`, `node_container_id`, `close_bashes`, `down`, `__exit__` | threads share the dictionary; openings fail half way; the lock is held for whole lookups; threads end without closing |
| ClickHouse server of a node (258-465) | the pid file, the process, the container | `stop_clickhouse`, `start_clickhouse`, `restart_clickhouse`, `stop`, `start`, `restart`, `wait_clickhouse_healthy` | the server hangs, crashes or is shut down between any two commands; the file is all the code sees of it |
| Dynamic configuration (`common.py` 183-471) | files in `config.d`, the preprocessed file, the log | `add_config`, `add_invalid_config` | the reloader runs beside the test and leaves two traces that have to be read in the right order |
| Queries and commands (467-779, 1344-1404) | the arguments of the call | `query`, `hash_query`, `diff_query`, `command`, `cmd` | retries of statements that may have been executed; arguments that a recursive call must pass on |
| ZooKeeper server of a node (176-255) | none | `stop_zookeeper`, `start_zookeeper` | one call of `zkServer.sh` each |
| Bringing the cluster up (785-974, 1147-1342, 1407-1436) | environment, binary on the host, containers | `__init__`, `up`, `down`, `create_cluster` | five attempts of four phases whose exit codes go through `tee`; what an earlier program left; a binary that several suites download |
| Test steps on a node (`common.py` 74-134, 474-587) | log offsets, users, groups, files, variables | `instrument_clickhouse_server_log`, `copy`, ... | clean-up when the set-up failed |
| Version checks (`common.py` 20-57, `cluster.py` 315-322, 870-883) | `context.clickhouse_version` | `check_clickhouse_version`, `__init__`, `wait_clickhouse_healthy` | lists of different lengths; three sources of the version, several binaries |
| Keeper helpers (`clickhouse_keeper/tests/steps.py`) | keepers and their pid files | `start_keepers`, `stop_keepers`, ... | a keeper that is slow or dies in the middle of a group |
| Suites side by side (`regression.py`) | a pool of 4 | `regression` | a suite that cannot be loaded while others run |
| CI (`cicd-trigger.py`, `retry.sh`, `.github`) | pipelines of the service | `get_or_create_pipeline_trigger`, `trigger` | get-or-create by two runs, retry loops |
| Descriptions (`argparser.py`, `datatypes.py`, `tables.py`) | none | text of options, types, tables | - |
| Requirements (`*/requirements/requirements.py`) | none | generated objects that hold text | - |
| Suites | none of their own | scenarios | - |

How they interact: every operation on a node is a command in the terminal of
the calling thread, so everything goes through `Cluster.bash`; `add_config`
uses a terminal of its own (`Cluster.shell`) for the tail of the log, and stops
and starts the server; `Node.restart` and `Node.stop` close the terminals of
the node, those of other threads too; `Cluster.__exit__` closes all of them.
`regression.py` runs suites side by side, each with a `Cluster` of its own, on
one host: they share the binary that `Cluster.__init__` gets. A program that was
killed leaves its containers to the next one.

What makes each part correct:

* terminals: one thread per terminal, none is lost, none is taken away in use,
  none is left when the cluster is left, nobody waits for ever;
* server: the pid file names the server whenever there is one, a restart that
  returns has replaced it, a stop leaves nothing, every operation ends;
* configuration: the test runs with the config loaded and leaves it unloaded,
  no wait is for something that does not happen;
* queries: the checks the caller asked for are made on the last run, a
  statement is repeated only on request and no more often than asked for;
* cluster: `up` ends, the tests run on servers this program started, on a whole
  binary, and leaving removes the containers;
* versions: the tests of a binary compare with the version of its own server, in
  a total order;
* test steps and keepers: whatever failed half way, nothing is left behind and
  nothing that belongs to others is taken away;
* programs: they end, a suite is never left running, and exit code 0 says what
  the caller takes it to say.

The hazards are listed one by one, with the lines and the properties that
cover them, in `PROJECT.json`.

## 2. Modules

| Module | Models | Checked by |
|---|---|---|
| `ShellPool` | terminals of a cluster | `MCShellPool` |
| `TerminalOwnership` | what the terminals promise: an owner each, never another | refinement in `ShellPool` |
| `ShellPoolProofs` | theorems about `ShellPool` | `tlapm` |
| `ClickHouseServer` | the server and the container of a node | `MCClickHouseServer` |
| `ClickHouseServerProofs` | theorems about `ClickHouseServer` | `tlapm` |
| `AddConfig` | `add_config` and the server's reloader | `MCAddConfig` |
| `AddConfigProofs` | theorems about `AddConfig` | `tlapm` |
| `NodeQuery` | `query`, `hash_query`, `diff_query` | `MCNodeWork`, `MCNodeQuery` |
| `NodeQueryProofs` | theorems about `NodeQuery` | `tlapm` |
| `ClusterUp` | `up`, `__enter__`, `__exit__`, `down` against docker-compose | `MCPrograms` |
| `ClusterUpProofs` | theorems about `ClusterUp` | `tlapm` |
| `BinaryCache` | how `Cluster.__init__` gets the binary | `MCPrograms` |
| `ContainerLookup` | `node_container_id` with a clock, in both versions | `MCNodeWork` |
| `AddInvalidConfig` | `add_invalid_config` and the error log | `MCNodeWork` |
| `VersionCheck` | `check_clickhouse_version` and where the version comes from | `MCPrograms` |
| `ServerLogWindow` | `instrument_clickhouse_server_log` | `MCNodeWork` |
| `NodeFixtures` | steps with a clean-up: `common.py`, `rbac/helper/common.py` | `MCNodeWork` |
| `KeeperNodes` | `start_keepers`, `stop_keepers` | `MCNodeWork` |
| `RegressionPool` | the top level `regression.py` | `MCPrograms` |
| `CicdTrigger` | `cicd-trigger.py` | `MCPrograms` |
| `RetryScripts` | `retry.sh`, `dockerd-start.sh` | `MCPrograms` |
| `NodeWork` | `NodeQuery`, `AddInvalidConfig`, `ServerLogWindow`, `NodeFixtures`, `KeeperNodes` and `ContainerLookup` as the parts of one specification | `MCNodeWork` |
| `NodeWorkProofs` | theorems about the parts of `NodeWork` | `tlapm` |
| `Programs` | `ClusterUp`, `BinaryCache`, `VersionCheck`, `RegressionPool`, `CicdTrigger` and `RetryScripts` in the same way | `MCPrograms` |
| `ProgramsProofs` | theorems about the parts of `Programs` | `tlapm` |

Modules use each other's operations as single steps that succeed or raise:
`AddConfig`, `AddInvalidConfig` and `ClusterUp` the start and stop of
`ClickHouseServer`, `NodeQuery` the terminals of `ShellPool`, `ShellPool` the
lookup of `ContainerLookup`. In every module the operators commented as mistakes
are variants of a definition that the properties are tried on; no specification
uses them.

### ShellPool

State: `bash` is `Cluster._bash` (a function of thread and node, `NoShell` where
there is no key), `control` is `_control_shell`, `lock` the `Lock`, `opened`
the terminals that have a process, `exported` those whose process has the whole
environment. Each thread has a program counter `pc`, the node `at` it works on,
the caller `via` of `bash()` and the terminal `held`. `restarted`, `revived` and
`leaving` are history for the properties.

A call of `bash` is the actions `Hit` (the key is there) or `Miss`, then with
the lock held the lookup of the container id (`Found`, `NotFound`,
`LookupTimeout`, `LookupFails`), the loop that opens (`Opens`, `ProbeFails`,
`CreateFails`, `ProbeIOError`), the exports and the removal of the terminals of
threads that ended (`Finish`, `ExportTimeout`, `ExportFails`), and the command
itself without the lock (`RunOk`, `RunTimeout`, `RunFails`). `CloseBashes` is
`Node.close_bashes`, `UniqueOpens` ... `UniqueExit` are `Cluster.shell`, `Down`,
`DownPool`, `DownControl` and `Final` are `down` and `__exit__`.

Every outcome of a terminal is a choice: a call completes, raises
`ExpectTimeoutError` with the process still there, or raises `IOError` because
the process is gone. Loops that end on a timeout end after `MaxTries` failed
attempts. `Matches` is the relation `endswith` between node names that
`close_bashes` uses.

A call on a `Shell` that has no process starts one: lines 988-990, 1051-1063 and
1097-1109 call a new `Shell` that was never entered and rely on it. So a terminal
that `close_bashes` has taken out of the dictionary between `bash()` and the call
gets a process again (`Runs`), and nothing closes that one any more: it is
`revived`. `NoOrphan` says that this is the only way to lose a terminal, and
`ExitClosesAll` that besides such terminals only the control terminal may be
open in the end, when `down()` was cut short before its last statement.

The main thread leaves only when the others have ended: TestFlows joins parallel
tests before the `with` block of the cluster ends.

### ClickHouseServer

State: the `container`, what became of each server process (`proc`), the
`pidfile`, and per thread the operation, its step, the local variable `pid` and
the rounds of the current loop. Each command in the container is an action, so
a crash or another thread's step fits between `ls` and `cat` of
`clickhouse_pid`, between `kill -TERM` and `ps`, between `ps` and `rm`.
`Garbage` is cat's error message that `clickhouse_pid` returns as a pid when the
file goes between its two commands. `kill -KILL` is sent every `KillEvery`
rounds (20 in the code), with `MaxPolls` rounds in all (33), so that as in the
code there is a kill and time is left after it.

The server is external. Assumed of it: it writes the pid file within the
300 seconds of the wait or gives up, it does not come up next to another one
that owns the data, it removes the file when it ends in order and not when it is
killed or crashes, and a stopped container keeps its files. It may hang for
ever in any state.

### AddConfig

State: the `files` in `config.d`, the reloader (`reading`, `known`,
`preprocessed`, `loaded`), and per call its step, its phase (add or remove), its
options and `heard`, the first message that the call's `tail -f` has shown.
Both phases take the same steps: begin the tail, edit the file, wait for the
preprocessed file, restart the server if asked, wait for the message. A call is
a config; `Parallel = FALSE` lets one call move at a time, others being in their
body, which is what one thread that nests `with` blocks can do.

A timeout happens only when nothing is going to happen (`Quiet`): the 300
seconds are longer than a reload, which looks every 2 seconds. So a timeout in
the model is a wait for something that never comes. Options are sets of
`restart`, `modify` and `unchecked` (`check_preprocessed=False`).

### NodeQuery

`asked` are the caller's arguments, `cur` those of the recursive call that is
running. A run of the client comes to an answer, an exception, an exception with
one of `MESSAGES_TO_RETRY`, an answer with such a message in a log line, or a
timeout. `r` is the variable of that name: not assigned, or an exit code (the
client's, or that of `diff`) and whether the message that the caller expects is
in the output. `hash_query` and `diff_query` catch the timeout and go on without
a result, which raises at `r.exitcode`. `RetryArgs` is the recursive call of
lines 743-756. With `hash_output` neither messages nor exceptions can be seen in
the output.

### ClusterUp

State: the `container` of every node, its `server` and whether this program or
an earlier one started it, the step of `up` or `__exit__`, the `attempt` and the
`next` node to wait for. `Pull`, `Down`, `Up` and `Check` are the phases of an
attempt. Their exit codes are those of `tee`, so only "is unhealthy" in the
output of `up` and "Exit" in the output of `ps` are seen (`SeenBroken`); a
failing `down` leaves any containers, a failing `up` makes any. `NextProgram` is
the end of the program at any point, or its being killed, and the next one on
the same project. `start_clickhouse` raises when it finds a pid file, which is
what keeps old servers out.

### BinaryCache

`download` is the file that `wget` writes, `bin` and `bridge` are the two files
that come out of an image or a package: not there, partial or whole. `source`
says which branches of `__init__` are taken: `https` takes a file that exists and
removes what a failed download left, `docker` copies every time and looks at no
exit code, `deb` unpacks when one of the files is missing, `https_deb` does
first the one and then the other. A command fails, noticed or not, or does not
end in time (`Fails`, `FailsUnnoticed`), or the program is killed and removes
nothing (`Killed`). `AtOnce` is the number of suites at once, one in the run.
`missed` remembers that the last writer of the binary failed without being
noticed, or was killed while `wget` was writing the binary.

### ContainerLookup

`left` is the local variable `timeout`, `now` the seconds since the call. Before
it asks, a lookup opens a control terminal if there is none (`control`), in a
loop with a time of its own that ends when a probe answers or has failed after
`ControlTimeout` (300 seconds, a probe takes up to 30); `opening` is the time
spent there. So a lookup ends with the id, with one of two `RuntimeError`s (no
container, no control terminal), or with `IOError`. The version of `helpers`
subtracts all the time since the call in every round and so gives up early, the
one of `ssl_keeper` subtracts only after `ExpectTimeoutError` (`copy`).

### AddInvalidConfig

`visible` is what the last `tail` lines of the error log show: the message of an
earlier call, of this one, or neither. The server that reads an invalid file
logs the message or something else. A call is prepare, add, wait for the
preprocessed file, restart, and in the finally remove or recover, restart again,
then look for the message. A reload reads the file and logs in one step here: a
late message of an earlier read is what `AddConfig` is about.

### VersionCheck

`version` is `context.clickhouse_version`; a version is a sequence of numbers
that may end in a word. `Binary` is the loop of `performance.py`,
`CreateCluster` the parsing of the tag, `Healthy` the end of
`wait_clickhouse_healthy`, `Check` the function `check_clickhouse_version` with
its `ValueError`s. That an assignment to the context of a step is seen by the
test is taken from how both places use it.

### ServerLogWindow, NodeFixtures, KeeperNodes

`log` is the bytes of the server's log, each with the time it was written at;
`TailC` and `HeadC` are `tail -c +n` and `head -c n`. `NodeFixtures` has a stack
of steps that a test has entered; any command of a set-up or clean-up may fail,
and the steps are unwound all the same. `KeeperNodes` goes through the group
node by node; an exception of the set-up leads to the finally, one of the
finally ends it.

### RegressionPool, CicdTrigger, RetryScripts

`RegressionPool` has the list of suites, the loop that loads them and the pool;
`Required` are the parameters without a default of each suite's `regression`,
`Passed` the arguments that `regression.py` gives, `Fate` what has to become of
each suite. The instance has the signatures of the suites: all of them require
`collect_service_logs`, which is not passed, so every suite that is loaded ends
in an error, and those after `map_type`, which does not exist, are not loaded.
`CicdTrigger` has any number of scripts against one project of the service;
every request is a step and may fail; `trigger` is the one a script uses.
`RetryScripts` has the two loops, one per behaviour.

## 3. Runs

| Run | Instance | Shows |
|---|---|---|
| `terminals` | 2 threads, 1 node and the host, 4 terminals, 1 failed try | `ThreadLocal`, `NoOrphan`, `KeptWhileUsed`, `ExitClosesAll`, and the refinement of `TerminalOwnership` |
| `terminals_live` | 2 terminals | `EveryCallEnds` |
| `terminals_environment` | as `terminals` | violation of `HandedOutExported` |
| `server` | 1 thread, 4 servers, 2 crashes, 3 rounds | `ServerIsNamed`, `RestartReplaces`, `StopLeavesNothing` |
| `server_live` | 2 threads, 1 server, 1 crash, 2 rounds | `EveryOperationEnds` |
| `server_stale_pid` | as `server` | violation of `AlreadyRunning` |
| `config` | 3 calls of one thread, with a check | `NoFalseAlarm`, `LoadedOnYield`, `UnloadedOnReturn` |
| `config_live` | 2 calls of two threads, one config is bad, 1 command raises, any options | `EveryWaitEnds` |
| `config_unchecked` | 2 calls of one thread, any options | violation of `LoadedOnYield` |
| `query_arguments` | every combination of arguments, at most 2 retries | violation of `ArgumentsAreKept` |
| `on_a_node` | one of the parts below at a time, in `MCNodeWork` | |
| - queries | every combination of arguments, at most 2 retries | `RepeatedOnRequest`, `CheckedAsAsked` |
| - invalid configs | 3 calls one after another, any step raises | `MessageIsOwn`, `InvalidConfigIsGone` |
| - log | a log of up to 8 bytes, the server writes at any time | `DumpIsOffByOneAtMost` |
| - steps | 6 steps of every kind, nested, 2 failures | `LeavesNothing` |
| - keepers | 3 keepers, 2 deaths | `TestHasKeepers`, `CleanUpStopsAll` |
| - lookup | both versions, a timeout of 12 seconds, 3 and 2 for the control terminal, a clock of 30 | `KeepsItsTime`, `LookupEnds` |
| `programs` | one of the parts below at a time, in `MCPrograms` | |
| - cluster | 1 ZooKeeper and 2 ClickHouse nodes, 5 attempts, 2 programs, 1 container exits | `ServersAreOurs`, `EveryUpEnds` |
| - binary | 4 suites one after another, all four sources, any of them killed | `WholeUnlessMissed` |
| - version | 2 binaries, versions of up to 2 numbers and a word | `VersionOfBinary`, `TestedVersionIsServers`, `Trichotomy`, `Monotone` |
| - pool | 7 of the 23 suites with their parameters, 2 at once | `EverySuiteIsOver`, `ProgramsEnd` |
| - scripts | 3 scripts of two users, any request fails | `ExitCodeZero`, `OwnTrigger`, `ProgramsEnd` |
| - retries | 0, 1, 2 and 5 retries, 100 looks for the docker daemon | `ExitCodeZero`, `ProgramsEnd` |

`NodeWork` and `Programs` put the small models into one specification each: they
instantiate every module with variables of its own, and `part` says which of
them the behaviour is about; `MCNodeWork` and `MCPrograms` give the constants
values. The parts share no variable and none reads
another's, so a step of one cannot change what a property of another says, and
interleaving them would add states but no cases. A property of a part is checked
as `part = ... => property`.

Each run checks the type invariants of its modules where it is not about one
property only.

Why the bounds are enough. Terminals: two threads are what a race needs, one
more than its holder; four terminals are one per thread and place, so a free one
exists while others are lost or replaced; one failed try takes every loop
through failing, succeeding and giving up. The theorems below have no bounds.
Server: two crashes let a stale pid file meet a server that is being started;
four servers are two restarts and two replacements. With two threads on one node
`ServerIsNamed` does not hold (the `rm -rf` of one can hit the file of the
other's new server), the suites do not do that; liveness is checked for two.
Configuration: two configs are needed for a message of the wrong reload, the
third one is in place meanwhile. Queries: the second retry is the first whose
delay differs. Cluster: two programs are what an old server needs, five attempts
are those of the code. Binaries and versions: the second suite, or binary, is
the first that meets what an earlier one left. Fixtures:
two failures are one in a set-up and one in the clean-up that follows. Keepers:
of three, one can die with one before and one after it. The lookup's clock goes
beyond the sum of its timeouts, which is as far as a lookup that ends can get;
its timeout is longer than that of the control terminal here and shorter in the
code, and the theorem is for both.

Fairness. `terminals_live`: a thread that can take a step takes it (weak
fairness), and a thread that asks for the lock gets it at last (strong fairness:
a `threading.Lock` is not fair by itself, but its holder lets it go and sleeps
between attempts, and the loops are bounded). Nobody is made to call.
`server_live`: threads go on, and a server that was launched writes its file or
gives up; it need not answer, stop or die. `config_live`: the reloader's thread
runs, and a call goes on; the test's own body need not end. `on_a_node`: the
lookup goes on asking, the rest is safety. `programs`: in the cluster the
program goes on, since every command has a timeout; containers need not exit,
the next program need not be started. In the pool the program goes on and every
suite ends, which is assumed, for the tests of a suite are not modelled. Scripts
go on, and the service finishes every pipeline, for the script itself has no
timeout. The retry loops go on.

### Where code and documentation differ

* `terminals_environment`: a host terminal whose exports time out stays in the
  dictionary, and the next `bash(None)` returns it without the environment.
* `server_stale_pid`: `start_clickhouse` says "already running" because of the
  pid file of a server that crashed.
* `config_unchecked`: after a call with `check_preprocessed=False` the next one
  takes the message of the earlier reload for its own.
* `query_arguments`: a retry forgets `retry_delay`, `secure`, `hash_output` and
  the other arguments that are not passed on.

Seen while modelling, and not shown by a run of its own:

* `up` tests the exit codes of `docker-compose ... | tee`, which are those of
  `tee` (`cluster.py` 1272-1305); `ClusterUp` models it so.
* `down` writes a message on every ClickHouse node before its `try`, and
  `__exit__` collects logs before `down`: with debug on a node that is gone, and
  otherwise a timeout, keeps `docker-compose down` from being executed
  (`cluster.py` 1155, 1198).
* A command that is called on a terminal which another thread's `restart` of the
  node has just closed runs in a new process that nothing closes any more
  (`cluster.py` 83); a `down` that raises half way leaves the control
  terminal open (1214).
* A suite takes the file that another is still downloading, or that a killed
  program left half written (856), and a failed `docker cp` is not noticed (961).
* The lookup of a container id in `ssl_keeper` goes on for ever, with the lock,
  when it is answered at once that there is no container
  (`ssl_keeper/helpers/cluster.py` 1018).
* `tail -c +N` begins one byte too early (`common.py` 132).
* `delgroup clickhouse` is executed whatever the group is called (`common.py`
  550), a user that was there before is deleted when `useradd` is refused (538),
  and `usermode` (511) is not a command.
* A dead keeper ends the clean-up of all (`clickhouse_keeper/tests/steps.py`
  456).
* `regression.py` loads `map_type`, which does not exist, and does not pass
  `collect_service_logs`, which every suite requires (27, 110).
* Two runs of `cicd-trigger.py` may create two triggers for one user (47).
* `retry.sh` with 0 retries ends with success (11); "Retrying..." in
  `online-runners.py` is followed by a `break` (71, 77).

## 4. Proofs

`ShellPoolProofs` proves, for every set of threads, nodes and terminals, every
bound of the loops and every suffix relation of names:

* `TypeCorrect`, `TerminalsAreThreadLocal`, `NoTerminalIsLost`,
  `TerminalInUseIsKept`, `ExitClosesTerminals`: the invariants of the run
  `terminals`;
* `PoolImplementsOwnership`: `ShellPool` implements `TerminalOwnership`.

Assumptions: `ShellPoolAssumption` only (the special values are different from
the others, a name ends with itself, the bound is a number). It is evaluated by
TLC in every run of `MCShellPool`.

The argument. None of the properties is inductive. That no two threads use one
terminal (`ThreadLocal`) is about terminals in hand, but a terminal gets into
the hand from the dictionary, so the dictionary must not have it twice
(`PoolInv`), nor have what another thread holds (`HeldInv`), nor the control
terminal (`ControlInv`). That nothing is lost (`NoOrphan`) needs to know that
the entry that an opening overwrites is closed (`OpenInv`), which rests on the
lock being held from the look into the dictionary on (`LockInv`). That leaving
closes everything (`GoneInv`) needs that all others have ended (`LeaveInv`).
`IInv` is the conjunction; there is one lemma per part, with one case per
action. The parts about ownership are proved through the five shapes a step can
have (it drops terminals, gives one, makes a control terminal, a pooled one or a
unique one: `StepShape`), and the same shapes give the refinement.

`AddConfigProofs` proves, for every set of configs and every set of bad ones
among them, with and without restarts of the server:

* `TypeCorrect`: the types of the variables, whoever calls and whatever raises;
* `ConfigIsLoaded`: the test runs with its config loaded (`LoadedOnYield`);
* `ConfigIsUnloaded`: a call that returns normally leaves its config unloaded
  (`UnloadedOnReturn`).

The last two are for calls of one thread, each with its check, without commands
that raise (`OneThreadChecked`). The hypothesis is needed: `config_unchecked`
shows a call that fails after one without a check. Bad configs and the errors
they lead to are not excluded.

The argument. A call ends its wait on the first message its tail of the log
shows. Nothing in the message says which edit it belongs to, so the proof has to
show that it cannot belong to an earlier one: one call at a time waits
(`AloneInv`), and when none waits, or the one that waits has not edited yet, no
reload is under way or due (`QuietInv`). A reload that runs later has read the
files as they are (`ReloadInv`), hence what is heard is about them (`HeardInv`),
and they have the file of the caller or not, as its phase says (`EditedInv`).
`QuietInv` is the part that is given back at the end of every wait: a call
returns after the message, and after the message the reloader has nothing left
to do.

`NoAlarm`: in calls of one thread with their checks, without bad configs, no call
of `add_config` raises (`NoFalseAlarm`). Without bad configs, because a server
that cannot read a config logs an error, and then a call raises with reason. The
argument goes on from the invariant above: an edit always changes the files,
since a config that is added is not there yet and one that is removed is there
(`ChangesInv`); so the reloader has something to do until the message comes
(`AwaitedInv`), unless the server is down, which it is only within a restart of
the call itself (`DownInv`). None of the steps that raise is then enabled
(`NoneRaises`).

`ClickHouseServerProofs` proves, for any number of servers, crashes and rounds:

* `TypeCorrect`: the types, for any number of threads on the node. The invariant
  has to add that between `kill -TERM` and `rm` the local `pid` is a number and
  not cat's error message (`PidAt`), for it is the argument of `ps`;
* `NamedServer`, `Replaced`, `StopsAll`: `ServerIsNamed`, `RestartReplaces` and
  `StopLeavesNothing` when one thread works on the node (`OneThread`). The
  hypothesis is needed: the `rm -rf` of a second thread can hit the pid file of a
  server that was just started.

The argument. A server owns the file from the moment it has written it until it
has ended in order. At most one is starting, while its own call waits for it and
there is no file (`StartingAlone`, `LaunchAt`), so the one that comes up finds no
other. In a stop the local `pid` is the one server there is, from the `cat` on
until `ps` no longer shows it (`StopAt`). For `Replaced` each server that was up
at the call is followed (`BeforeAt`): before the `kill` it owns the file if it is
alive, so it is the one the file names; then it is the one that is waited for;
after `rm`, or after the container was stopped, it is not alive.

`ClusterUpProofs` proves `TypeCorrect` and `OursOnEntry` (`ServersAreOurs`) for
any nodes, attempts, programs and exits. The invariant is about the nodes `up`
has passed: each ClickHouse node of them runs a server of this program, or its
container is gone (`StartedInv`). It survives a container that exits, and it
holds again after every attempt since each attempt begins with the first node
(`NextInv`). What old containers there are does not matter, since
`start_clickhouse` raises on a pid file. `OrderHasAll` says that the loop reaches
every node.

`NodeQueryProofs` proves, for any `retry_count`, any arguments and any answers:
`TypeCorrect`, with a bound on the runs of the client; `NoUncalledRetry`
(`RepeatedOnRequest`); `ChecksAreMade` (`CheckedAsAsked`: what returns had a
result, and its exit code, its message and its exceptions were as asked for).
The runs made and the retries left add up to what the caller asked for
(`AnswersInv`). What the recursive call forgets, `ignore_exception` and
`hash_output` among it, can only make the checks stricter (`KeptInv`); that is
why the divergence `query_arguments` shows does no harm to the checks.

`NodeWorkProofs` proves for the parts of `NodeWork`, each with an invariant of
its own (`AllInv` is their conjunction, `AllStep` one case per part):

* `TypesCorrect` (`TypesOK`), of all six parts;
* `OwnMessage`, `InvalidGone` for any number of calls of `add_invalid_config`:
  once the log has been overwritten a visible message was logged in this call
  (`SeenIsOwn`), and the file is replaced before the last restart (`FileIsGone`);
* `DumpOffByOne` for a log of any length: the bytes lie in the order of the
  times they were written at, and the two sizes separate them (`LogLabels`,
  `Window`); the dump begins one byte early (`Dumped`);
* `NothingIsLeft` for any steps at any depth with any number of failures, if a
  group that is added is the default one (`OnlyDefaultGroup`): `delgroup` names
  that one whatever was added, so another group does stay. What is on the node
  and was not there before belongs to a step still on the stack (`Pending`) or
  its clean-up has failed;
* `KeepersForTest`, `KeepersStoppedAll` for any group: the loops go through the
  group in order, and what they have passed stays so (`KeepersStarted`,
  `KeepersStopped`), because a keeper that is up can only die;
* `LookupInTime` (`KeepsItsTime`) for any timeouts: without the time to open a
  control terminal, the clock and the time left add up to at most `Timeout + 1`
  in the version of `helpers` (`LookupHelpers`), and with it to at least
  `Timeout` in the one of `ssl_keeper` (`LookupCopy`). A control terminal is
  opened once (`LookupOnce`), for a command that is cut off is the last.

`ProgramsProofs` does the same for the parts of `Programs`:

* `TypesCorrect` (`TypesOK`), of all six parts;
* `WholeBinary` for any number of suites one after another (`AtOnce = 1`; with
  two at once one takes the file the other is still downloading). With `https` a
  partial file is there only while its suite writes or removes it, or after a
  kill (`Download`); with `deb` and `https_deb` the bridge is unpacked last, so
  where it is the binary is (`Package`), which also needs that a binary is there
  from the moment its unpacking has begun;
* `OwnVersion`, `ServersVersion` for any versions and binaries: the version is
  what the option, the tag or the server says, as far as they have been asked
  (`Expected`, `VersionInv`);
* `TotalOrder`, `MonotoneChecks` for versions of any length: Python's order of
  lists (`Less`) is irreflexive, transitive and total (`LessTotal`: two lists
  that differ have a first place where they do, by `LeastNatural`, or one begins
  the other), and cutting the version to the parts of the one asked for keeps
  the order (`VersionCut`, `CheckSays`);
* `EverySuiteOver` (`EverySuiteIsOver`) for any list, parameters and pool: when
  `regression` has ended no suite is queued or running, each one has met its
  `Fate`, and it raised if and only if a suite was missing. A suite is listed,
  or on its way to its fate (`OnItsWay`);
* `MeaningOfZero` (`ExitCodeZero`) for any scripts and any number of retries.
  `cicd-trigger.py` with `--wait` ends with 0 only after a successful pipeline,
  for a final status a script knows is that of its pipeline (`KnownIsFinal`), and
  without it only after a pipeline was started. The retry loops end with 0 if and
  only if the last try did it or, in `retry.sh`, there was none to be made
  (a limit of 0);
* `TriggerOfOwn` (`OwnTrigger`): the trigger that a script uses exists and is of
  its own user (`HasTrigger`), and triggers are not removed.

Assumptions: besides the hypotheses named above only the named assumptions of
the modules on their constants. They say that bounds are numbers, that special
values differ from the others, that suites and steps are named by strings and
that the suites are finitely many; TLC evaluates them in every run.

Only model-checked: liveness (`EveryCallEnds`, `EveryOperationEnds`,
`EveryWaitEnds`, `EveryUpEnds`, `LookupEnds`, `ProgramsEnd`), which is out of the
prover's reach. Every invariant and action property of the passing runs is also
a theorem.

## 5. Plan

1. Done: the models, and proofs of all their safety properties.
2. Left to prove: the weaker statements that hold without the hypotheses of one
   thread, of checked calls and of one suite at a time; an abstract
   specification of the server of a node (down, coming up, up) that
   `ClickHouseServer` implements for one thread.

## 6. Not modelled

The text of commands, of XML and of descriptions; output that is truncated by
`max_query_output_in_bytes`; which user a server runs as; the program behind a
terminal (`command` of `bash`, which is not part of the key, `su` and `exit` of
`change_user_on_node`, `set -o pipefail` of `hash_query`, variables that are
lost with their terminal); users.xml as a second preprocessed file; pids that
are used again by other processes after a restart of the container.
`Cluster.command` and `Node.cmd` make the checks of `query` once and keep no
state. `ZooKeeperNode` calls `zkServer.sh`. `create_cluster`, `argparser.py`,
`tables.py` and `datatypes.py` compute paths, options and text. The contexts of
single suites (`s3`, `parquet`, `tiered_storage`, benchmarks) set variables and
make queries. The suites, ClickHouse, docker-compose, TestFlows, GitLab and the
keepers are external.

Most lines of this repository are no code of the system: about five sixths of
its implementation files by lines are the generated `requirements.py` of the
suites, objects that hold the text of a Markdown file and have no behaviour. The
vendored tests (`clickhouse/functional`) and snapshots are not part of it
either. So the modelled lines are a small share of all lines, and most of the
lines of the shared helpers.

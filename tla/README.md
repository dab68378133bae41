# siliconcompiler in TLA+

A verification project for siliconcompiler, the build system that runs a hardware compilation
flow: a graph of tool tasks (nodes, named step/index) executed in parallel on one machine, on a
cluster, or on a remote server, with the record of what happened kept in a manifest (the schema).

Paths are relative to `siliconcompiler/` unless they start with `tests/` or `docs/`.
`T`, `F`, `SN`, `SC` stand for `scheduler/taskscheduler.py`, `flowgraph.py`,
`scheduler/schedulernode.py` and `scheduler/scheduler.py`.

## 1. The system

| Part | State | Operations | Talks to |
|---|---|---|---|
| Task scheduler, `T` | per node: its process, `running`, its inputs, threads, manifest; the record's statuses | `run`, the run loop, `halt`, `halt_all` | node processes (fork, exit code, manifest on disk, pipe), the record |
| Node, `SN` | work directory, status, journal, metrics | `setup`, `requires_run`, `run`, `execute`, `halt` | the task, the manifest, the path cache |
| Job scheduler, `SC` | statuses, job history, build directory | `run`, `configure_nodes` | nodes, the previous manifest, task scheduler |
| Flowgraph, `F` | nodes, edges, the runtime view | editing, validation, execution order, runtime inputs | the record |
| Schema, `schema/` | parameters, values per node, journal | get, set, add, unset, remove, replay | everything |
| Package cache, `package/` | resolved paths, failures, attempt budgets, locks | `get_path`, `resolve`, `seed`, `export` | threads and processes of a run |
| Remote server and client, `remote/` | job table, node table, locks | run, progress, cancel, delete, fetch, shutdown | job threads, the task scheduler |
| Process manager, settings, `utils/` | a singleton per process, a file all processes share | get, set, save, fallbacks | all of the above |
| Cluster schedulers, `scheduler/docker.py`, `slurm.py`, `run_node.py` | a container or a batch job | `run`, `halt` | a node's process waits for them |

A run goes like this. `Scheduler.run()` restricts the flow by the options from, to and prune,
reads the results of earlier runs, decides node by node which of them to use again, empties the
directories of the others, and hands over to the task scheduler. That one forks a process per
node when the node's inputs have settled and the limits on cores and processes allow, and learns
the outcome from the exit code and from the manifest the process leaves. Nodes and the run fetch
remote data through a cache directory that all processes on the machine share. Meanwhile another
thread may halt everything, and any process may be killed.

What is hard here:

- The record is kept twice, in the parent and in the manifest of each node, and put together from
  what a process happened to leave.
- Halts, interrupts and callbacks that raise arrive between any two steps of the run loop.
- Whether a result is still good is decided from an earlier run's manifest, while parameters, the
  options of the run, and the set of skipped nodes change.
- Which nodes make up a run, and which results a node works on, are asked of two different views.
- Fetches exclude each other with a lock per process, a lock between processes, and where that one
  is not supported, with a third kind of lock.
- A node's process watches over a tool, its children, a container or a batch job, while interrupts
  and kills reach any of them.
- A remote client and its server share a record by requests that time out and archives that are
  written, reported, downloaded and imported by four different threads and processes.
- Nodes that run at once change one schema, each in a copy, and their journals are replayed in the
  order they end, and again by later runs.

`PROJECT.json` lists the components with what is left out of each, the hazards at their lines, and
for every definition the lines it stands for.

## 2. The modules

| Module | Models | Extends or uses |
|---|---|---|
| `NodeStatus` | statuses, `_common.py` | |
| `DagExecution` | abstract: what one run of a flow promises | `NodeStatus` |
| `TaskScheduler` | `T`, the processes of nodes, halts | `NodeOutcome`; instantiates `DagExecution` |
| `NodeOutcome` | what a node's process may leave behind | `NodeStatus` |
| `NodeProcess` | `SN.run`, `execute`, `halt`; `tool.py`: `run_task`; the wrappers for docker and slurm | `NodeOutcome` |
| `FlowOps` | entry and exit nodes, outputs, execution order | |
| `Flowgraph` | the editing calls and `validate()` | `FlowOps` |
| `RuntimeFlow` | `RuntimeFlowgraph`: the view made by from, to and prune | `FlowOps`, `NodeStatus` |
| `RuntimeView` | a view while a run executes it | `RuntimeFlow` |
| `IncrementalBuild` | `SC.configure_nodes` and `SN.requires_run` over many runs | `NodeStatus`; `MCIncrementalBuild` takes its views from `RuntimeFlow` |
| `DataFetch` | `package/`: fetching one source | |
| `RemoteJob` | `remote/server.py` and `remote/client.py`: one job from upload to results | `NodeOutcome`; `MCRemoteJob` takes its views from `RuntimeFlow` |
| `SchemaJournal` | calls on one parameter, the journal, its replay by this run and later ones | |
| `TaskSchedulerProofs`, `FlowgraphProofs`, `RuntimeViewProofs`, `IncrementalBuildProofs`, `DataFetchProofs`, `NodeProcessProofs`, `RemoteJobProofs`, `SchemaJournalProofs` | the theorems | the module named |
| `MC...` | constants for TLC, and claims that do not hold | the module named |

The mutants of the code (definitions marked *Mutant*) stand beside what they mutate. No
specification uses them: they are there to show that each property can fail.

### TaskScheduler

Nodes are numbered by their place in `__ordered_nodes`, so the inputs of a node are smaller than
it. A flow (inputs, thread requests, builtin, remote and breakpoint nodes, statuses from earlier
runs) is drawn in `Init` from a set and stays, so one run of TLC covers many flows.

| Code | Model |
|---|---|
| `__run_loop`, `T:280` | `LoopTest` |
| `__process_completed_nodes` | `ProcessAlive`, `ProcessEnded`, `ProcessTorn`, one node at a time |
| `__launch_nodes`: prune, ready, breakpoints | `Launch` |
| `__allow_start`, `__start_node` | `StartNode` up to the pre_node callback, `SpawnNode`; `Postpone` |
| nothing runs and something waits, `T:292` | `GiveUp` |
| the joins, `T:296` | `Join` |
| Ctrl-C, callbacks that raise | `Interrupt`, anywhere in the loop |
| the `finally` clause of `run()` | `HaltEnter("run")` and the halt steps, then `Return` |
| `halt_all()` on other threads | the same steps by other members of `Halters` |
| `SN.run()` in its process | `Exit`: from alive to an exit code and what is left on disk |

The parent looks at a process only through `is_alive()`, its exit code and its manifest, and the
manifest only when the process is dead; so the whole life of the process is one step. A manifest
is truncated when it is opened, which is why a process that dies while writing leaves a torn one.
`halt_all()` reads `info["proc"]` twice for each node, in two steps. It goes through nodes in
order; the order does not matter for what it can find. A callback `pre_run` that raises does so
before the `try` and before anything in the model has begun.

`DagExecution` says what a run promises whatever schedules it: a node moves once from waiting
through running to settled or is dropped because it is doomed, it runs only on settled inputs, and
a run that calls itself complete leaves nothing startable. `ImplementsDag` is that specification
with each node's phase computed from `procs`, `running`, `status` and `child`.

### NodeOutcome, NodeProcess

`TaskScheduler` needs to know of a node's process only how it can end: an exit code beside a
manifest. `NodeOutcome` names these pairs, `TaskScheduler.Exit` draws from them, and `NodeProcess`,
which has the whole life of the process, shows that there are no others (`OutcomeFits`).

There are two processes. *outer* is the one that was forked. For a local node it executes
`SN.run()` itself; for docker and slurm it waits for *inner*, `run_node.py` in a container or on a
compute node.

| Code | Model |
|---|---|
| `SN.run()` and `execute()` up to the tool | `Setup`, `PreProcess`, `PreProcessSkips`, `StartTool`, `NoTool`, with the failures of each |
| `run_task()`: `Task.run()` or the poll loop | `ToolEnded`, `PythonRaises`, `PollRaises`, `Timeout`, `OutOfMemory` |
| `__terminate_exe()` | `Terminate`, `KillSurvivors`; `TerminateRaises` when psutil does |
| `execute()` after the tool | `PostProcess`, `CheckLogfile`, `ExecuteRaises`, `SaveOpen`, `SaveWrite`, `Verdict`, `ReportOutputFiles`, `Leave` |
| `SN.halt()` | `HaltOpen`, `HaltWrite`, `HaltUnsaved` |
| the wrappers | `PrepareFails`, `LaunchInner`, `InnerEnded`, `WaitRaises`, `StopContainer`, `StopFails`, `Fetch`, `FetchRaises` |
| the tool's processes, a network file system | `Fork`, `MainEnds`, `HelperEnds`, `Propagate` |
| Ctrl-C, signals | `KeyboardInterrupt`, `Kill`, between any two steps |

`excuses` is a history variable: what happened that the code has no answer to (a killed process,
an exception of the poll loop, a helper of the tool that lost its parent, an interrupt that cut
the termination short, psutil raising while the survivors are killed one by one, which leaves the
others alive, a container that could not be stopped, a manifest that could not be written). The
properties name the excuses they need. SIGKILL is taken to work, so the second pass
of `__terminate_exe()` finds nothing and is left out; so is docker on Windows.

### Flowgraph, RuntimeFlow, RuntimeView

`Flowgraph` keeps, per node, the bag of its inputs (`edge()` can name an input twice) and has one
action per editing call with the effect of all of it, including the edges to nodes that do not
exist which a raising `graph()` leaves. `FlowOps.Levels` is the layering loop of
`get_execution_order()`; `OrderEnds` says when that loop ends.

`RuntimeFlow` translates `RuntimeFlowgraph`: the walk back from the end nodes that drops branches
that never meet a start (`WalkBack`), the nodes, ends, order and downstream sets, and node inputs
with skipped nodes replaced by their own inputs. `RuntimeView` puts a view under a run: the
scheduler's plan of inputs (`T:152`) is computed once in `Init`, nodes settle, and what a node
finds when it asks again is compared with the plan. Both ask a view that does not know from and to
(`InputView`), as the code does.

### IncrementalBuild

Runs follow each other over one job directory. Between runs the user changes a node's setting
(which stands for every parameter and file the code compares) or the top module. A run collects
earlier results (`Begin`), checks nodes in execution order (`Reuse`, `Rerun`, `FlowReset`), marks
what is left (`Ensure`), cleans (`Clean`), and runs (`RunNode`). It may stop anywhere (`Stop`),
which stands for failed checks, exceptions, and crashes. A result carries what the manifest
records and, for the properties only, everything it was made from (`made`).

Nodes run one at a time here, since all directories are cleaned before any node starts and what a
node does depends on its inputs alone; their interleaving is `TaskScheduler`'s subject. The code
checks required runs over groups in a process pool; a group holds nodes that do not depend on
each other, so checking one at a time decides the same. Directories are cleaned in any order.
Left out: the forced rerun of breakpoint nodes and results copied from an earlier job name.

### SchemaJournal

One keypath that holds a list or a set, with a slot for each node and one for the whole project.
A node's process gets the project's parameter at its fork (`Fork`), changes its copy (`Set`, `Add`,
`UnsetSlot`, `Lock`, `LockSibling`, `RemoveKey`) and writes a journal. The run replays the journal
when the process has ended (`Merge`); the next run replays those of the results it uses again, in
execution order (`Configure`, `ReplayAll`). A call is recorded when the code records it, which is
not quite when it changes something; a replayed call does what the call does, and a key is not
removed while it or one beside it is locked (`Removed`).

What a run begins with before it replays anything (`Begun`, kept in `origin`) depends on the run
before it, `project.py:653`: in a new process nothing is set; after a run of the same process that
returned the parameter is reset (`Reset`), which clears its values and leaves its locks; after one
that raised, or if its scope is global, it stays as it is, and the variable `carried` says so. Then
the user and `setup()` may set it again (`SetAgain`). A setup names the ways in which its runs begin
(`begins`), any of which may come before any run, whether the run before it failed or not.

More variables are there for what the properties have to tell apart, see section 4: `base` (what a
node's process began with in its own slot and locks), `silent` (slots changed without a record),
`early` (nodes whose old journal was replayed in this run before they were found to have to run),
`overruled` (whether such a journal wrote over items all nodes share) and `meddlers` (nodes that
removed the keypath, or locked or unlocked one here). `OwnValuesArrive` speaks of a reused result only
in runs that begin with what its process began with: elsewhere a recorded `add` is replayed on a
slot that already has the items, or is refused by a lock that stayed. A lock on the defaults a key
is made from is not modelled.

### DataFetch

One source, known under one or more names. All names share one entry of the path cache and one
thread lock, keyed by source and reference; each has its own directory and lock file.
Threads of the run and of the nodes it forks call `get_path()`:

| Code | Model |
|---|---|
| path cached, `package/__init__.py:389` | nothing changes, hence no action |
| budget check, `:395` | `Call`, then `Attempt` or `Abandon` |
| `__thread_lock`, `__file_lock` | `ThreadLock`, `FileLock`; `FallbackLook`, `FallbackTouch` where file locks are not supported; `StopWaiting` for timeouts and interrupts |
| `check_cache()` of https and git | `Found`, `Missing`, `CheckRaises`; a git command that fails on a clone, which is then deleted: `Corrupted`, `Deleted`, `DeleteRaises` |
| `resolve_remote()` | `Download`, `Stored`; `FetchFails`, with its cleanup working or not |
| leaving the locks | `Release` |
| the rest of `get_path()` | `Record` |
| fork, end, `seed()` | `Fork`, `Finish`, `Collect` |
| kills, another run | `Kill`, `Restart` |

`torn` is a history variable: the directories that a killed process, or a failed cleanup, left
incomplete and that nobody has completed since, and the clones that a check deletes. That check
(`package/git.py:67-82`) deletes any clone on which a git command fails, complete or not, also one
that other threads and processes have been served; so `CompleteIsKept` says who may take a complete
directory away and when, and not that nobody does. `Setups` says for git or https whether file locks
work. A thread's look into the cache and its budget
check are one place (`budget`): between them nothing is changed that a later step does not look
at again. The two locks are released in one step: the other threads of the process cannot enter
between, and other processes look only at the file. A worker's name is used again once its
message was collected. Left out: a cache directory that cannot be written, whose content is
served without a lock; delays; permissions.

### RemoteJob

One job, its thread on the server, the tables that requests are answered from, and one client.
Several jobs would share only the lock, since each has entries of its own.

| Code | Model |
|---|---|
| `handle_remote_run()` | `RemoteRun` |
| `remote_sc()`, `__run_job()` | `ListNodes`, `SetUp`, `RunStart`, `JobEnds`, `JobFails`, with `DropEntry` for the `finally` clause |
| node processes and callbacks of the run loop | `NodeStart`, `Exit`, `Crash`, `Arrive`, `NodeEnd`, `NodeArchived`, `ReplayRaises`, `CallbackRaises` |
| `handle_check_progress()` | `CheckProgress`, answered through `answer` and `message` |
| `handle_cancel_job()`, `__cancel_job()` | `CancelRequest`, `CancelJob`, `Scancel` for every node listed, `CancelAnswer` |
| `handle_delete_job()` | `DeleteJob` |
| `__shutdown()` | `Stop`, `StopCancels`, `StopHalts` |
| the client posts the job | `Post`, `Posted`, `PostFails` |
| its loop | `Poll`, `PollTimesOut`, `ServerGone`, `Report`, `ReportUnknown`, `Released`, `Finish`, `Disconnect`, `Reconnect` |
| its pool of downloads | `FetchNothing`, `FetchBegins`, `FetchEnds`, `FetchFails` |
| its import of manifests | `Import`, part of other steps or alone (`ImportPass`) |

How nodes are scheduled on the server is `TaskScheduler`'s subject: here a node starts when its
inputs have settled, and ends as `NodeOutcome` says it may: with 0 beside a manifest, or on slurm
before its manifest can be seen, which may then still come (`Arrive`); with another code beside any
manifest that a failure leaves; killed by the server or by the system (`Crash`), whatever it has
written. `running` and `failed` are what the run loop goes by, and `Verdict` is the status it
records: ERROR for every code but 0, whatever the manifest says, and RUNNING for 0 without a
manifest. A torn manifest makes the run raise (`ReplayRaises`).

## 3. What is checked

| Run | Instance | Shows |
|---|---|---|
| `ts_run` | 3 nodes on 3 cores, at most 2 local processes: every wiring with builtins and earlier results of every kind, whole and partial; every thread request, remote nodes, breakpoints on nodes without edges; `halt_all()` beside the run | every started task settles and every other has a cause; limits on processes and threads; breakpoints alone; no process outlives `run()`; final outcomes; `DagExecution` is implemented; `run()` returns |
| `np_node` | one node in all 72 settings (runner, tool, timeout, continue, enforced outputs), up to two interrupts | the outcomes `TaskScheduler` reckons with are all there are; a success is earned; the tool ends with the node; a timeout ends it |
| `fg_edit` | 4 names, two of one step, 3 nodes at a time, 2 equal inputs | orders are topological, edits keep soundness and dependencies |
| `rv_views` | every wiring of 4 nodes in 3 steps; every from, at most one step in to, one node pruned | views hold what lies between from and to and have the right downstream sets; nodes work on the nearest results, which have settled |
| `ib_runs` | a fork that joins again, 2 settings besides those that skip, 2 top modules, whole runs and restarts from any step | reused results are what a run from scratch would make; from is rerun; nothing below a pending node counts as done; no needless reruns |
| `sj_replay` | 2 nodes in sequence or side by side, a list or a set, with and without a default, runs that begin in a new process, after a reset, or on what was left; 2 calls, 3 runs | a node's own values arrive, now and in every later run that begins alike; nothing added to a shared list is lost unless the list was locked from the start; nodes start from what the run began with |
| `df_fetch` | two threads of a run, one using both names, one forked node; git, with and without file locks, or https; budget 1 | mutual exclusion, complete results, the budget, lock holders |
| `rm_job` | 2 nodes, chained or not, one skipped or none, local or slurm; one kind of outside event in each behaviour | a job counts as running until it is over; tables are drained; cancellation sticks; a client that waits to the end has every result, and every client ends |
| `tsv_halt_fails`, `fgv_loop`, `ibv_to`, `rmv_reconnect` | see section 4 | claims of comments and documents that do not hold |

Why these bounds. Three nodes give a scheduler a chain, a fork, a join, and a node that waits for
a limit while another is ready; a breakpoint needs one node running and one ready, which is two. A
halt races with the loop over one node, so two nodes are one to race over and one to lose. A fork
that joins again (four nodes) is the smallest flow in which one input of a node is rerun and
another reused. Two threads and one process are the fewest in which both locks matter, and one
thread with both names is what separates the thread lock from the lock file; with a budget of one
the overrun is already possible. `MaxRepeat` is 2 because a doubled edge is what the code treats
apart. Runs, edits, restarts and forks are not bounded in number.
Two nodes in a remote job are one whose results are being downloaded and one that still runs; the
outside events of one kind (`Event`) may come at any step, and one repetition of a request
(`MaxTimeouts`) is enough to answer late. A second interrupt is the one that meets `halt()`. Three
runs of `SchemaJournal` are one that makes results, one in which a node fails, and one that replays
the result of the node below it before it finds that it has to be made anew; two calls are a
conflict of two nodes, or an order in one. What replayed journals do to one another over items all
nodes share (`overruled`) takes three nodes: of that the theorem speaks, and no run.

Deadlock is checked in all runs but those of `RuntimeView`, where a run ends when every node has
settled or waits for one outside the view, and of `RemoteJob`, where everything stops when the
client has left and the job is over. `TaskScheduler`, `NodeProcess` and `SchemaJournal` have an
explicit last step, so that a deadlock elsewhere would be reported.

Fairness is used for three properties. For `RunReturns`, the run's thread is scheduled; a caller
that holds the halt lock goes on, since its joins are bounded (`T:355`); a node's process ends by
itself. The last is an assumption about tools: one that hangs, without a timeout, is waited for
forever. Nobody has to interrupt or to halt, and no process has to be killed. For `TimedNodeEnds`,
which is about such tools, the node's two processes take their steps, and the poll loop sees that a
tool has ended; the tool need not end, nor `Task.run()` return. For `ClientEnds`, the thread of the
job and the nodes go on while the server is up, requests are answered, and the client and its pool
run; nobody has to cancel, stop or reconnect, and once the server is down its threads may end
anywhere.

## 4. Where code and documents differ

Each is shown by a run whose only property is the claim.

- `tsv_halt_fails`: `halt_all()` may raise, although a comment says whoever arrives second finds
  nothing running and returns (`T:342-344`). It reads `info["proc"]` twice and the run loop sets
  it to None in between. The cleanup of `run()` itself cannot fail this way (the theorem `RunCleansUp`).
- `fgv_loop`: `validate()` accepts a flow with a loop that no entry node reaches, and
  `get_execution_order()` then never ends (`F:775`).
- `ibv_to`: after a run limited by from and to, results older than their inputs are reused by a
  run of the whole flow (`SN:478`).
- `rmv_reconnect`: a client that reconnects to a running job, as the user guide and a test say it
  can, asks only for what lies below an entry node; the server reports all nodes and the client
  looks one up that it does not know (`apps/sc_remote.py:155`).

Met while modelling, and not given a run:

- A node whose child is killed while writing its manifest keeps the status RUNNING: replaying the
  manifest raises first (`T:418`).
- `halt_all()` does not keep the run loop from starting further nodes (`T:345`).
- A builtin all of whose inputs were skipped is dropped as if they had failed (`T:576`).
- A slurm node whose manifest is never seen stays RUNNING (`scheduler/slurm.py:352`).
- The view that is asked for inputs is built from step names, so that an index with inputs of an
  entry step cuts off what is above it (`T:145`, `tool.py:602`).
- A reset of the whole flow marks nodes pending that setup has skipped, and they are run
  (`SC:807`). A node that `pre_process()` skipped is never compared again, so it stays skipped when
  its parameters change (`SC:692`, against the docstring at `SC:786`), and its journal is not
  replayed. A node that setup skipped keeps its directory, and its result may be reused when it is
  switched on again (`SC:636`); `UpToDate` makes no claim of it.
- `configure_nodes()` replays the journals of what looks reusable (`SC:805`) before it marks the
  nodes below a failed or missing one (`SC:817`): such a node starts from its old metrics; hence
  `early`.
- The docstring of `__reset_job_params()` says that it resets all non-global parameters after a run
  (`project.py:682`). A run that raises does not come to it (`project.py:653`), and a reset leaves
  locks (`schema/parameter.py:528`). The next run of the process begins with what nodes have left,
  and replays journals on top of it; hence `carried`, and `Own(origin, n) = base[n]`.
- The server records and reports a node by its exit code, and the client imports the node's manifest
  over what it was told: of a node that was killed after its manifest was saved the client's record
  may say success and the server's error (`T:443`, `remote/client.py:652`).
- `set()` to an empty list, and `add()` of nothing new, change a slot and are not recorded, while
  `unset()` is recorded even when a lock kept it from doing anything (`schema/baseschema.py:733`);
  hence `silent`. Of two nodes that set a global value the last to end wins in their run, and the
  later one in execution order when the results are used again.
- `clobber=False` with an integer index overwrites, because `is_set()` is asked before the index is
  made a string (`schema/parameter.py:383`).
- An upload that times out is sent again after it was read to its end (`remote/client.py:189`).
- At shutdown nodes of a job that is still setting up may be started after `halt_all()`
  (`remote/server.py:623`).
- `graph()` raises at the first step that exists, after copying the ones before it (`F:451`).
- `insert_node()` is documented to insert before a node and inserts after it (`F:346`).
- `get_nodes_starting_at()` can leave the view (`F:1455`); `StartingAtIsDownstream` says when not.
- `check()` compares step names, not nodes (`T:632`).
- An https directory is taken to be valid when it exists, so one torn by a kill is served from
  then on (`package/https.py:179`); hence `torn`.
- A clone that was served is deleted, and fetched again, when a git command fails on it under
  another thread's or process' check, a failure that need not be the clone's (`package/git.py:73`).
- psutil raising for one process that survives termination leaves the others alive (`tool.py:1261`);
  hence `unkilled`.
- Where file locks are not supported, looking for the lock file and creating it are two steps, and
  two processes may fetch at once (`package/__init__.py:616`); hence `~ fallback`.
- A node forked while a thread of the run holds the source's thread lock has a copy that is held
  forever (`package/cache.py:528`), and its fetch waits until it times out; hence `Ghost`.
- Timeouts of locks spend the budget of attempts (`package/__init__.py:404`).

## 5. What is proved

The theorems hold for every value of the constants that satisfies the named assumptions; these
say that sets are finite, inputs are smaller than nodes, and special values are distinct.

**TaskSchedulerProofs** (any number of nodes, flows, cores, and callers of `halt_all()`):
`TypeOK`, `StartedOnSettledInputs`, `BreakpointIsolated`, `LocalParallelBound`,
`LocalThreadBound`, `NoProcessOutlivesRun`, `OutcomeIsFinal`,
`StartedNodesSettle`, `UnstartedHasCause`, and that `TaskScheduler` implements `DagExecution`. None
of the invariants is inductive alone.
`IInv` adds what the run's thread relies on between its steps: what the current pass has still to
look at is running, or waiting (`PassInv`); live processes are among `running` and waiting nodes
have none (`ChildInv`); a node in `procs` has not settled (`StatusInv`); what is about to be
started has its inputs settled, and inputs that have settled stay so (`ClearedInv`); a chosen
breakpoint is the only choice (`BreakpointInv`); between the check and the fork there is still
room (`ParallelInv`); and every live process is either to be looked at by the cleanup or among its
victims, because nothing is started once the loop is left (`HaltInv`).

The bound on threads (`ThreadInv`) adds that the node that is about to be forked has its threads
free besides those that run. Its sum is a fold over a set: that adding a node adds its threads
follows from the fold being a function on the subsets of a finite set, which is shown on sets of
growing size.

Three more invariants say what a run that is over looks like. `EndingInv`: no ending is decided while the loop goes on, and when the loop ends by itself
nothing runs and nothing is ready. `FateInv`: a task taken out of `procs` was started, or cannot
run; and what makes it unable to run stays. `ResultInv`: a local node that was started and no
longer runs has settled, because a process that exits with 0 left one of the manifests of
`NodeOutcome`. The step that matters is `GiveUp`: a pass that ends with nothing
running has looked at every ready node, and with nothing running there is room for each, so there
was none. `UnstartedHasCause` then takes the first node that was never started (well-foundedness of
the numbers): all its inputs are settled, lost, or outside the run, so one of them is the cause.
The refinement has one lemma per kind of step: `SpawnNode` starts, `ProcessEnded` finishes,
`Launch` drops all that is doomed at once, and nothing else changes a phase.

**FlowgraphProofs** (any set of names, any flow, any edit): `EditsKeepSoundness`,
`EditsKeepDependencies`, `OrderIsTopological`. That one node depends on another is a statement about
sets that nothing outside feeds, so that each edit turns such a set of the flow before into one of
the flow after, and back; this replaces an induction along paths. `remove_node()` of a step is a fold
over its nodes and is followed node by node. For the order, `LevelInv` says what the loop keeps: a
node waits on a level from the first visit of an input to its own, once its inputs have been
visited. Some node not yet visited has only visited inputs (one that depends on the fewest others),
so each level visits another node until all are; and the last level a node is on comes after the
last level of its inputs.

**RuntimeViewProofs** (any flow whose nodes are numbered in an order of execution, all options,
any statuses and results): `ViewIsBetween`, `StartingAtIsDownstream`, `InputsAreNearest`,
`FoundInputsSettled`. The walks and the inputs are recursive functions: first each is shown to exist
on the nodes up to k, for every k, hence at every node to be what the code computes from the nodes
above it, or below. Then a walk back collects exactly the live nodes a node needs, those with a
node of from in their cone (upwards through the nodes), and a walk forward from a live node stays in
the view when no node of from depends on another (downwards). For `FoundInputsSettled`, which is
about a run, the invariant is that the scheduler planned with some earlier statuses, and that
whatever changed since was pending, is known to the view, and settled after its own planned inputs:
so a node that was skipped since passes on inputs that have settled. `ViewsSuitIncrementalBuilds` and
`OpenRunsReachDown` show of these views what the next theorems assume.

**IncrementalBuildProofs** (any flow, settings, and views that satisfy the assumptions on what a
view is): `TypeOK`, `DownstreamPending`, `FromIsRerun`, and, under hypotheses, `UpToDate` and
`NoNeedlessRerun`. The strengthening for the first ones is that pending nodes
are closed downwards apart from nodes that setup skipped. The step that matters is `RunNode`: a
node that may start has no pending input, however many skipped ones are between, so settling it
cannot leave a pending node above a settled one. The assumption on views that carries this, that
any part of what is below a node is entered from the rest, is what `ViewsSuitIncrementalBuilds`
proves of the views of `RuntimeFlow`.

`UpToDate` is proved (`ReusedIsUpToDate`) for runs that go on to the end of the flow
(`RunsReachDown`, without which it fails, see `ibv_to`) and for nodes that the user does not switch
on and off (`SkipsAreFixed`, see section 4). `ReuseInv` says that a success on disk was made from
the results its inputs still have, what a run's record says of the directories, which nodes have
been cleaned, and that what a run of the whole flow keeps was compared with the present setting and
has inputs kept like it. A node that is kept without being up
to date would have a least one above it or be one; the inputs of the least are up to date, so it
has been compared with what it should be made of. `NoNeedlessRerun` (`RerunsHaveCauses`) needs runs
that read their own results (`RunsAreRead`); `CauseInv` says that whatever is pending has a cause
of its own or above it. TLC evaluates the hypotheses for the views of `ib_runs`.

**DataFetchProofs** (any number of processes, threads, names, and any budget): `TypeOK`,
`OneFetchPerDirectory`, `LocksHaveHolders`, `ServedIsComplete`, `CompleteIsKept`,
`GivenUpIsFinal`, `BudgetBound`. `LockInv` ties places to locks both ways: who is inside holds the
lock, who holds it is inside. `DiskInv` says, for working file locks, what the directory is at
each place, and that whatever was found, remembered or reported is complete or torn. The budget
needs `BudgetInv`: attempts under way count as failures to come, and only the check adds one. The
bound is stated with the largest number of threads of any process, since a fork copies the
failures of the run into a node.

**NodeProcessProofs** (all settings, any number of interrupts): `TypeOK`, `OutcomeFits`,
`SuccessIsEarned`, `ToolEndsWithNode`. `PlaceInv` says which process runs what, `RecordInv` what the
record, the tool and the manifest are at each step of `run()`, `ToolInv` who may still be alive,
`DiskInv` what is on disk once a process is about to fail. Each action has a lemma.

**RemoteJobProofs** (any number of nodes, jobs with any flow, any number of
timeouts, all events in one behaviour): `TypeOK`, `RunningUntilOver`, `TablesDrained`,
`CancelSticks` rest on what the tables say of the job's thread (`TableInv`, `CancelInv`) and on
where a client can be before the job is accepted (`ClientInv`). `CompletedBringsAll` follows a
result on its way: a node that is over does not change what it left (`OverInv`, `AliveInv`); what
is reported was archived whole and is what the node left (`TruthInv`); what the client is told or
records is what was reported (`MessageInv`); what it schedules can be fetched (`FetchInv`,
`ArchiveInv`), and what it imports was fetched (`ImportInv`). It speaks of the manifests that arrive,
not of the server's own record, which is the exit code's verdict where the process failed.

**SchemaJournalProofs** (any flow, number of nodes, calls and runs; lists and sets, any default):
`TypeOK`, `OwnValuesArrive`, `AddsArrive`, `RunsStartAfresh`. A replay is a fold over the journal,
and replaying several journals a fold over the execution order; both are shown to be sequences of
steps, and what is proved of one step is carried along. Three facts do the work: what an entry
writes into its node's slot depends on that slot alone (`ReplaySame`), so a journal has the same
effect there whatever other nodes did (`Agrees`); the journal of another node does not touch it
unless it locks or removes (`ReplaysOther`); and calls that overwrite nothing shared only add
(`ReplaysAdd`). `RunningInv` keeps this while the process runs, of the project and of what the
process began with (`base`), and `ResultInv` while its result lies on disk, is left out, or is used
again: replayed on what the process began with, the journal makes what the process left. A run that
begins with the same in the node's slot and locks thus gets the same there. `OriginInv` says that a
reset project holds what it was given, or nothing, which `RunsStartAfresh` passes on to the node.
The attempt to prove this showed that journals replayed before their node is found to have to run
may remove what another node had added (`overruled`), which takes three nodes.

**How.** The library's induction theorems cannot be used here, since they take a predicate as a
parameter. In their place stand sets: a set of naturals that has 0 and every successor is all of
them, and a nonempty one has a least element, which both follow from the well-foundedness of the
naturals. Recursive definitions are shown to exist on the first k arguments for every k.

**Checked by TLC only.** `RunReturns`, `TimedNodeEnds` and `ClientEnds`, being liveness, which this
prover cannot reach. Every invariant and every action property of a passing run is also proved.

## 6. What is not modelled, and why

The implementation has some 80,000 lines. The models stand for the part of it that has state and
concurrency: the scheduler, the nodes' processes, incremental builds, flows, the package cache, the
remote server and client, and the journal of the schema. Most of the rest has neither:

- Drivers of tools (`tools/`), flows, targets and checklists, a third of the lines: command lines,
  scripts and parameters, written out as calls of `set` and `add`. A model would repeat them.
- Projects, designs, libraries, PDKs, constraints, options, records (`project.py`,
  `schema_support/`, `constraints/`): classes that declare parameters and read them back.
- Reports, dashboards, mail: output only. Their threads read and draw.
- Schema: lookup, types and their normalisation, files and hashes, freezing, the forms of a
  manifest.
- `tool.py` apart from the supervision of the process: command lines, versions, log parsing.
- Settings and the process manager (`utils/`): one file that is written as a whole, and a
  process that hands out objects. Two processes that save settings can lose one's changes
  (`utils/settings.py:307`); the file has no other property to lose.
- Container images, batch scripts, volumes, upload parsing, authentication, rotation of logs.
- Logging: the queue and its listener, whose teardown order the comments in `run()` are about.

## 7. Plan

1. `IncrementalBuild`: nodes that options switch on and off between runs, breakpoints, results
   copied from an earlier job.
2. `DataFetch`: cache directories that cannot be written, and the other resolvers.
3. `SchemaJournal`: several keypaths, of which some are files whose hashes the next run compares.
4. Theorems: that the flow a schedule is made from is a view (`TaskScheduler` takes any flow), and
   that results on the server are those `NodeOutcome` allows.

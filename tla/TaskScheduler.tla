--------------------------- MODULE TaskScheduler ----------------------------
(***************************************************************************)
(* One run of a flowgraph: scheduler/taskscheduler.py, with the node       *)
(* processes it forks (SchedulerNode.run) and TaskScheduler.halt_all()     *)
(* arriving on another thread.                                             *)
(*                                                                         *)
(* Nodes are named by their position in __ordered_nodes, which is an       *)
(* execution order: the inputs of a node are smaller than the node.        *)
(* The loop reads the state of a process once per node and per iteration,  *)
(* and processes end and halts arrive between any two of its steps.        *)
(***************************************************************************)
EXTENDS NodeOutcome, Integers, FiniteSets, Functions

CONSTANTS
  N,            \* number of nodes of the flow
  MaxCores,     \* utils.get_cores()
  MaxNodes,     \* option.scheduler.maxnodes, 0 when it is not set
  Flows,        \* the flows a run may be started on (see FlowType)
  Halters       \* callers of __halt_running_nodes(): "run", the finally
                \* clause of run() itself, and halt_all() on other threads

Node == 1 .. N

(***************************************************************************)
(* What __create_nodes() finds: per node its inputs and the threads its    *)
(* task asks for (0: unset); the nodes of the runtime flow; the builtin,   *)
(* the local and the breakpoint nodes; and the status each node has in the *)
(* record when the run begins.  Beside it, the threads that may call       *)
(* halt_all() during the run.                                              *)
(***************************************************************************)
FlowType ==
  [inputs     : [Node -> SUBSET Node],
   threads    : [Node -> Nat],
   runtime    : SUBSET Node,
   builtin    : SUBSET Node,
   local      : SUBSET Node,
   breakpoint : SUBSET Node,
   prior      : [Node -> Done \cup {PENDING}],
   halters    : SUBSET Halters]

ASSUME Assumptions ==
  /\ N \in Nat
  /\ MaxCores \in Nat \ {0}
  /\ MaxNodes \in Nat
  /\ "run" \in Halters /\ "nobody" \notin Halters
  /\ Flows \subseteq FlowType
  /\ \A f \in Flows : \A n \in Node : f.inputs[n] \subseteq 1 .. (n - 1)

VARIABLES
  flow,      \* the flow of this run; never changes
  status,    \* record status of every node, as the parent process sees it
  procs,     \* nodes with info["proc"] not None
  running,   \* nodes with info["running"]
  child,     \* what the node's process is doing
  manifest,  \* the node's output manifest on disk
  pc,        \* where the run's own thread is
  todo,      \* nodes the current pass of the loop still has to visit
  ending,    \* why the run loop ended, "no" while it runs
  hpc,       \* where each caller of __halt_running_nodes() is
  haltLock,  \* holder of __halt_lock
  scan,      \* nodes the holder has not looked at yet
  victims    \* live processes the holder has found

schedVars == <<procs, running, status, todo>>
haltVars  == <<hpc, haltLock, scan, victims>>
vars      == <<flow, status, procs, running, child, manifest, pc, todo, ending,
               hpc, haltLock, scan, victims>>

NoOne == "nobody"

ChildState == {"unborn", "alive", "exit0", "exit1"}
LoopSteps  == {"loop", "process", "start", "spawn"}
Endings    == {"no", "complete", "gaveup", "interrupted", "raised"}

Alive(n) == child[n] = "alive"

(***************************************************************************)
(* Limits fixed by __init__ and __create_nodes().                          *)
(***************************************************************************)
Clip(lo, x, hi) == IF x > hi THEN hi ELSE IF x < lo THEN lo ELSE x

MaxParallel == Clip(1, IF MaxNodes = 0 THEN MaxCores ELSE MaxNodes, MaxCores)

\* Mutant: requests beyond the machine are not clipped.
ThreadsUnclipped ==
  [n \in Node |-> IF flow.threads[n] = 0 THEN MaxCores ELSE flow.threads[n]]

Threads ==
  [n \in Node |-> Clip(1, IF flow.threads[n] = 0 THEN MaxCores ELSE flow.threads[n],
                       MaxCores)]

Tasks == {n \in flow.runtime : flow.prior[n] = PENDING}

Waiting == procs \ running            \* get_nodes_waiting_to_run()

IsFirst(n, S) == n \in S /\ \A m \in S : n <= m

Init ==
  /\ flow \in Flows
  /\ status = flow.prior
  /\ procs = Tasks
  /\ running = {}
  /\ child = [n \in Node |-> "unborn"]
  /\ manifest = [n \in Node |-> "absent"]
  /\ pc = "loop"
  /\ todo = {}
  /\ ending = "no"
  /\ hpc = [h \in Halters |-> "idle"]
  /\ haltLock = NoOne
  /\ scan = {}
  /\ victims = {}

-----------------------------------------------------------------------------
(***************************************************************************)
(* __run_loop(): test the loop condition, then one pass over the running   *)
(* nodes, one over the waiting ones, and a wait.                           *)
(***************************************************************************)
LoopTest ==
  /\ pc = "loop"
  /\ IF Waiting \cup running # {}
       THEN pc' = "process" /\ todo' = running /\ UNCHANGED ending
       ELSE pc' = "finally" /\ ending' = "complete" /\ UNCHANGED todo
  /\ UNCHANGED <<flow, status, procs, running, child, manifest, haltVars>>

\* Journal.replay_file() brings the child's last status into the record.
Replayed(n) == IF manifest[n] = "absent" THEN status[n] ELSE manifest[n]

\* Mutant: the record decides, the exit code is not looked at.
VerdictFromRecord(n) == IF IsWaiting(Replayed(n)) THEN ERROR ELSE Replayed(n)

Verdict(n) ==
  IF child[n] # "exit0" THEN ERROR
  ELSE IF IsWaiting(Replayed(n)) THEN ERROR ELSE Replayed(n)

ProcessAlive(n) ==
  /\ pc = "process"
  /\ IsFirst(n, todo)
  /\ Alive(n)
  /\ todo' = todo \ {n}
  /\ UNCHANGED <<flow, status, procs, running, child, manifest, pc, ending, haltVars>>

\* Mutant: info["proc"] is not reset.
ProcessEndedKeepsProc(n) ==
  /\ pc = "process"
  /\ IsFirst(n, todo)
  /\ ~ Alive(n)
  /\ manifest[n] # "torn"
  /\ status' = [status EXCEPT ![n] = Verdict(n)]
  /\ running' = running \ {n}
  /\ todo' = todo \ {n}
  /\ UNCHANGED <<flow, procs, child, manifest, pc, ending, haltVars>>

ProcessEnded(n) ==
  /\ pc = "process"
  /\ IsFirst(n, todo)
  /\ ~ Alive(n)
  /\ manifest[n] # "torn"
  /\ status' = [status EXCEPT ![n] = Verdict(n)]
  /\ running' = running \ {n}
  /\ procs' = procs \ {n}
  /\ todo' = todo \ {n}
  /\ UNCHANGED <<flow, child, manifest, pc, ending, haltVars>>

\* A manifest cut short does not parse: the exception leaves the run loop.
ProcessTorn(n) ==
  /\ pc = "process"
  /\ IsFirst(n, todo)
  /\ ~ Alive(n)
  /\ manifest[n] = "torn"
  /\ pc' = "finally"
  /\ ending' = "raised"
  /\ todo' = {}
  /\ UNCHANGED <<flow, status, procs, running, child, manifest, haltVars>>

-----------------------------------------------------------------------------
Inputs(n) == flow.inputs[n]

InputsDone(n) == \A i \in Inputs(n) : IsDone(status[i])

NotAbleToRun(n) ==
  \/ /\ n \notin flow.builtin
     /\ \E i \in Inputs(n) : IsError(status[i])
  \/ /\ n \in flow.builtin
     /\ InputsDone(n)
     /\ Inputs(n) # {}
     /\ \A i \in Inputs(n) : status[i] # SUCCESS

Pruned == {n \in Waiting : NotAbleToRun(n)}
Ready  == {n \in Waiting : InputsDone(n) /\ ~ NotAbleToRun(n)}

BreakpointRunning == running \cap flow.breakpoint # {}

\* Mutant: a ready breakpoint does not wait for the machine to be idle.
CandidatesWithoutDrain ==
  IF Ready \cap flow.breakpoint = {} THEN Ready
  ELSE {n \in Node : IsFirst(n, Ready \cap flow.breakpoint)}

\* The nodes this pass tries to start: a breakpoint goes first and alone.
Candidates ==
  IF Ready \cap flow.breakpoint = {} THEN Ready
  ELSE IF running # {} THEN {}
  ELSE {n \in Node : IsFirst(n, Ready \cap flow.breakpoint)}

\* Mutant: every node that is not ready is dropped.
LaunchDropsUnready ==
  /\ pc = "process"
  /\ todo = {}
  /\ IF BreakpointRunning
       THEN todo' = {} /\ UNCHANGED procs
       ELSE todo' = Candidates /\ procs' = procs \ (Waiting \ Ready)
  /\ pc' = "start"
  /\ UNCHANGED <<flow, status, running, child, manifest, ending, haltVars>>

Launch ==
  /\ pc = "process"
  /\ todo = {}
  /\ IF BreakpointRunning
       THEN todo' = {} /\ UNCHANGED procs
       ELSE todo' = Candidates /\ procs' = procs \ Pruned
  /\ pc' = "start"
  /\ UNCHANGED <<flow, status, running, child, manifest, ending, haltVars>>

\* Mutant: one process too many.
AllowStartOneMore(n) ==
  \/ n \notin flow.local
  \/ /\ Cardinality(running) <= MaxParallel
     /\ Threads[n] + SumFunctionOnSet(Threads, running) <= MaxCores

\* Mutant: the cores in use are not added up.
AllowStartAlone(n) ==
  \/ n \notin flow.local
  \/ /\ Cardinality(running) < MaxParallel
     /\ Threads[n] <= MaxCores

AllowStart(n) ==
  \/ n \notin flow.local
  \/ /\ Cardinality(running) < MaxParallel
     /\ Threads[n] + SumFunctionOnSet(Threads, running) <= MaxCores

\* __start_node() up to the pre_node callback, which may raise.
StartNode(n) ==
  /\ pc = "start"
  /\ IsFirst(n, todo)
  /\ AllowStart(n)
  /\ status' = [status EXCEPT ![n] = RUNNING]
  /\ pc' = "spawn"
  /\ UNCHANGED <<flow, procs, running, child, manifest, todo, ending, haltVars>>

SpawnNode(n) ==
  /\ pc = "spawn"
  /\ IsFirst(n, todo)
  /\ running' = running \cup {n}
  /\ child' = [child EXCEPT ![n] = "alive"]
  /\ todo' = todo \ {n}
  /\ pc' = "start"
  /\ UNCHANGED <<flow, status, procs, manifest, ending, haltVars>>

Postpone(n) ==
  /\ pc = "start"
  /\ IsFirst(n, todo)
  /\ ~ AllowStart(n)
  /\ todo' = todo \ {n}
  /\ UNCHANGED <<flow, status, procs, running, child, manifest, pc, ending, haltVars>>

\* Mutant: the loop is not left.
GiveUpForgotten ==
  /\ pc = "start"
  /\ todo = {}
  /\ Waiting # {}
  /\ running = {}
  /\ pc' = "loop"
  /\ UNCHANGED <<flow, schedVars, ending, child, manifest, haltVars>>

\* Nothing runs and something waits: the flow cannot go on.
GiveUp ==
  /\ pc = "start"
  /\ todo = {}
  /\ Waiting # {}
  /\ running = {}
  /\ pc' = "finally"
  /\ ending' = "gaveup"
  /\ UNCHANGED <<flow, schedVars, child, manifest, haltVars>>

\* A single process is joined without a timeout; of several, the first one
\* is joined for __dwellTime.
Join ==
  /\ pc = "start"
  /\ todo = {}
  /\ ~ (Waiting # {} /\ running = {})
  /\ Cardinality(running) = 1 => \A n \in running : ~ Alive(n)
  /\ pc' = "loop"
  /\ UNCHANGED <<flow, schedVars, child, manifest, ending, haltVars>>

\* Ctrl-C, or a pre_node or post_node callback that raises.
Interrupt ==
  /\ pc \in LoopSteps
  /\ pc' = "finally"
  /\ ending' = "interrupted"
  /\ todo' = {}
  /\ UNCHANGED <<flow, status, procs, running, child, manifest, haltVars>>

Return ==
  /\ pc = "finally"
  /\ hpc["run"] = "done"
  /\ pc' = "returned"
  /\ UNCHANGED <<flow, schedVars, child, manifest, ending, haltVars>>

-----------------------------------------------------------------------------
(***************************************************************************)
(* The node's process: SchedulerNode.run().  The parent reads its manifest *)
(* only once the process is dead, so all the process does is one step from *)
(* alive to its exit code and what it leaves on disk.  A manifest is       *)
(* truncated when it is opened: a process that dies writing leaves a torn  *)
(* one.  NodeProcess shows that no process leaves anything else.           *)
(***************************************************************************)
Exit(n, code, left) ==
  /\ Alive(n)
  /\ child' = [child EXCEPT ![n] = code]
  /\ manifest' = [manifest EXCEPT ![n] = left]
  /\ UNCHANGED <<flow, schedVars, pc, ending, haltVars>>

Succeeds(n) == \E s \in LeftBySuccess : Exit(n, "exit0", s)

\* halt(): saves the manifest if its directory is there, then sys.exit(1).
Fails(n) == \E left \in LeftByFailure : Exit(n, "exit1", left)

\* SlurmSchedulerNode.run() gives up waiting for the manifest and returns.
ExitsWithoutManifest(n) ==
  n \notin flow.local /\ \E left \in LeftByDelay : Exit(n, "exit0", left)

\* SIGTERM, SIGKILL, the memory killer: at any point of the process.
Killed(n) == \E left \in LeftByKill : Exit(n, "exit1", left)

-----------------------------------------------------------------------------
(***************************************************************************)
(* __halt_running_nodes(), for the run's own finally clause and for one    *)
(* halt_all() on another thread.  info["proc"] is read twice: once against *)
(* None and once for is_alive().                                           *)
(***************************************************************************)
haltOnly == <<flow, schedVars, pc, ending>>

HaltEnter(h) ==
  /\ hpc[h] = "idle"
  /\ IF h = "run" THEN pc = "finally" ELSE h \in flow.halters
  /\ haltLock = NoOne
  /\ haltLock' = h
  /\ hpc' = [hpc EXCEPT ![h] = "look"]
  /\ scan' = Tasks
  /\ victims' = {}
  /\ UNCHANGED <<haltOnly, child, manifest>>

HaltLook(h, n) ==
  /\ hpc[h] = "look"
  /\ IsFirst(n, scan)
  /\ IF n \in procs
       THEN hpc' = [hpc EXCEPT ![h] = "probe"] /\ UNCHANGED scan
       ELSE scan' = scan \ {n} /\ UNCHANGED hpc
  /\ UNCHANGED <<haltOnly, child, manifest, haltLock, victims>>

HaltProbe(h, n) ==
  /\ hpc[h] = "probe"
  /\ IsFirst(n, scan)
  /\ n \in procs
  /\ hpc' = [hpc EXCEPT ![h] = "look"]
  /\ scan' = scan \ {n}
  /\ victims' = IF Alive(n) THEN victims \cup {n} ELSE victims
  /\ UNCHANGED <<haltOnly, child, manifest, haltLock>>

\* The run loop has set info["proc"] to None in between: AttributeError.
HaltProbeFails(h, n) ==
  /\ hpc[h] = "probe"
  /\ IsFirst(n, scan)
  /\ n \notin procs
  /\ hpc' = [hpc EXCEPT ![h] = "failed"]
  /\ haltLock' = NoOne
  /\ UNCHANGED <<haltOnly, child, manifest, scan, victims>>

\* Mutant: a process that survives terminate() is not killed.
HaltEndWithoutKill(h) ==
  /\ hpc[h] = "look"
  /\ scan = {}
  /\ hpc' = [hpc EXCEPT ![h] = "done"]
  /\ haltLock' = NoOne
  /\ UNCHANGED <<haltOnly, child, manifest, scan, victims>>

\* terminate(), bounded join, kill() for what is left.
HaltEnd(h) ==
  /\ hpc[h] = "look"
  /\ scan = {}
  /\ LET killed == {n \in victims : Alive(n)}
     IN  /\ child' = [n \in Node |-> IF n \in killed THEN "exit1" ELSE child[n]]
         /\ \E left \in [killed -> LeftByKill] :
              manifest' = [n \in Node |-> IF n \in killed THEN left[n] ELSE manifest[n]]
  /\ hpc' = [hpc EXCEPT ![h] = "done"]
  /\ haltLock' = NoOne
  /\ UNCHANGED <<haltOnly, scan, victims>>

-----------------------------------------------------------------------------
Loop ==
  \/ LoopTest
  \/ \E n \in Node : ProcessAlive(n) \/ ProcessEnded(n) \/ ProcessTorn(n)
  \/ Launch
  \/ \E n \in Node : StartNode(n) \/ SpawnNode(n) \/ Postpone(n)
  \/ GiveUp
  \/ Join
  \/ Return

Ends(n) == Succeeds(n) \/ Fails(n) \/ ExitsWithoutManifest(n)

HaltStep(h) ==
  \/ \E n \in Node : HaltLook(h, n) \/ HaltProbe(h, n) \/ HaltProbeFails(h, n)
  \/ HaltEnd(h)

\* The run is over and its processes are gone: nothing is left to do.
Terminated ==
  /\ pc = "returned"
  /\ \A n \in Node : ~ Alive(n)
  /\ \A h \in Halters : hpc[h] \in {"idle", "done", "failed"}
  /\ UNCHANGED vars

Next ==
  \/ Loop
  \/ Interrupt
  \/ \E n \in Node : Ends(n) \/ Killed(n)
  \/ \E h \in Halters : HaltEnter(h) \/ HaltStep(h)
  \/ Terminated

(***************************************************************************)
(* The run's thread is scheduled, a caller that holds the halt lock goes   *)
(* on, and a task's process ends by itself (one that never ends and has no *)
(* timeout is waited for forever).  Nobody has to interrupt or to halt.    *)
(***************************************************************************)
Fairness ==
  /\ WF_vars(Loop)
  /\ \A n \in Node : WF_vars(Ends(n))
  /\ WF_vars(HaltEnter("run"))
  /\ \A h \in Halters : WF_vars(HaltStep(h))

Spec == Init /\ [][Next]_vars

FairSpec == Spec /\ Fairness

-----------------------------------------------------------------------------
(* Types of the variables. *)
TypeOK ==
  /\ flow \in Flows
  /\ status \in [Node -> Status]
  /\ procs \subseteq Tasks
  /\ running \subseteq procs
  /\ child \in [Node -> ChildState]
  /\ manifest \in [Node -> Manifest]
  /\ pc \in LoopSteps \cup {"finally", "returned"}
  /\ todo \subseteq Tasks
  /\ ending \in Endings
  /\ hpc \in [Halters -> {"idle", "look", "probe", "done", "failed"}]
  /\ haltLock \in Halters \cup {NoOne}
  /\ scan \subseteq Tasks
  /\ victims \subseteq Tasks

Started == {n \in Node : child[n] # "unborn"}
Live    == {n \in Node : Alive(n)}
Decided == ending \in {"complete", "gaveup"}

(* A node has been started only if all its inputs have settled, and unless *)
(* it is a builtin fan-in none of them failed: __launch_nodes() decides on *)
(* the record once, and nothing it relied on changes afterwards.           *)
StartedOnSettledInputs ==
  \A n \in Started :
    /\ InputsDone(n)
    /\ n \notin flow.builtin => \A i \in Inputs(n) : ~ IsError(status[i])

(* A breakpoint node's process is never alive beside another node process: *)
(* "a node with a breakpoint must execute in complete isolation".          *)
BreakpointIsolated == \A n \in Live \cap flow.breakpoint : Live = {n}

(* The local processes alive at any time fit the machine: at most          *)
(* __max_parallel_run of them ...                                          *)
LocalParallelBound == Cardinality(Live \cap flow.local) <= MaxParallel

(* ... using no more than __max_cores threads, even with remote nodes in   *)
(* between and breakpoint scheduling.                                      *)
LocalThreadBound == SumFunctionOnSet(Threads, Live \cap flow.local) <= MaxCores

(* Once a node has settled its status is final and its process does not    *)
(* come back; a node dropped by __launch_nodes() is never started.         *)
OutcomeIsFinal ==
  [][\A n \in Node :
       /\ IsDone(status[n]) => status'[n] = status[n]
       /\ n \notin procs => child'[n] = child[n]]_vars

(* run() has no process left when it returns, however the loop ended ("so  *)
(* teardown cannot block on one"), and its cleanup cannot lose info["proc"]*)
(* under its feet, which would skip the rest of the finally clause.        *)
NoProcessOutlivesRun == (pc = "returned" => Live = {}) /\ hpc["run"] # "failed"

(* Nodes that ended without a result, or that cannot get any.              *)
Lost == {n \in Started : status[n] = RUNNING /\ n \notin running}

(* When the loop ends by itself and a task was never started, there is a   *)
(* reason the user can be told: a failed or lost node, an input that is    *)
(* not part of this run, or a builtin none of whose inputs is a SUCCESS.   *)
UnstartedHasCause ==
  Decided /\ Tasks \ Started # {} =>
    \/ \E n \in Node : IsError(status[n]) \/ n \in Lost
    \/ \E n \in Node \ Tasks : IsWaiting(status[n])
    \/ \E n \in Tasks \cap flow.builtin :
         Inputs(n) # {} /\ \A i \in Inputs(n) : status[i] = SKIPPED

(* A local node that was started has settled when the loop ends by itself. *)
StartedNodesSettle ==
  Decided => \A n \in Started \cap flow.local : IsDone(status[n])

(* The run loop comes to an end: no wait is forever, and run() returns.    *)
RunReturns == <>(pc = "returned")

-----------------------------------------------------------------------------
(***************************************************************************)
(* The inductive invariant the proofs use: what the run's thread relies on *)
(* between its steps, and what a cleanup in progress still has to visit.   *)
(***************************************************************************)
Starting == pc \in {"start", "spawn"}

PassInv ==
  /\ pc = "process" => todo \subseteq running
  /\ Starting => todo \subseteq Waiting
  /\ pc = "spawn" => todo # {}

ChildInv ==
  /\ Live \subseteq running
  /\ \A n \in Waiting : child[n] = "unborn"

StatusInv ==
  /\ \A n \in procs : ~ IsDone(status[n])
  /\ \A n \in running : status[n] = RUNNING
  /\ pc = "spawn" => \A n \in todo : IsFirst(n, todo) => status[n] = RUNNING

\* n may be started as far as its inputs are concerned.
Cleared(n) == InputsDone(n) /\ ~ NotAbleToRun(n)

ClearedInv ==
  /\ \A n \in Started : Cleared(n)
  /\ Starting => \A n \in todo : Cleared(n)

BreakpointInv ==
  /\ \A n \in running \cap flow.breakpoint : running = {n}
  /\ Starting => /\ BreakpointRunning => todo = {}
                 /\ \A n \in todo \cap flow.breakpoint : running = {} /\ todo = {n}

ParallelInv ==
  /\ Cardinality(running \cap flow.local) <= MaxParallel
  /\ pc = "spawn" =>
       \A n \in flow.local : IsFirst(n, todo) => Cardinality(running) < MaxParallel

ThreadInv ==
  /\ SumFunctionOnSet(Threads, running \cap flow.local) <= MaxCores
  /\ pc = "spawn" =>
       \A n \in flow.local : IsFirst(n, todo) =>
         SumFunctionOnSet(Threads, (running \cap flow.local) \cup {n}) <= MaxCores

HaltInv ==
  /\ \A h \in Halters : hpc[h] \in {"look", "probe"} => haltLock = h
  /\ hpc["run"] # "idle" => pc \in {"finally", "returned"}
  /\ hpc["run"] # "failed"
  /\ hpc["run"] = "probe" => \A n \in scan : IsFirst(n, scan) => n \in procs
  /\ hpc["run"] \in {"look", "probe"} => Live \subseteq scan \cup victims
  /\ hpc["run"] = "done" => Live = {}
  /\ pc = "returned" => hpc["run"] = "done"

(* Everything the safety proofs carry from step to step.                   *)
IInv ==
  /\ TypeOK
  /\ PassInv
  /\ ChildInv
  /\ StatusInv
  /\ ClearedInv
  /\ BreakpointInv
  /\ ParallelInv
  /\ HaltInv

(***************************************************************************)
(* What becomes of nodes: the loop runs as long as it has no reason to     *)
(* end, a pass that starts nothing had nothing to start, a node leaves the *)
(* scheduler by running or because it cannot run, and what ran has left a  *)
(* result, or is lost.                                                     *)
(***************************************************************************)
EndingInv ==
  /\ pc \in LoopSteps <=> ending = "no"
  /\ Starting /\ running = {} /\ todo = {} => Ready = {}
  /\ Decided => running = {} /\ Ready = {}

FateInv ==
  /\ \A n \in Tasks \ procs : n \in Started \/ NotAbleToRun(n)
  /\ \A n \in Node \ Tasks : status[n] \in Done \cup {PENDING}
  /\ running \subseteq Started

ResultInv ==
  /\ \A n \in Started : status[n] \in Done \cup {RUNNING}
  /\ \A n \in Started \cap flow.local : n \notin running => IsDone(status[n])
  /\ \A n \in flow.local : child[n] = "exit0" => manifest[n] \in LeftBySuccess

OutcomeInv == EndingInv /\ FateInv /\ ResultInv

-----------------------------------------------------------------------------
(***************************************************************************)
(* The run as DagExecution sees it.                                        *)
(***************************************************************************)
PhaseOf(n) ==
  IF n \in running THEN "running"
  ELSE IF n \in procs THEN "waiting"
  ELSE IF IsDone(status[n]) THEN status[n]
  ELSE IF n \notin Tasks THEN "absent"
  ELSE IF n \in Started THEN "lost"
  ELSE "dropped"

OverOf ==
  IF ending = "no" THEN "no" ELSE IF Decided THEN "complete" ELSE "aborted"

Dag == INSTANCE DagExecution
         WITH phase <- [n \in Node |-> PhaseOf(n)], over <- OverOf

(* The scheduler implements the abstract execution of the flow: nodes move *)
(* from waiting through running to settled once, are dropped only when     *)
(* doomed, and a run that ends by itself leaves nothing startable.         *)
ImplementsDag == Dag!Spec
=============================================================================

-------------------------- MODULE IncrementalBuild --------------------------
(***************************************************************************)
(* Runs of one flow in one job directory, one after the other, with the    *)
(* user changing parameters between them: which results of earlier runs    *)
(* Scheduler.run() (scheduler/scheduler.py) uses again, decided node by    *)
(* node by SchedulerNode.requires_run() (scheduler/schedulernode.py).      *)
(*                                                                         *)
(* A setting stands for everything check_values_changed() and              *)
(* check_files_changed() compare for a node.  A run may stop at any point: *)
(* a failed check, an exception, the end, or a crash.  Nodes run one at a  *)
(* time, because the directories of the nodes that are to run are cleaned  *)
(* before any of them starts.                                              *)
(***************************************************************************)
EXTENDS NodeStatus, Integers, FiniteSets

CONSTANTS
  N,            \* number of nodes; their numbers are an execution order
  In,           \* the inputs of every node
  Settings,     \* what the user may set for a node
  SetupSkips,   \* settings with which setup() raises TaskSkip
  RunSkips,     \* settings with which pre_process() raises TaskSkip
  Fixed,        \* settings that the user never changes between runs
  Starts,       \* the settings before the first run
  Tops,         \* top modules the user may choose
  Views         \* the options of a run (see ViewType)

Node == 1 .. N

(***************************************************************************)
(* What the options from and to make of a flow: the nodes of the run, its  *)
(* entry nodes if from is set, the nodes whose results are looked for, and *)
(* what get_nodes_starting_at() returns for a node: the node and what can  *)
(* be reached from it, so that any part of it without the node itself is   *)
(* entered by an edge from the rest.                                       *)
(***************************************************************************)
ViewType ==
  [runtime : SUBSET Node, entry : SUBSET Node, load : SUBSET Node,
   after : [Node -> SUBSET Node]]

\* The runs go on to the end of the flow.
ReachDown(views) ==
  \A v \in views : \A n \in v.runtime : \A m \in Node :
    In[m] \cap v.after[n] # {} => m \in v.after[n]

\* The runs read the results of the nodes they are about to run.
ReadTheirOwn(views) == \A v \in views : v.runtime \subseteq v.load

ASSUME Assumptions ==
  /\ N \in Nat
  /\ In \in [Node -> SUBSET Node] /\ \A n \in Node : In[n] \subseteq 1 .. (n - 1)
  /\ SetupSkips \subseteq Settings /\ RunSkips \subseteq Settings /\ Fixed \subseteq Settings
  /\ Starts \subseteq [Node -> Settings]
  /\ Views \subseteq ViewType
  /\ \A v \in Views :
       /\ v.entry \subseteq v.runtime
       /\ \A n \in v.runtime : n \in v.after[n] /\ v.after[n] \subseteq v.runtime
       /\ \A n \in v.runtime : \A m \in v.after[n] : v.after[m] \subseteq v.after[n]
       /\ \A n \in v.runtime : \A T \in SUBSET (v.after[n] \ {n}) :
            T # {} => \E m \in T : \E i \in In[m] : i \in v.after[n] \ T

VARIABLES
  setting,    \* the user's setting of every node
  top,        \* the user's top module
  disk,       \* the result in every node's directory
  pc,         \* what the current run is doing, "idle" between runs
  view,       \* the options of the current run
  status,     \* the statuses in its record
  skipped,    \* nodes whose setup() raised TaskSkip
  loaded,     \* nodes whose earlier result was read
  todo        \* nodes it still has to check

user == <<setting, top>>
run  == <<view, skipped, loaded>>
vars == <<setting, top, disk, pc, view, status, skipped, loaded, todo>>

(***************************************************************************)
(* A result is an output manifest that can be read: its status, the        *)
(* setting, top module and inputs it records, and, for the properties, all *)
(* that the outputs beside it were made from.  A directory without such a  *)
(* manifest counts as no result.                                           *)
(***************************************************************************)
NoResult  == [status |-> "none"]
HasResult == {n \in Node : disk[n] # NoResult}

(***************************************************************************)
(* Task.select_input_nodes(): the inputs of a node in the record, with the *)
(* skipped ones replaced by their own.  Through(st, n) is what the walk    *)
(* visits: the smallest set that holds n and the skipped inputs of its     *)
(* members.                                                                *)
(***************************************************************************)
Through(st, n) ==
  {m \in Node : \A S \in SUBSET Node :
     n \in S /\ (\A s \in S : \A i \in In[s] : st[i] = SKIPPED => i \in S) => m \in S}

Inputs(st, n) == {i \in UNION {In[m] : m \in Through(st, n)} : st[i] # SKIPPED}

Init ==
  /\ setting \in Starts
  /\ top \in Tops
  /\ disk = [n \in Node |-> NoResult]
  /\ pc = "idle"
  /\ view \in Views
  /\ status = [n \in Node |-> PENDING]
  /\ skipped = {} /\ loaded = {} /\ todo = {}

-----------------------------------------------------------------------------
Edit(n) ==
  /\ pc = "idle" /\ setting[n] \notin Fixed
  /\ \E s \in Settings \ (Fixed \cup {setting[n]}) : setting' = [setting EXCEPT ![n] = s]
  /\ UNCHANGED <<top, disk, pc, view, status, skipped, loaded, todo>>

EditTop ==
  /\ pc = "idle"
  /\ top' \in Tops \ {top}
  /\ UNCHANGED <<setting, disk, pc, view, status, skipped, loaded, todo>>

\* Mutant: the results of the nodes to start from are read as well.
ToLoadAll(v, clean) == IF clean THEN Node ELSE v.load

\* Mutant: only the results of the nodes outside of the run are read.
ToLoadOutside(v, clean) == v.load \ v.runtime

\* __configure_collect_previous_information(): the nodes whose results are read.
ToLoad(v, clean) == (IF clean THEN Node ELSE v.load) \ v.entry

(***************************************************************************)
(* The clean option empties the job directory unless from is set.  Every   *)
(* node of the flow starts as PENDING and is set up; setup() may skip it,  *)
(* otherwise it takes over the status of its earlier result.               *)
(***************************************************************************)
Begin(v, clean) ==
  LET kept == IF clean /\ v.entry = {} THEN [n \in Node |-> NoResult] ELSE disk
      skip == {n \in Node : setting[n] \in SetupSkips}
      read == {n \in ToLoad(v, clean) : kept[n] # NoResult} \ skip
  IN  /\ pc = "idle"
      /\ pc' = "check"
      /\ disk' = kept
      /\ view' = v
      /\ skipped' = skip
      /\ loaded' = read
      /\ status' = [n \in Node |-> IF n \in skip THEN SKIPPED
                                   ELSE IF n \in read THEN kept[n].status ELSE PENDING]
      /\ todo' = Node
      /\ UNCHANGED user

-----------------------------------------------------------------------------
(***************************************************************************)
(* __configure_check_run_required(): in execution order, the nodes that    *)
(* are a SUCCESS when their turn comes.                                    *)
(***************************************************************************)
ToCheck == {n \in todo : status[n] = SUCCESS}

IsNext(n) == n \in ToCheck /\ \A m \in ToCheck : n <= m

TopChanged(n) == disk[n].top # top

InputsChanged(n) == disk[n].inputs # Inputs(status, n)

Changed(n) == disk[n].setting # setting[n] \/ InputsChanged(n)

\* Mutant: only the node itself.
DownstreamItself(n) == {n}

Downstream(n) == {n} \cup (view.after[n] \ skipped)

\* __mark_pending() of the nodes of S that are part of the run.
MarkPending(S) ==
  LET marked == UNION {Downstream(n) : n \in S \cap view.runtime}
  IN  [n \in Node |-> IF n \in marked THEN PENDING ELSE status[n]]

\* Nothing has changed; or the node has, and is not part of the run.
Reuse(n) ==
  /\ pc = "check" /\ IsNext(n)
  /\ ~ TopChanged(n)
  /\ ~ Changed(n) \/ n \notin view.runtime
  /\ todo' = todo \ {n}
  /\ UNCHANGED <<user, disk, pc, run, status>>

Rerun(n) ==
  /\ pc = "check" /\ IsNext(n)
  /\ ~ TopChanged(n)
  /\ Changed(n) /\ n \in view.runtime
  /\ todo' = todo \ {n}
  /\ status' = MarkPending({n})
  /\ UNCHANGED <<user, disk, pc, run>>

\* SchedulerFlowReset: the job directory is emptied and every node marked.
FlowReset(n) ==
  /\ pc = "check" /\ IsNext(n)
  /\ TopChanged(n)
  /\ disk' = [m \in Node |-> NoResult]
  /\ status' = MarkPending(Node)
  /\ todo' = {}
  /\ UNCHANGED <<user, pc, run>>

Unfinished == {n \in view.runtime : IsWaiting(status[n]) \/ IsError(status[n])}

\* The end of configure_nodes(): "Ensure all nodes are marked as pending".
Ensure ==
  /\ pc = "check" /\ ToCheck = {}
  /\ pc' = "clean"
  /\ status' = MarkPending(Unfinished)
  /\ todo' = {}
  /\ UNCHANGED <<user, disk, run>>

-----------------------------------------------------------------------------
\* Mutant: only what starts first is cleaned.
ToCleanFirst ==
  {n \in view.runtime \cap HasResult :
     IsWaiting(status[n]) /\ \A i \in In[n] : ~ IsWaiting(status[i])}

ToClean == {n \in view.runtime \cap HasResult : IsWaiting(status[n])}

Clean(n) ==                           \* __clean_build_dir_incr()
  /\ pc = "clean"
  /\ n \in ToClean
  /\ disk' = [disk EXCEPT ![n] = NoResult]
  /\ UNCHANGED <<user, pc, run, status, todo>>

Execute ==
  /\ pc = "clean"
  /\ ToClean = {}
  /\ pc' = "run"
  /\ UNCHANGED <<user, disk, run, status, todo>>

(***************************************************************************)
(* A node that the scheduler starts when its inputs have succeeded.  It is *)
(* skipped by pre_process(), or it ends well or badly; it ends badly when  *)
(* an input has no outputs.                                                *)
(***************************************************************************)
Startable(n) ==
  /\ n \in view.runtime
  /\ IsWaiting(status[n])
  /\ \A i \in Inputs(status, n) : IsSuccess(status[i])

\* What the node leaves in its directory; the inputs have results if it succeeds.
ResultOf(n, st) ==
  LET inputs == Inputs(status, n)
  IN  [status |-> st, setting |-> setting[n], top |-> top, inputs |-> inputs,
       made   |-> IF st = SUCCESS
                  THEN [setting |-> setting[n], top |-> top,
                        from    |-> [i \in inputs |-> disk[i].made]]
                  ELSE NoResult]

\* Mutant: the manifest is written before the status is set.
ResultTooEarly(n, st) == [ResultOf(n, st) EXCEPT !.status = status[n]]

Result(n, st) == ResultOf(n, st)

RunNode(n) ==
  /\ pc = "run" /\ Startable(n)
  /\ \E st \in {SUCCESS, SKIPPED, ERROR} :
       /\ st = SKIPPED <=> setting[n] \in RunSkips /\ Inputs(status, n) \subseteq HasResult
       /\ st = SUCCESS => Inputs(status, n) \subseteq HasResult
       /\ status' = [status EXCEPT ![n] = st]
       /\ disk' = [disk EXCEPT ![n] = Result(n, st)]
  /\ UNCHANGED <<user, pc, run, todo>>

\* The run ends, or is stopped, wherever it is.  What it knew is gone.
Stop ==
  /\ pc # "idle"
  /\ pc' = "idle"
  /\ status' = [n \in Node |-> PENDING]
  /\ skipped' = {} /\ loaded' = {} /\ todo' = {}
  /\ UNCHANGED <<user, disk, view>>

Next ==
  \/ \E n \in Node : Edit(n) \/ Reuse(n) \/ Rerun(n) \/ FlowReset(n) \/ Clean(n) \/ RunNode(n)
  \/ EditTop
  \/ \E v \in Views, clean \in BOOLEAN : Begin(v, clean)
  \/ Ensure
  \/ Execute
  \/ Stop

Spec == Init /\ [][Next]_vars

-----------------------------------------------------------------------------
ResultOK(n) ==
  disk[n] = NoResult \/
    /\ DOMAIN disk[n] = {"status", "setting", "top", "inputs", "made"}
    /\ disk[n].status \in {SUCCESS, SKIPPED, ERROR}
    /\ disk[n].setting \in Settings /\ disk[n].top \in Tops
    /\ disk[n].inputs \subseteq Node

TypeOK ==
  /\ setting \in [Node -> Settings] /\ top \in Tops
  /\ DOMAIN disk = Node /\ \A n \in Node : ResultOK(n)
  /\ pc \in {"idle", "check", "clean", "run"}
  /\ view \in Views
  /\ status \in [Node -> {PENDING, SUCCESS, SKIPPED, ERROR}]
  /\ skipped \subseteq Node /\ loaded \subseteq Node /\ todo \subseteq Node

Configured == pc \in {"clean", "run"}

(***************************************************************************)
(* A node that is to run takes everything downstream with it: until it has *)
(* run, nothing below it counts as done, neither when the run is set up    *)
(* nor while it goes on.                                                   *)
(***************************************************************************)
DownstreamPending ==
  Configured =>
    \A n \in view.runtime : \A m \in view.after[n] \ skipped :
      status[n] = PENDING => status[m] = PENDING

\* The record at the end of a run from scratch in which nothing fails.
Skips ==
  [n \in Node |-> IF setting[n] \in SetupSkips \cup RunSkips THEN SKIPPED ELSE SUCCESS]

\* What the outputs of every node would be made from in such a run.
Fresh ==
  LET fresh[n \in Node] ==
        [setting |-> setting[n], top |-> top,
         from    |-> [i \in Inputs(Skips, n) |-> fresh[i]]]
  IN  fresh

(***************************************************************************)
(* In a run of the whole flow every success, reused or new, is what a run  *)
(* from scratch would have made: no change of a parameter anywhere above a *)
(* node, in any order of runs, restarts and crashes, goes unnoticed.  (A   *)
(* reset of the whole flow runs the nodes that setup skips too: nothing is *)
(* said once one of them has a result.)                                    *)
(***************************************************************************)
UpToDate ==
  Configured /\ view.runtime = Node /\ skipped \cap HasResult = {} =>
    \A n \in Node : status[n] = SUCCESS =>
      n \in HasResult /\ disk[n].made = Fresh[n]

(***************************************************************************)
(* "Nodes that already completed are reused": a node is only run when the  *)
(* user restarts from it or from a node above it, or when one of them has  *)
(* no successful result, or has changed.  With an empty directory, as it   *)
(* is after a reset of the whole flow, nothing is said of the nodes that   *)
(* setup skips: a reset marks them with the others.                        *)
(***************************************************************************)
HasCause(n) ==
  \/ HasResult = {}
  \/ n \in view.entry \ skipped
  \/ n \notin HasResult \cup skipped
  \/ n \in HasResult \ skipped /\ (~ IsSuccess(disk[n].status) \/ Changed(n))

NoNeedlessRerun ==
  [][Ensure => \A n \in view.runtime : status'[n] = PENDING =>
       \E k \in view.runtime : n \in view.after[k] /\ HasCause(k)]_vars

(***************************************************************************)
(* "Restarting from a step re-runs it and everything downstream".          *)
(***************************************************************************)
FromIsRerun ==
  pc = "clean" =>
    \A n \in view.entry \ skipped : \A m \in view.after[n] \ skipped : status[m] = PENDING

=============================================================================

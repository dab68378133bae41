------------------------- MODULE TaskSchedulerProofs ------------------------
(***************************************************************************)
(* Proofs about TaskScheduler, for every number of nodes, every set of     *)
(* flows, every machine and any number of callers of halt_all().           *)
(***************************************************************************)
EXTENDS TaskScheduler, FiniteSetTheorems, WellFoundedInduction, TLAPS

(* How the statuses of NodeStatus relate. *)
LEMMA StatusFacts ==
  /\ Done \subseteq Status
  /\ {PENDING, RUNNING, ERROR} \subseteq Status
  /\ RUNNING \notin Done
  /\ PENDING \notin Done
  /\ PENDING # RUNNING
  /\ ERROR \in Done
  /\ SUCCESS \in Done
  /\ SKIPPED \in Done
  /\ Failed \subseteq Done
BY DEF Done, Status, Failed, PENDING, QUEUED, RUNNING, SUCCESS, ERROR, SKIPPED, TIMEOUT

(* Sets of nodes are finite, and adding a node adds at most one. *)
LEMMA NodeSets ==
  ASSUME Assumptions, NEW S \in SUBSET Node
  PROVE  /\ IsFiniteSet(S)
         /\ Cardinality(S) \in Nat
         /\ \A n \in Node : Cardinality(S \cup {n}) <= Cardinality(S) + 1
         /\ \A T \in SUBSET S : Cardinality(T) <= Cardinality(S)
<1>1. IsFiniteSet(Node)
  BY FS_Interval DEF Node, Assumptions
<1>2. IsFiniteSet(S)
  BY <1>1, FS_Subset
<1>3. Cardinality(S) \in Nat
  BY <1>2, FS_CardinalityType
<1>4. ASSUME NEW n \in Node PROVE Cardinality(S \cup {n}) <= Cardinality(S) + 1
  <2>1. Cardinality(S \cup {n}) = IF n \in S THEN Cardinality(S) ELSE Cardinality(S) + 1
    BY <1>2, FS_AddElement
  <2> QED
    BY <2>1, <1>3
<1>5. ASSUME NEW T \in SUBSET S PROVE Cardinality(T) <= Cardinality(S)
  BY <1>2, FS_Subset
<1> QED
  BY <1>2, <1>3, <1>4, <1>5

(* The limit on parallel nodes admits at least one. *)
LEMMA MaxParallelType ==
  ASSUME Assumptions
  PROVE  MaxParallel \in Nat /\ MaxParallel >= 1
BY DEF MaxParallel, Clip, Assumptions

(* What a node's process leaves is read as a status of the record. *)
LEMMA ReplayedType ==
  ASSUME TypeOK, NEW n \in Node, manifest[n] # "torn"
  PROVE  Replayed(n) \in Status
<1>1. CASE manifest[n] = "absent"
  BY <1>1 DEF Replayed, TypeOK
<1>2. CASE manifest[n] # "absent"
  <2>1. manifest[n] \in {SUCCESS, SKIPPED, ERROR}
    BY <1>2 DEF Manifest, TypeOK
  <2> QED
    BY <2>1, <1>2 DEF Replayed, Status
<1> QED
  BY <1>1, <1>2

-----------------------------------------------------------------------------
(* The invariant holds when run() enters its loop. *)
LEMMA InitInv ==
  ASSUME Assumptions, Init
  PROVE  IInv
<1>1. TypeOK
  BY StatusFacts
     DEF Assumptions, Init, TypeOK, FlowType, Tasks, ChildState, Manifest, LoopSteps,
         Endings, NoOne
<1>2. PassInv /\ ClearedInv /\ BreakpointInv
  BY DEF Init, PassInv, ClearedInv, BreakpointInv, Starting, Started
<1>2a. ChildInv
  BY DEF Init, ChildInv, Live, Alive, Waiting, Tasks, Assumptions, FlowType
<1>3. StatusInv
  BY StatusFacts DEF Init, StatusInv, Tasks, IsDone
<1>4. ParallelInv
  BY FS_EmptySet, MaxParallelType DEF Init, ParallelInv
<1>5. HaltInv
  BY Assumptions DEF Init, HaltInv
<1> QED
  BY <1>1, <1>2, <1>2a, <1>3, <1>4, <1>5 DEF IInv

(* A step of the run's thread that starts and settles nothing: it moves on *)
(* or leaves its loop, and has no more nodes to visit than before.         *)
Quiet ==
  /\ UNCHANGED <<flow, status, procs, running, child, manifest, haltVars>>
  /\ todo' \subseteq Tasks
  /\ pc \in LoopSteps
  /\ pc' \in {"loop", "process", "start", "finally"}
  /\ pc' = "process" => todo' \subseteq running
  /\ pc' = "start" => pc = "start" /\ todo' \subseteq todo
  /\ ending' \in Endings

(* A step that changes only where the loop is keeps what is said of processes. *)
LEMMA QuietStep ==
  ASSUME Assumptions, IInv, Quiet
  PROVE  IInv'
<1> USE DEF Quiet
<1>1. TypeOK'
  BY DEF IInv, TypeOK, haltVars, Tasks, LoopSteps
<1>2. PassInv' /\ ChildInv' /\ StatusInv'
  BY DEF IInv, PassInv, ChildInv, StatusInv, Starting, Waiting, Live, Alive
<1>3. ClearedInv'
  BY DEF IInv, ClearedInv, Starting, Started, Cleared, NotAbleToRun, InputsDone, Inputs
<1>4. BreakpointInv'
  BY DEF IInv, BreakpointInv, Starting, BreakpointRunning
<1>5. ParallelInv'
  BY DEF IInv, ParallelInv, MaxParallel
<1>6. HaltInv'
  BY DEF IInv, HaltInv, haltVars, Live, Alive, LoopSteps
<1> QED
  BY <1>1, <1>2, <1>3, <1>4, <1>5, <1>6 DEF IInv

(* The steps of the loop that start, settle and drop nothing are such steps. *)
LEMMA QuietLoopSteps ==
  ASSUME IInv,
         LoopTest \/ (\E n \in Node : ProcessAlive(n) \/ ProcessTorn(n) \/ Postpone(n))
           \/ GiveUp \/ Join \/ Interrupt
  PROVE  Quiet
<1> USE DEF IInv, TypeOK, PassInv, Quiet, schedVars, haltVars, LoopSteps, Endings
<1>1. CASE LoopTest
  BY <1>1 DEF LoopTest
<1>2. ASSUME NEW n \in Node, ProcessAlive(n) PROVE Quiet
  BY <1>2 DEF ProcessAlive
<1>3. ASSUME NEW n \in Node, ProcessTorn(n) PROVE Quiet
  BY <1>3 DEF ProcessTorn
<1>4. ASSUME NEW n \in Node, Postpone(n) PROVE Quiet
  BY <1>4 DEF Postpone
<1>5. CASE GiveUp
  BY <1>5 DEF GiveUp
<1>6. CASE Join
  BY <1>6 DEF Join
<1>7. CASE Interrupt
  BY <1>7 DEF Interrupt
<1> QED
  BY <1>1, <1>2, <1>3, <1>4, <1>5, <1>6, <1>7

-----------------------------------------------------------------------------
(* Settling a node keeps the invariant.                                    *)
LEMMA ProcessEndedStep ==
  ASSUME Assumptions, IInv, NEW n \in Node, ProcessEnded(n)
  PROVE  IInv'
<1> USE DEF ProcessEnded, haltVars
<1>1. n \in running /\ n \in todo /\ todo' \subseteq running' /\ running' \subseteq running
  BY DEF IInv, PassInv, IsFirst
<1>2. Verdict(n) \in Status
  BY ReplayedType, StatusFacts DEF Verdict, IInv
<1>3. TypeOK'
  BY <1>2 DEF IInv, TypeOK, Tasks
<1>4. PassInv'
  BY <1>1 DEF PassInv, Starting
<1>5. ChildInv'
  BY <1>1 DEF IInv, ChildInv, Live, Alive, Waiting
<1>6. StatusInv'
  BY <1>1 DEF IInv, StatusInv, TypeOK
<1>7. ~ IsDone(status[n]) /\ ~ IsError(status[n])
  BY <1>1, StatusFacts DEF IInv, StatusInv, TypeOK, IsDone, IsError
<1>8. \A m \in Node : Cleared(m) => Cleared(m)'
  <2> SUFFICES ASSUME NEW m \in Node, Cleared(m) PROVE Cleared(m)'
    OBVIOUS
  <2>1. Inputs(m) \subseteq Node
    BY DEF Inputs, IInv, TypeOK, Assumptions, FlowType
  <2>2. n \notin Inputs(m)
    BY <1>7 DEF Cleared, NotAbleToRun, InputsDone
  <2>3. \A i \in Inputs(m) : status'[i] = status[i]
    BY <2>1, <2>2 DEF IInv, TypeOK
  <2> QED
    BY <2>3 DEF Cleared, NotAbleToRun, InputsDone, Inputs
<1>9. ClearedInv'
  BY <1>8 DEF IInv, ClearedInv, Starting, Started
<1>10. BreakpointInv'
  BY <1>1 DEF IInv, BreakpointInv, Starting
<1>11. ParallelInv'
  <2>1. running' \cap flow.local \subseteq running \cap flow.local
    BY <1>1
  <2>2. running \cap flow.local \in SUBSET Node
    BY DEF IInv, TypeOK, Tasks, Assumptions, FlowType
  <2>3. Cardinality(running' \cap flow.local) <= Cardinality(running \cap flow.local)
    BY <2>1, <2>2, NodeSets
  <2>4. Cardinality(running' \cap flow.local) \in Nat
    BY <2>1, <2>2, NodeSets
  <2> QED
    BY <2>2, <2>3, <2>4, NodeSets, MaxParallelType DEF IInv, ParallelInv, MaxParallel
<1>12. HaltInv'
  BY DEF IInv, HaltInv, Live, Alive
<1> QED
  BY <1>3, <1>4, <1>5, <1>6, <1>9, <1>10, <1>11, <1>12 DEF IInv

(* Choosing what to start, and dropping what cannot run.                   *)
LEMMA LaunchStep ==
  ASSUME Assumptions, IInv, Launch
  PROVE  IInv'
<1> USE DEF Launch, haltVars
<1>1. todo' \subseteq Ready
  BY DEF Candidates, IsFirst
<1>2. procs' \subseteq procs /\ running \subseteq procs'
  BY DEF Pruned, Waiting, IInv, TypeOK
<1>3. TypeOK'
  BY <1>1, <1>2 DEF IInv, TypeOK, Tasks, Ready, Waiting, LoopSteps
<1>4. PassInv'
  BY <1>1 DEF PassInv, Starting, Waiting, Ready, Pruned
<1>5. ChildInv'
  BY <1>2 DEF IInv, ChildInv, Live, Alive, Waiting
<1>6. StatusInv'
  BY <1>2 DEF IInv, StatusInv
<1>7. ClearedInv'
  <2>1. \A n \in Ready : Cleared(n)
    BY DEF Ready, Cleared
  <2> QED
    BY <1>1, <2>1 DEF IInv, ClearedInv, Starting, Started, Cleared, NotAbleToRun, InputsDone, Inputs
<1>8. BreakpointInv'
  <2>1. CASE BreakpointRunning
    BY <2>1 DEF IInv, BreakpointInv, Starting, BreakpointRunning
  <2>2. CASE ~ BreakpointRunning
    <3>1. \A n \in Candidates \cap flow.breakpoint : running = {} /\ Candidates = {n}
      <4> SUFFICES ASSUME NEW n \in Candidates \cap flow.breakpoint
                   PROVE  running = {} /\ Candidates = {n}
        OBVIOUS
      <4>1. Ready \cap flow.breakpoint # {} /\ running = {}
        BY DEF Candidates
      <4>2. Candidates = {m \in Node : IsFirst(m, Ready \cap flow.breakpoint)}
        BY <4>1 DEF Candidates
      <4>3. \A m \in Candidates : m = n
        BY <4>2 DEF IsFirst, Node, Assumptions
      <4> QED
        BY <4>1, <4>3
    <3> QED
      BY <2>2, <3>1 DEF IInv, BreakpointInv, Starting, BreakpointRunning
  <2> QED
    BY <2>1, <2>2
<1>9. ParallelInv'
  BY DEF IInv, ParallelInv, MaxParallel
<1>10. HaltInv'
  BY DEF IInv, HaltInv, Live, Alive
<1> QED
  BY <1>3, <1>4, <1>5, <1>6, <1>7, <1>8, <1>9, <1>10 DEF IInv

(* Marking a node RUNNING keeps the invariant: it was waiting, so no node  *)
(* was cleared because of it.                                              *)
LEMMA StartNodeStep ==
  ASSUME Assumptions, IInv, NEW n \in Node, StartNode(n)
  PROVE  IInv'
<1> USE DEF StartNode, haltVars
<1>1. n \in todo /\ todo \subseteq Waiting
  BY DEF IInv, PassInv, Starting, IsFirst
<1>2. \A m \in todo : IsFirst(m, todo) => m = n
  BY DEF IsFirst, IInv, TypeOK, Tasks, Node, Assumptions, FlowType
<1>3. TypeOK'
  BY StatusFacts DEF IInv, TypeOK, Tasks, LoopSteps
<1>4. PassInv'
  BY <1>1 DEF PassInv, Starting, Waiting
<1>5. ChildInv'
  BY DEF IInv, ChildInv, Live, Alive, Waiting
<1>6. StatusInv'
  <2>1. \A m \in procs : ~ IsDone(status'[m])
    BY StatusFacts DEF IInv, StatusInv, TypeOK, Tasks, IsDone
  <2>2. \A m \in running : status'[m] = RUNNING
    BY <1>1 DEF IInv, StatusInv, TypeOK, Waiting
  <2>3. status'[n] = RUNNING
    BY DEF IInv, TypeOK
  <2> QED
    BY <1>2, <2>1, <2>2, <2>3 DEF StatusInv
<1>7. ~ IsDone(status[n])
  BY <1>1 DEF IInv, StatusInv, Waiting
<1>8. \A m \in Node : Cleared(m) => Cleared(m)'
  <2> SUFFICES ASSUME NEW m \in Node, Cleared(m) PROVE Cleared(m)'
    OBVIOUS
  <2>1. Inputs(m) \subseteq Node
    BY DEF Inputs, IInv, TypeOK, Assumptions, FlowType
  <2>2. n \notin Inputs(m)
    BY <1>7 DEF Cleared, NotAbleToRun, InputsDone
  <2>3. \A i \in Inputs(m) : status'[i] = status[i]
    BY <2>1, <2>2 DEF IInv, TypeOK
  <2> QED
    BY <2>3 DEF Cleared, NotAbleToRun, InputsDone, Inputs
<1>9. ClearedInv'
  <2>1. todo \subseteq Node
    BY DEF IInv, TypeOK, Tasks, Assumptions, FlowType
  <2> QED
    BY <1>8, <2>1 DEF IInv, ClearedInv, Starting, Started
<1>10. BreakpointInv'
  BY DEF IInv, BreakpointInv, Starting, BreakpointRunning
<1>11. ParallelInv'
  BY <1>2 DEF IInv, ParallelInv, MaxParallel, AllowStart, IsFirst
<1>12. HaltInv'
  BY DEF IInv, HaltInv, Live, Alive
<1> QED
  BY <1>3, <1>4, <1>5, <1>6, <1>9, <1>10, <1>11, <1>12 DEF IInv

(* Starting the process of the node that was marked keeps the invariant.   *)
LEMMA SpawnNodeStep ==
  ASSUME Assumptions, IInv, NEW n \in Node, SpawnNode(n)
  PROVE  IInv'
<1> USE DEF SpawnNode, haltVars
<1>1. n \in todo /\ todo \subseteq Waiting /\ todo \subseteq Node
  BY DEF IInv, PassInv, Starting, IsFirst, TypeOK, Tasks, Assumptions, FlowType
<1>2. status[n] = RUNNING /\ Cleared(n)
  BY <1>1 DEF IInv, StatusInv, ClearedInv, Starting
<1>3. TypeOK'
  BY <1>1 DEF IInv, TypeOK, Tasks, LoopSteps, ChildState, Waiting
<1>4. PassInv'
  BY <1>1 DEF PassInv, Starting, Waiting
<1>5. ChildInv'
  BY <1>1 DEF IInv, ChildInv, TypeOK, Live, Alive, Waiting
<1>6. StatusInv'
  BY <1>2 DEF IInv, StatusInv
<1>7. ClearedInv'
  BY <1>2 DEF IInv, ClearedInv, TypeOK, Starting, Started, Cleared, NotAbleToRun, InputsDone, Inputs
<1>8. BreakpointInv'
  <2>1. CASE n \in flow.breakpoint
    BY <1>1, <2>1 DEF IInv, BreakpointInv, Starting, BreakpointRunning
  <2>2. CASE n \notin flow.breakpoint
    BY <1>1, <2>2 DEF IInv, BreakpointInv, Starting, BreakpointRunning
  <2> QED
    BY <2>1, <2>2
<1>9. ParallelInv'
  <2>1. running \in SUBSET Node /\ running \cap flow.local \in SUBSET Node
    BY DEF IInv, TypeOK, Tasks, Assumptions, FlowType
  <2>2. CASE n \in flow.local
    <3>1. Cardinality(running) < MaxParallel
      BY <2>2 DEF IInv, ParallelInv
    <3>2. /\ Cardinality(running') \in Nat
          /\ Cardinality(running) \in Nat
          /\ Cardinality(running') <= Cardinality(running) + 1
      BY <2>1, NodeSets
    <3>3. /\ Cardinality(running' \cap flow.local) <= Cardinality(running')
          /\ Cardinality(running' \cap flow.local) \in Nat
      BY <2>1, NodeSets
    <3> QED
      BY <3>1, <3>2, <3>3, MaxParallelType DEF ParallelInv, MaxParallel
  <2>3. CASE n \notin flow.local
    <3>1. running' \cap flow.local = running \cap flow.local
      BY <2>3
    <3> QED
      BY <3>1 DEF IInv, ParallelInv, MaxParallel
  <2> QED
    BY <2>2, <2>3
<1>10. HaltInv'
  BY DEF IInv, HaltInv
<1> QED
  BY <1>3, <1>4, <1>5, <1>6, <1>7, <1>8, <1>9, <1>10 DEF IInv

(* run() returns only when its cleanup has left no process.                *)
LEMMA ReturnStep ==
  ASSUME Assumptions, IInv, Return
  PROVE  IInv'
<1> USE DEF Return, schedVars, haltVars
<1>1. TypeOK'
  BY DEF IInv, TypeOK, Tasks
<1>2. PassInv' /\ ChildInv' /\ StatusInv'
  BY DEF IInv, PassInv, ChildInv, StatusInv, Starting, Waiting, Live, Alive
<1>3. ClearedInv' /\ BreakpointInv' /\ ParallelInv'
  BY DEF IInv, ClearedInv, BreakpointInv, ParallelInv, Starting, Started, Cleared, NotAbleToRun, InputsDone,
         Inputs, BreakpointRunning, MaxParallel
<1>4. HaltInv'
  BY DEF IInv, HaltInv, Live, Alive
<1> QED
  BY <1>1, <1>2, <1>3, <1>4 DEF IInv

-----------------------------------------------------------------------------
(* Processes that end, by themselves or not, only shrink the live set.     *)
LEMMA ProcessesEnd ==
  ASSUME Assumptions, IInv,
         UNCHANGED <<flow, schedVars, pc, ending>>,
         child' \in [Node -> ChildState], manifest' \in [Node -> Manifest],
         Live' \subseteq Live,
         \A n \in Node : child'[n] # child[n] => Alive(n) /\ child'[n] # "unborn"
  PROVE  /\ PassInv' /\ ChildInv' /\ StatusInv'
         /\ ClearedInv' /\ BreakpointInv' /\ ParallelInv'
<1> USE DEF schedVars
<1>1. PassInv' /\ StatusInv'
  BY DEF IInv, PassInv, StatusInv, Starting, Waiting
<1>2. ChildInv'
  <2>1. Waiting \subseteq Node
    BY DEF Waiting, IInv, TypeOK, Tasks, Assumptions, FlowType
  <2> QED
    BY <2>1 DEF IInv, ChildInv, Waiting, Alive
<1>3. ClearedInv'
  BY DEF IInv, ClearedInv, TypeOK, Starting, Started, Cleared, NotAbleToRun, InputsDone, Inputs, Alive
<1>4. BreakpointInv' /\ ParallelInv'
  BY DEF IInv, BreakpointInv, ParallelInv, Starting, BreakpointRunning, MaxParallel
<1> QED
  BY <1>1, <1>2, <1>3, <1>4

(* A node's process ends. *)
LEMMA ExitStep ==
  ASSUME Assumptions, IInv, NEW n \in Node,
         NEW code \in {"exit0", "exit1"}, NEW left \in Manifest, Exit(n, code, left)
  PROVE  IInv'
<1> USE DEF Exit
<1>1. TypeOK'
  BY DEF IInv, TypeOK, schedVars, haltVars, ChildState, Tasks
<1>2. Live' \subseteq Live
  BY DEF Live, Alive, IInv, TypeOK
<1>3. PassInv' /\ ChildInv' /\ StatusInv' /\ ClearedInv' /\ BreakpointInv' /\ ParallelInv'
  <2>1. \A m \in Node : child'[m] # child[m] => Alive(m) /\ child'[m] # "unborn"
    BY DEF IInv, TypeOK
  <2> QED
    BY <1>1, <1>2, <2>1, ProcessesEnd DEF TypeOK
<1>4. HaltInv'
  BY <1>2 DEF IInv, HaltInv, schedVars, haltVars
<1> QED
  BY <1>1, <1>3, <1>4 DEF IInv

-----------------------------------------------------------------------------
(* The steps of __halt_running_nodes() that end no process touch nothing   *)
(* but the halt variables.                                                 *)
LEMMA HaltKeepsRun ==
  ASSUME Assumptions, IInv, UNCHANGED <<haltOnly, child, manifest>>
  PROVE  /\ PassInv' /\ ChildInv' /\ StatusInv'
         /\ ClearedInv' /\ BreakpointInv' /\ ParallelInv'
<1> USE DEF haltOnly
<1>1. Live' \subseteq Live
  BY DEF Live, Alive
<1> QED
  BY <1>1, ProcessesEnd DEF IInv, TypeOK

LEMMA HaltEnterStep ==
  ASSUME Assumptions, IInv, NEW h \in Halters, HaltEnter(h)
  PROVE  IInv'
<1> USE DEF HaltEnter
<1>1. TypeOK'
  BY DEF IInv, TypeOK, haltOnly, schedVars, Tasks
<1>2. PassInv' /\ ChildInv' /\ StatusInv' /\ ClearedInv' /\ BreakpointInv' /\ ParallelInv'
  BY HaltKeepsRun
<1>3. Live \subseteq Tasks
  BY DEF IInv, TypeOK, ChildInv
<1>4. Live' = Live /\ Tasks' = Tasks
  BY DEF Live, Alive, haltOnly, Tasks
<1>5. HaltInv'
  <2>1. ASSUME NEW k \in Halters, hpc'[k] \in {"look", "probe"} PROVE haltLock' = k
    <3>1. CASE k = h
      BY <3>1
    <3>2. CASE k # h
      BY <2>1, <3>2, Assumptions DEF IInv, TypeOK, HaltInv, NoOne
    <3> QED
      BY <3>1, <3>2
  <2>2. CASE h = "run"
    BY <2>1, <2>2, <1>3, <1>4 DEF IInv, TypeOK, HaltInv, haltOnly, Assumptions
  <2>3. CASE h # "run"
    <3>1. hpc'["run"] = hpc["run"] /\ hpc["run"] \notin {"look", "probe"}
      BY <2>3 DEF IInv, TypeOK, HaltInv, Assumptions, NoOne
    <3> QED
      BY <2>1, <3>1, <1>4 DEF IInv, HaltInv, haltOnly
  <2> QED
    BY <2>2, <2>3
<1> QED
  BY <1>1, <1>2, <1>5 DEF IInv

LEMMA HaltLookStep ==
  ASSUME Assumptions, IInv, NEW h \in Halters, NEW n \in Node, HaltLook(h, n)
  PROVE  IInv'
<1> USE DEF HaltLook
<1>1. TypeOK'
  BY DEF IInv, TypeOK, haltOnly, schedVars, Tasks
<1>2. PassInv' /\ ChildInv' /\ StatusInv' /\ ClearedInv' /\ BreakpointInv' /\ ParallelInv'
  BY HaltKeepsRun
<1>3. /\ Live' = Live /\ Live \subseteq procs
      /\ procs' = procs /\ haltLock' = haltLock /\ haltLock = h
  BY DEF Live, Alive, haltOnly, schedVars, IInv, ChildInv, TypeOK, HaltInv
<1>4. \A m \in scan : IsFirst(m, scan) => m = n
  BY DEF IsFirst, IInv, TypeOK, Tasks, Node, Assumptions, FlowType
<1>5. HaltInv'
  <2>1. CASE h = "run"
    BY <2>1, <1>3, <1>4 DEF IInv, TypeOK, HaltInv, haltOnly, Assumptions, IsFirst
  <2>2. CASE h # "run"
    BY <2>2, <1>3 DEF IInv, TypeOK, HaltInv, haltOnly, Assumptions
  <2> QED
    BY <2>1, <2>2
<1> QED
  BY <1>1, <1>2, <1>5 DEF IInv

LEMMA HaltProbeStep ==
  ASSUME Assumptions, IInv, NEW h \in Halters, NEW n \in Node, HaltProbe(h, n)
  PROVE  IInv'
<1> USE DEF HaltProbe
<1>1. TypeOK'
  BY DEF IInv, TypeOK, haltOnly, schedVars, Tasks, IsFirst
<1>2. PassInv' /\ ChildInv' /\ StatusInv' /\ ClearedInv' /\ BreakpointInv' /\ ParallelInv'
  BY HaltKeepsRun
<1>3. Live' = Live /\ haltLock' = haltLock /\ haltLock = h
  BY DEF Live, Alive, haltOnly, IInv, HaltInv
<1>4. HaltInv'
  <2>1. CASE h = "run"
    BY <2>1, <1>3 DEF IInv, TypeOK, HaltInv, haltOnly, Assumptions, Live
  <2>2. CASE h # "run"
    BY <2>2, <1>3 DEF IInv, TypeOK, HaltInv, haltOnly, Assumptions
  <2> QED
    BY <2>1, <2>2
<1> QED
  BY <1>1, <1>2, <1>4 DEF IInv

LEMMA HaltProbeFailsStep ==
  ASSUME Assumptions, IInv, NEW h \in Halters, NEW n \in Node, HaltProbeFails(h, n)
  PROVE  IInv'
<1> USE DEF HaltProbeFails
<1>1. TypeOK'
  BY DEF IInv, TypeOK, haltOnly, schedVars, Tasks
<1>2. PassInv' /\ ChildInv' /\ StatusInv' /\ ClearedInv' /\ BreakpointInv' /\ ParallelInv'
  BY HaltKeepsRun
<1>3. h # "run"
  BY DEF IInv, HaltInv, IsFirst
<1>4. Live' = Live /\ haltLock = h
  BY DEF Live, Alive, haltOnly, IInv, HaltInv
<1>5. HaltInv'
  BY <1>3, <1>4 DEF IInv, TypeOK, HaltInv, haltOnly, Assumptions
<1> QED
  BY <1>1, <1>2, <1>5 DEF IInv

LEMMA HaltEndStep ==
  ASSUME Assumptions, IInv, NEW h \in Halters, HaltEnd(h)
  PROVE  IInv'
<1> DEFINE killed == {n \in victims : Alive(n)}
<1>1. PICK left \in [killed -> LeftByKill] :
        /\ child' = [n \in Node |-> IF n \in killed THEN "exit1" ELSE child[n]]
        /\ manifest' = [n \in Node |-> IF n \in killed THEN left[n] ELSE manifest[n]]
  BY DEF HaltEnd
<1>2. child' \in [Node -> ChildState] /\ manifest' \in [Node -> Manifest]
  BY <1>1 DEF IInv, TypeOK, ChildState, Manifest, LeftByKill
<1>3. \A n \in Node : child'[n] # child[n] => Alive(n) /\ child'[n] = "exit1"
  BY <1>1
<1>4. Live' \subseteq Live \ victims
  BY <1>1 DEF Live, Alive
<1>5. TypeOK'
  BY <1>2 DEF IInv, TypeOK, HaltEnd, haltOnly, schedVars, Tasks
<1>6. PassInv' /\ ChildInv' /\ StatusInv' /\ ClearedInv' /\ BreakpointInv' /\ ParallelInv'
  BY <1>2, <1>3, <1>4, ProcessesEnd DEF HaltEnd, haltOnly
<1>7. HaltInv'
  <2>1. haltLock = h
    BY DEF IInv, HaltInv, HaltEnd
  <2>2. CASE h = "run"
    <3>1. Live' = {}
      BY <1>4, <2>2 DEF IInv, HaltInv, HaltEnd
    <3> QED
      BY <2>1, <2>2, <3>1 DEF IInv, TypeOK, HaltInv, HaltEnd, haltOnly, Assumptions
  <2>3. CASE h # "run"
    BY <1>4, <2>1, <2>3 DEF IInv, TypeOK, HaltInv, HaltEnd, haltOnly, Assumptions
  <2> QED
    BY <2>2, <2>3
<1> QED
  BY <1>5, <1>6, <1>7 DEF IInv

-----------------------------------------------------------------------------
(* The invariant is inductive: every action preserves it.                  *)
LEMMA NextStep ==
  ASSUME Assumptions, IInv, [Next]_vars
  PROVE  IInv'
<1>1. CASE LoopTest \/ (\E n \in Node : ProcessAlive(n) \/ ProcessTorn(n) \/ Postpone(n))
             \/ GiveUp \/ Join \/ Interrupt
  BY <1>1, QuietLoopSteps, QuietStep
<1>2. ASSUME NEW n \in Node, ProcessEnded(n) PROVE IInv'
  BY <1>2, ProcessEndedStep
<1>3. CASE Launch
  BY <1>3, LaunchStep
<1>4. ASSUME NEW n \in Node, StartNode(n) PROVE IInv'
  BY <1>4, StartNodeStep
<1>5. ASSUME NEW n \in Node, SpawnNode(n) PROVE IInv'
  BY <1>5, SpawnNodeStep
<1>6. CASE Return
  BY <1>6, ReturnStep
<1>7. ASSUME NEW n \in Node, Ends(n) \/ Killed(n) PROVE IInv'
  <2>1. \E code \in {"exit0", "exit1"}, left \in Manifest : Exit(n, code, left)
    BY <1>7 DEF Ends, Succeeds, Fails, ExitsWithoutManifest, Killed, LeftByKill, Manifest,
                LeftBySuccess, LeftByFailure, LeftByDelay
  <2> QED
    BY <2>1, ExitStep
<1>8. ASSUME NEW h \in Halters, HaltEnter(h) \/ HaltStep(h) PROVE IInv'
  BY <1>8, HaltEnterStep, HaltLookStep, HaltProbeStep, HaltProbeFailsStep, HaltEndStep
     DEF HaltStep
<1>9. CASE UNCHANGED vars
  BY <1>9 DEF vars, IInv, TypeOK, PassInv, ChildInv, StatusInv, ClearedInv, BreakpointInv,
     ParallelInv, HaltInv, Tasks, Starting, Waiting, Live, Alive, Started, Cleared, NotAbleToRun, InputsDone,
     Inputs, BreakpointRunning, MaxParallel
<1> QED
  BY <1>1, <1>2, <1>3, <1>4, <1>5, <1>6, <1>7, <1>8, <1>9 DEF Next, Loop, Terminated

(* Every reachable state satisfies the inductive invariant, and with it    *)
(* the types TypeOK states.                                                *)
THEOREM Invariant == Spec => []IInv
<1>1. Init => IInv
  BY Assumptions, InitInv
<1>2. IInv /\ [Next]_vars => IInv'
  BY Assumptions, NextStep
<1> QED
  BY <1>1, <1>2, PTL DEF Spec

(* Only nodes with a process run, and every variable keeps its type.       *)
THEOREM TypeCorrect == Spec => []TypeOK
<1>1. IInv => TypeOK
  BY DEF IInv
<1> QED
  BY <1>1, Invariant, PTL

(* No node is started before its inputs have settled, nor over a failure,  *)
(* however the processes end and whoever halts them.                       *)
THEOREM StartsAreSafe == Spec => []StartedOnSettledInputs
<1>1. IInv => StartedOnSettledInputs
  BY DEF IInv, ClearedInv, Cleared, NotAbleToRun, StartedOnSettledInputs
<1> QED
  BY <1>1, Invariant, PTL

(* A breakpoint node has the machine to itself. *)
THEOREM BreakpointsAreIsolated == Spec => []BreakpointIsolated
<1>1. IInv => BreakpointIsolated
  BY DEF IInv, ChildInv, BreakpointInv, BreakpointIsolated
<1> QED
  BY <1>1, Invariant, PTL

(* Never more than __max_parallel_run local processes at a time.           *)
THEOREM ParallelIsBounded == Spec => []LocalParallelBound
<1>1. IInv => LocalParallelBound
  <2> SUFFICES ASSUME IInv PROVE LocalParallelBound
    OBVIOUS
  <2>1. running \cap flow.local \in SUBSET Node
    BY Assumptions DEF IInv, TypeOK, Tasks, Assumptions, FlowType
  <2>2. Live \cap flow.local \subseteq running \cap flow.local
    BY DEF IInv, ChildInv
  <2>3. /\ Cardinality(running \cap flow.local) \in Nat
        /\ Cardinality(Live \cap flow.local) \in Nat
        /\ Cardinality(Live \cap flow.local) <= Cardinality(running \cap flow.local)
    BY <2>1, <2>2, NodeSets, Assumptions
  <2> QED
    BY <2>3, MaxParallelType, Assumptions DEF IInv, ParallelInv, LocalParallelBound
<1> QED
  BY <1>1, Invariant, PTL

(* However the run ends, its processes are gone when run() returns, and    *)
(* its cleanup does not fail on the way there.                             *)
THEOREM RunCleansUp == Spec => []NoProcessOutlivesRun
<1>1. IInv => NoProcessOutlivesRun
  BY DEF IInv, HaltInv, NoProcessOutlivesRun
<1> QED
  BY <1>1, Invariant, PTL
-----------------------------------------------------------------------------
FinalStep ==
  \A n \in Node :
    /\ IsDone(status[n]) => status'[n] = status[n]
    /\ n \notin procs => child'[n] = child[n]

(* A node that has settled or was dropped is left alone by every step.     *)
LEMMA FinalNextStep ==
  ASSUME Assumptions, IInv, Next
  PROVE  FinalStep
<1>0. /\ status \in [Node -> Status]
      /\ child \in [Node -> ChildState]
      /\ \A n \in procs : ~ IsDone(status[n])
      /\ running \subseteq procs
      /\ \A n \in Node : Alive(n) => n \in procs
  BY DEF IInv, TypeOK, StatusInv, ChildInv, Live
<1>1. CASE UNCHANGED <<status, child>>
  BY <1>1 DEF FinalStep
<1>2. ASSUME NEW n \in Node, ProcessEnded(n) PROVE FinalStep
  BY <1>0, <1>2 DEF ProcessEnded, FinalStep, IInv, PassInv, IsFirst
<1>3. ASSUME NEW n \in Node, StartNode(n) PROVE FinalStep
  BY <1>0, <1>3 DEF StartNode, FinalStep, IInv, PassInv, IsFirst, Starting, Waiting
<1>4. ASSUME NEW n \in Node, SpawnNode(n) PROVE FinalStep
  BY <1>0, <1>4 DEF SpawnNode, FinalStep, IInv, PassInv, IsFirst, Starting, Waiting
<1>5. ASSUME NEW n \in Node, NEW code, NEW left, Exit(n, code, left) PROVE FinalStep
  BY <1>0, <1>5 DEF Exit, FinalStep, schedVars
<1>6. ASSUME NEW h \in Halters, HaltEnd(h) PROVE FinalStep
  BY <1>0, <1>6 DEF HaltEnd, FinalStep, haltOnly, schedVars
<1>7. ASSUME NEW n \in Node, Ends(n) \/ Killed(n) PROVE FinalStep
  BY <1>5, <1>7 DEF Ends, Succeeds, Fails, ExitsWithoutManifest, Killed
<1>8. ASSUME NEW h \in Halters, HaltEnter(h) \/ HaltStep(h) PROVE FinalStep
  BY <1>1, <1>6, <1>8
     DEF HaltStep, HaltEnter, HaltLook, HaltProbe, HaltProbeFails, haltOnly, schedVars
<1>9. CASE LoopTest \/ (\E n \in Node : ProcessAlive(n) \/ ProcessTorn(n) \/ Postpone(n))
             \/ Launch \/ GiveUp \/ Join \/ Return \/ Interrupt \/ Terminated
  BY <1>1, <1>9
     DEF LoopTest, ProcessAlive, ProcessTorn, Postpone, Launch, GiveUp, Join, Return, Interrupt,
         Terminated, vars, schedVars
<1> QED
  BY <1>2, <1>3, <1>4, <1>7, <1>8, <1>9 DEF Next, Loop

(* A settled node never changes again and nothing is started twice.        *)
THEOREM OutcomesAreFinal == Spec => OutcomeIsFinal
<1>1. IInv /\ [Next]_vars => [FinalStep]_vars
  BY Assumptions, FinalNextStep
<1> QED
  BY <1>1, Invariant, PTL DEF Spec, OutcomeIsFinal, FinalStep

-----------------------------------------------------------------------------
(***************************************************************************)
(* What becomes of the nodes of a run, and that TaskScheduler implements   *)
(* DagExecution.                                                           *)
(***************************************************************************)
(* Among sets of numbers there is a least one. *)
LEMMA LeastNat ==
  ASSUME NEW B \in SUBSET Nat, B # {}
  PROVE  \E k \in B : \A m \in B : k <= m
<1> DEFINE R == OpToRel(<, Nat)
<1>1. \E k \in B : \A m \in B : ~ (<<m, k>> \in R)
  BY NatLessThanWellFounded, WFMin
<1>2. \A k, m \in B : m < k => <<m, k>> \in R
  BY DEF OpToRel
<1> HIDE DEF R
<1>3. PICK k \in B : \A m \in B : ~ (<<m, k>> \in R)
  BY <1>1
<1>4. \A m \in B : k \in Nat /\ m \in Nat /\ ~ (m < k)
  BY <1>2, <1>3
<1> QED
  BY <1>4

(* A set of nodes that is not empty has a first one. *)
LEMMA FirstExists ==
  ASSUME Assumptions, NEW S \in SUBSET Node, S # {}
  PROVE  \E n \in S : IsFirst(n, S)
<1>1. S \in SUBSET Nat
  BY DEF Node, Assumptions
<1> QED
  BY <1>1, LeastNat DEF IsFirst

(* Among subsets of a finite set there is a smallest one. *)
LEMMA LeastSet ==
  ASSUME NEW S, IsFiniteSet(S), NEW B \in SUBSET (SUBSET S), B # {}
  PROVE  \E T \in B : \A U \in B : Cardinality(T) <= Cardinality(U)
<1> DEFINE C == {Cardinality(T) : T \in B}
<1>1. C \in SUBSET Nat /\ C # {}
  BY FS_Subset, FS_CardinalityType
<1> HIDE DEF C
<1>2. PICK k \in C : \A m \in C : k <= m
  BY <1>1, LeastNat
<1> QED
  BY <1>2 DEF C

(* The sum over a subset of S, written out for the element CHOOSE picks. *)
Partial(f, g, s) == IF s = {} THEN 0 ELSE f[CHOOSE x \in s : TRUE] + g[s \ {CHOOSE x \in s : TRUE}]

IsSum(g, f, S) == \A s \in SUBSET S : g[s] = Partial(f, g, s)

(* The fold over a finite set is a sum. *)
LEMMA SumIsDefined ==
  ASSUME NEW f, NEW S, IsFiniteSet(S)
  PROVE  \E g : IsSum(g, f, S) /\ SumFunctionOnSet(f, S) = g[S]
<1> DEFINE Up(k)   == {s \in SUBSET S : Cardinality(s) <= k}
           Good(k) == \E g : g = [s \in Up(k) |-> Partial(f, g, s)]
           Bad     == {k \in Nat : ~ Good(k)}
<1>1. \A s \in SUBSET S : IsFiniteSet(s) /\ Cardinality(s) \in Nat /\ Cardinality(s) <= Cardinality(S)
  BY FS_Subset, FS_CardinalityType
<1>2. ASSUME NEW s \in SUBSET S, s # {}
      PROVE  s \ {CHOOSE x \in s : TRUE} \in SUBSET S
             /\ Cardinality(s \ {CHOOSE x \in s : TRUE}) = Cardinality(s) - 1
  BY <1>1, <1>2, FS_RemoveElement
<1>3. Good(0)
  <2>1. \A s \in Up(0) : s = {}
    <3>1. \A s \in Up(0) : s # {} => Cardinality(s) - 1 \in Nat
      BY <1>1, <1>2
    <3> QED
      BY <1>1, <3>1
  <2>2. [s \in Up(0) |-> 0] = [s \in Up(0) |-> Partial(f, [t \in Up(0) |-> 0], s)]
    BY <2>1 DEF Partial
  <2> QED
    BY <2>2
<1>4. ASSUME NEW k \in Nat, Good(k) PROVE Good(k + 1)
  <2>1. PICK g : g = [s \in Up(k) |-> Partial(f, g, s)]
    BY <1>4
  <2> DEFINE h == [s \in Up(k + 1) |-> Partial(f, g, s)]
  <2>2. \A s \in Up(k + 1) : s # {} => s \ {CHOOSE x \in s : TRUE} \in Up(k)
    BY <1>1, <1>2
  <2>3. \A s \in Up(k) : s \in Up(k + 1)
    BY <1>1
  <2>4. \A s \in Up(k) : h[s] = g[s]
    <3> HIDE DEF Up
    <3> QED
      BY <2>1, <2>3
  <2>5. ASSUME NEW s \in Up(k + 1) PROVE Partial(f, h, s) = Partial(f, g, s)
    <3> DEFINE rest == s \ {CHOOSE x \in s : TRUE}
    <3>1. s # {} => h[rest] = g[rest]
      BY <2>2, <2>4
    <3> HIDE DEF h
    <3> QED
      BY <3>1 DEF Partial
  <2>6. h = [s \in Up(k + 1) |-> Partial(f, h, s)]
    <3> HIDE DEF Up
    <3> QED
      BY <2>5
  <2> QED
    BY <2>6
<1>5. Bad = {}
  <2> SUFFICES ASSUME Bad # {} PROVE FALSE
    OBVIOUS
  <2>1. PICK k \in Bad : \A m \in Bad : k <= m
    BY LeastNat
  <2>2. k \in Nat /\ k # 0 /\ ~ Good(k)
    BY <1>3
  <2> HIDE DEF Good
  <2>3. k - 1 \in Nat /\ Good(k - 1)
    BY <2>1, <2>2
  <2> QED
    BY <1>4, <2>2, <2>3
<1>6. \E g : g = [s \in SUBSET S |-> Partial(f, g, s)]
  <2>1. Cardinality(S) \in Nat /\ Up(Cardinality(S)) = SUBSET S
    BY <1>1
  <2>2. Good(Cardinality(S))
    BY <1>5, <2>1
  <2> QED
    BY <2>1, <2>2
<1> DEFINE sum == CHOOSE g : g = [s \in SUBSET S |-> Partial(f, g, s)]
<1>7. SumFunctionOnSet(f, S) = sum[S]
  BY Zenon DEF SumFunctionOnSet, FoldFunctionOnSet, MapThenFoldSet, Partial
<1>8. sum = [s \in SUBSET S |-> Partial(f, sum, s)]
  BY <1>6
<1>9. IsSum(sum, f, S)
  <2> HIDE DEF sum
  <2>1. \A s \in SUBSET S : [u \in SUBSET S |-> Partial(f, sum, u)][s] = Partial(f, sum, s)
    OBVIOUS
  <2> QED
    BY <1>8, <2>1 DEF IsSum
<1> QED
  BY <1>7, <1>9

(* The sum does not depend on the order in which CHOOSE takes the elements. *)
LEMMA SumOfParts ==
  ASSUME NEW S, IsFiniteSet(S), NEW f \in [S -> Nat],
         NEW g, IsSum(g, f, S)
  PROVE  /\ g[{}] = 0
         /\ \A s \in SUBSET S : g[s] \in Nat /\ \A x \in s : g[s] = f[x] + g[s \ {x}]
<1> DEFINE Good(s) == g[s] \in Nat /\ \A x \in s : g[s] = f[x] + g[s \ {x}]
           Bad == {s \in SUBSET S : ~ Good(s)}
<1>1. g[{}] = 0
  BY DEF IsSum, Partial
<1>2. ASSUME NEW s \in SUBSET S, s # {}
      PROVE  \E c \in s : g[s] = f[c] + g[s \ {c}]
  BY <1>2 DEF IsSum, Partial
<1>3. ASSUME NEW s \in SUBSET S, NEW c \in s
      PROVE  s \ {c} \in SUBSET S /\ Cardinality(s \ {c}) < Cardinality(s)
  BY FS_Subset, FS_RemoveElement, FS_CardinalityType
<1>4. Bad = {}
  <2> SUFFICES ASSUME Bad # {} PROVE FALSE
    OBVIOUS
  <2>1. PICK s \in Bad : \A u \in Bad : Cardinality(s) <= Cardinality(u)
    BY LeastSet
  <2>2. s \in SUBSET S /\ ~ Good(s) /\ s # {}
    BY <1>1
  <2> HIDE DEF Good
  <2>3. \A c \in s : Good(s \ {c})
    <3>1. \A u \in SUBSET S : Cardinality(u) \in Nat
      BY FS_Subset, FS_CardinalityType
    <3> QED
      BY <1>3, <2>1, <2>2, <3>1
  <2>4. PICK c \in s : g[s] = f[c] + g[s \ {c}]
    BY <1>2, <2>2
  <2>5. c \in S /\ f[c] \in Nat /\ g[s \ {c}] \in Nat
    BY <2>2, <2>3 DEF Good
  <2>6. ASSUME NEW x \in s, x # c PROVE g[s] = f[x] + g[s \ {x}]
    <3>1. g[s \ {c}] = f[x] + g[(s \ {c}) \ {x}]
      BY <2>3, <2>6 DEF Good
    <3>2. g[s \ {x}] = f[c] + g[(s \ {c}) \ {x}]
      <4>1. g[s \ {x}] = f[c] + g[(s \ {x}) \ {c}]
        BY <2>3, <2>6 DEF Good
      <4>2. (s \ {x}) \ {c} = (s \ {c}) \ {x}
        OBVIOUS
      <4> QED
        BY <4>1, <4>2
    <3>4. Good((s \ {c}) \ {x})
      <4>1. s \ {c} \in SUBSET S /\ x \in s \ {c}
        BY <2>2, <2>6
      <4>2. (s \ {c}) \ {x} \in SUBSET S
        BY <2>2
      <4>3. Cardinality(s \ {c}) < Cardinality(s)
        BY <1>3, <2>2
      <4>4. Cardinality((s \ {c}) \ {x}) < Cardinality(s \ {c})
        BY <1>3, <4>1
      <4>5. \A u \in SUBSET S : Cardinality(u) \in Nat
        BY FS_Subset, FS_CardinalityType
      <4> DEFINE u == (s \ {c}) \ {x}
      <4>6. ~ (Cardinality(s) <= Cardinality(u))
        BY <2>2, <4>1, <4>2, <4>3, <4>4, <4>5
      <4>7. u \notin Bad
        BY <2>1, <4>6
      <4> QED
        BY <4>2, <4>7
    <3>5. f[x] \in Nat /\ g[(s \ {c}) \ {x}] \in Nat
      BY <2>2, <3>4 DEF Good
    <3> QED
      BY <2>4, <2>5, <3>1, <3>2, <3>5
  <2>7. Good(s)
    <3>1. g[s] \in Nat
      BY <2>4, <2>5
    <3>2. \A x \in s : g[s] = f[x] + g[s \ {x}]
      BY <2>4, <2>6
    <3> QED
      BY <3>1, <3>2 DEF Good
  <2> QED
    BY <2>2, <2>7
<1> QED
  BY <1>1, <1>4

(* The sums over the subsets of a set agree. *)
LEMMA SumOverSubset ==
  ASSUME NEW S, IsFiniteSet(S), NEW f,
         NEW g, IsSum(g, f, S), NEW T \in SUBSET S
  PROVE  SumFunctionOnSet(f, T) = g[T]
<1>1. IsFiniteSet(T)
  BY FS_Subset
<1>2. PICK h : IsSum(h, f, T) /\ SumFunctionOnSet(f, T) = h[T]
  BY <1>1, SumIsDefined
<1> DEFINE Bad == {s \in SUBSET T : h[s] # g[s]}
<1>3. Bad = {}
  <2> SUFFICES ASSUME Bad # {} PROVE FALSE
    OBVIOUS
  <2>1. PICK s \in Bad : \A u \in Bad : Cardinality(s) <= Cardinality(u)
    BY <1>1, LeastSet
  <2>2. h[s] = Partial(f, h, s) /\ g[s] = Partial(f, g, s)
    BY <1>2, <2>1 DEF IsSum
  <2>3. s # {}
    BY <2>1, <2>2 DEF Partial
  <2> DEFINE rest == s \ {CHOOSE x \in s : TRUE}
  <2>4. rest \in SUBSET T /\ Cardinality(rest) < Cardinality(s)
        /\ Cardinality(s) \in Nat /\ Cardinality(rest) \in Nat
    BY <1>1, <2>3, FS_Subset, FS_RemoveElement, FS_CardinalityType
  <2>5. h[rest] = g[rest]
    <3> HIDE DEF rest
    <3> QED
      BY <2>1, <2>4
  <2> QED
    BY <2>1, <2>2, <2>5 DEF Partial
<1> QED
  BY <1>2, <1>3

(* What the sums over sets of nodes are made of. *)
LEMMA SumFacts ==
  ASSUME NEW S, IsFiniteSet(S), NEW f \in [S -> Nat], NEW T \in SUBSET S
  PROVE  /\ SumFunctionOnSet(f, {}) = 0
         /\ SumFunctionOnSet(f, T) \in Nat
         /\ \A x \in S \ T : SumFunctionOnSet(f, T \cup {x}) = f[x] + SumFunctionOnSet(f, T)
         /\ \A U \in SUBSET T : SumFunctionOnSet(f, U) <= SumFunctionOnSet(f, T)
<1>1. PICK g : IsSum(g, f, S)
  BY SumIsDefined
<1>2. \A s \in SUBSET S : SumFunctionOnSet(f, s) = g[s]
  BY <1>1, SumOverSubset
<1>3. /\ g[{}] = 0
      /\ \A s \in SUBSET S : g[s] \in Nat /\ \A x \in s : g[s] = f[x] + g[s \ {x}]
  BY <1>1, SumOfParts
<1>4. ASSUME NEW x \in S \ T PROVE g[T \cup {x}] = f[x] + g[T]
  <2>1. (T \cup {x}) \ {x} = T /\ T \cup {x} \in SUBSET S
    OBVIOUS
  <2> QED
    BY <1>3, <2>1
<1>5. ASSUME NEW U \in SUBSET T PROVE g[U] <= g[T]
  <2> DEFINE Bad == {s \in SUBSET T : U \subseteq s /\ ~ (g[U] <= g[s])}
  <2> SUFFICES Bad = {}
    BY <1>5
  <2> SUFFICES ASSUME Bad # {} PROVE FALSE
    OBVIOUS
  <2>1. IsFiniteSet(T)
    BY FS_Subset
  <2>2. PICK s \in Bad : \A u \in Bad : Cardinality(s) <= Cardinality(u)
    BY <2>1, LeastSet
  <2>3. g[s] \in Nat /\ g[U] \in Nat /\ s # U
    BY <1>3, <2>2
  <2>4. PICK x \in s : x \notin U
    BY <2>2, <2>3
  <2>5. g[s] = f[x] + g[s \ {x}] /\ f[x] \in Nat /\ g[s \ {x}] \in Nat
    BY <1>3, <2>2
  <2>6. s \ {x} \in SUBSET T /\ Cardinality(s \ {x}) < Cardinality(s)
        /\ Cardinality(s) \in Nat /\ Cardinality(s \ {x}) \in Nat
    BY <2>1, <2>2, FS_Subset, FS_RemoveElement, FS_CardinalityType
  <2>7. g[U] <= g[s \ {x}]
    BY <2>2, <2>4, <2>6
  <2> QED
    BY <2>2, <2>3, <2>5, <2>7
<1> QED
  BY <1>2, <1>3, <1>4, <1>5

(* What the nodes of a set use together. *)
LEMMA ThreadsAdd ==
  ASSUME Assumptions, TypeOK, NEW S \in SUBSET Node
  PROVE  /\ SumFunctionOnSet(Threads, {}) = 0
         /\ SumFunctionOnSet(Threads, S) \in Nat
         /\ \A n \in Node : Threads[n] \in Nat
         /\ \A n \in Node \ S :
              SumFunctionOnSet(Threads, S \cup {n}) = Threads[n] + SumFunctionOnSet(Threads, S)
         /\ \A T \in SUBSET S : SumFunctionOnSet(Threads, T) <= SumFunctionOnSet(Threads, S)
<1>1. Threads \in [Node -> Nat]
  BY DEF Threads, Clip, TypeOK, Assumptions, FlowType
<1>2. IsFiniteSet(Node)
  BY NodeSets
<1> QED
  BY <1>1, <1>2, SumFacts

(* A machine on which nothing runs has room for any node. *)
LEMMA RoomWhenIdle ==
  ASSUME Assumptions, TypeOK, NEW n \in Node, running = {}
  PROVE  AllowStart(n)
<1>1. Threads[n] \in Int /\ Threads[n] <= MaxCores
  BY DEF Threads, Clip, TypeOK, Assumptions, FlowType
<1>2. SumFunctionOnSet(Threads, running) = 0
  BY ThreadsAdd
<1>3. Cardinality(running) < MaxParallel
  BY FS_EmptySet, MaxParallelType
<1> QED
  BY <1>1, <1>2, <1>3 DEF AllowStart

-----------------------------------------------------------------------------
(* Every node is before its fate when run() enters its loop. *)
LEMMA InitOutcome ==
  ASSUME Assumptions, Init
  PROVE  OutcomeInv
<1>1. flow.prior \in [Node -> Done \cup {PENDING}] /\ flow.local \subseteq Node
      /\ flow.runtime \subseteq Node
  BY DEF Init, Assumptions, FlowType
<1>2. EndingInv
  BY DEF Init, EndingInv, LoopSteps, Starting, Decided
<1>3. FateInv
  BY <1>1 DEF Init, FateInv, Tasks, Started
<1>4. ResultInv
  BY <1>1 DEF Init, ResultInv, Started
<1> QED
  BY <1>2, <1>3, <1>4 DEF OutcomeInv

(* A node that cannot run never will: the inputs that keep it from running *)
(* have settled.                                                           *)
LEMMA CannotRunStays ==
  ASSUME Assumptions, TypeOK, FinalStep, flow' = flow, NEW n \in Node, NotAbleToRun(n)
  PROVE  NotAbleToRun(n)'
<1>1. Inputs(n) \subseteq Node /\ Inputs(n)' = Inputs(n)
  BY DEF Inputs, TypeOK, Assumptions, FlowType
<1>2. \A i \in Inputs(n) : IsDone(status[i]) => status'[i] = status[i]
  BY <1>1 DEF FinalStep
<1>3. \A i \in Inputs(n) : IsError(status[i]) => IsDone(status[i])
  BY StatusFacts DEF IsError, IsDone
<1> QED
  BY <1>1, <1>2, <1>3 DEF NotAbleToRun, InputsDone

(* Whatever the step, nodes that had a fate keep it.  What is left to show *)
(* of each action is what it does to the nodes it takes out of procs or    *)
(* into running.                                                           *)
LEMMA FateStays ==
  ASSUME Assumptions, IInv, OutcomeInv, FinalStep, flow' = flow,
         procs' \subseteq procs,
         \A n \in procs \ procs' : n \in Started' \/ NotAbleToRun(n),
         \A n \in Node \ procs : status'[n] = status[n],
         running' \subseteq Started'
  PROVE  FateInv'
<1>1. Tasks \subseteq Node /\ Tasks' = Tasks /\ procs \subseteq Tasks
  BY DEF Tasks, IInv, TypeOK, Assumptions, FlowType
<1>2. ASSUME NEW n \in Tasks \ procs' PROVE n \in Started' \/ NotAbleToRun(n)'
  <2>1. NotAbleToRun(n) => NotAbleToRun(n)'
    BY <1>1, CannotRunStays DEF IInv
  <2>2. CASE n \in procs
    BY <2>1, <2>2, <1>2
  <2>3. CASE n \notin procs
    <3>1. n \in Started \/ NotAbleToRun(n)
      BY <2>3 DEF OutcomeInv, FateInv
    <3>2. child'[n] = child[n]
      BY <1>1, <2>3 DEF FinalStep
    <3> QED
      BY <1>1, <2>1, <3>1, <3>2 DEF Started
  <2> QED
    BY <2>2, <2>3
<1>3. \A n \in Node \ Tasks : status'[n] \in Done \cup {PENDING}
  BY <1>1 DEF OutcomeInv, FateInv
<1> QED
  BY <1>1, <1>2, <1>3 DEF FateInv

-----------------------------------------------------------------------------
(* Steps that start, settle and drop nothing and end no process. *)
Still == UNCHANGED <<flow, status, procs, running, child, manifest>>

(* Such a step only has to have a reason when it ends the loop. *)
LEMMA StillOutcome ==
  ASSUME Assumptions, IInv, OutcomeInv, Still, EndingInv'
  PROVE  OutcomeInv'
<1> USE DEF Still
<1>1. FateInv'
  BY DEF OutcomeInv, FateInv, Tasks, Started, NotAbleToRun, InputsDone, Inputs
<1>2. ResultInv'
  BY DEF OutcomeInv, ResultInv, Started
<1> QED
  BY <1>1, <1>2 DEF OutcomeInv

(* The run's thread gives up only when nothing can be started: had it      *)
(* postponed a node with nothing running, the node would have found room.  *)
LEMMA LoopOutcome ==
  ASSUME Assumptions, IInv, OutcomeInv,
         LoopTest \/ (\E n \in Node : ProcessAlive(n) \/ ProcessTorn(n) \/ Postpone(n))
           \/ GiveUp \/ Join \/ Interrupt \/ Return
  PROVE  OutcomeInv'
<1> USE DEF OutcomeInv, EndingInv, LoopSteps, Starting, Decided
<1>1. Still
  BY DEF Still, LoopTest, ProcessAlive, ProcessTorn, Postpone, GiveUp, Join, Interrupt, Return,
         schedVars
<1>2. Ready' = Ready
  BY <1>1 DEF Still, Ready, Waiting, NotAbleToRun, InputsDone, Inputs
<1>3. CASE LoopTest
  BY <1>1, <1>2, <1>3, StillOutcome DEF LoopTest, Still, Ready
<1>4. ASSUME NEW n \in Node, ProcessAlive(n) \/ ProcessTorn(n) PROVE OutcomeInv'
  BY <1>1, <1>4, StillOutcome DEF ProcessAlive, ProcessTorn
<1>5. ASSUME NEW n \in Node, Postpone(n) PROVE OutcomeInv'
  <2>1. running # {}
    BY <1>5, RoomWhenIdle DEF Postpone, IInv
  <2> QED
    BY <1>1, <1>5, <2>1, StillOutcome DEF Postpone
<1>6. CASE GiveUp
  BY <1>1, <1>2, <1>6, StillOutcome DEF GiveUp, schedVars
<1>7. CASE Join \/ Interrupt \/ Return
  BY <1>1, <1>2, <1>7, StillOutcome DEF Join, Interrupt, Return, schedVars
<1> QED
  BY <1>3, <1>4, <1>5, <1>6, <1>7

-----------------------------------------------------------------------------
(* What a process that is gone leaves as the node's status. *)
LEMMA VerdictOutcome ==
  ASSUME Assumptions, IInv, OutcomeInv, NEW n \in running, ~ Alive(n), manifest[n] # "torn"
  PROVE  /\ Verdict(n) \in Done \cup {RUNNING}
         /\ n \in flow.local => IsDone(Verdict(n))
<1>1. /\ n \in Node /\ child[n] \in {"exit0", "exit1"} /\ status[n] = RUNNING
      /\ manifest[n] \in {"absent", SUCCESS, SKIPPED, ERROR}
  BY DEF IInv, TypeOK, Tasks, Assumptions, FlowType, OutcomeInv, FateInv, Started, ChildState,
         Alive, StatusInv, Manifest
<1>2. Replayed(n) \in Done \cup {RUNNING}
  BY <1>1, StatusFacts DEF Replayed
<1>3. n \in flow.local /\ child[n] = "exit0" => Replayed(n) \in Done
  BY <1>1, StatusFacts DEF Replayed, OutcomeInv, ResultInv, LeftBySuccess, SUCCESS, SKIPPED
<1> QED
  BY <1>1, <1>2, <1>3, StatusFacts DEF Verdict, IsWaiting, IsDone

(* A node that is settled has run. *)
LEMMA ProcessEndedOutcome ==
  ASSUME Assumptions, IInv, OutcomeInv, FinalStep, NEW n \in Node, ProcessEnded(n)
  PROVE  OutcomeInv'
<1> USE DEF ProcessEnded
<1>1. /\ n \in running /\ running \subseteq Started
      /\ status' \in [Node -> Status] /\ status \in [Node -> Status]
  BY ProcessEndedStep DEF IInv, TypeOK, PassInv, IsFirst, OutcomeInv, FateInv
<1>2. Started' = Started
  BY DEF Started
<1>3. EndingInv'
  BY DEF OutcomeInv, EndingInv, Starting, Decided, LoopSteps
<1>4. FateInv'
  <2>1. \A m \in procs \ procs' : m \in Started'
    BY <1>1, <1>2
  <2>2. \A m \in Node \ procs : status'[m] = status[m]
    BY <1>1 DEF IInv, TypeOK
  <2> QED
    BY <1>1, <1>2, <2>1, <2>2, FateStays
<1>5. ResultInv'
  <2>1. /\ Verdict(n) \in Done \cup {RUNNING}
        /\ n \in flow.local => IsDone(Verdict(n))
    BY <1>1, VerdictOutcome
  <2>2. status'[n] = Verdict(n) /\ \A m \in Node \ {n} : status'[m] = status[m]
    BY <1>1
  <2>3. Started \subseteq Node
    BY DEF Started
  <2> QED
    BY <1>2, <2>1, <2>2, <2>3 DEF OutcomeInv, ResultInv
<1> QED
  BY <1>3, <1>4, <1>5 DEF OutcomeInv

(* A pass over waiting nodes drops those that cannot run, and when nothing *)
(* runs it leaves none that can.                                           *)
LEMMA LaunchOutcome ==
  ASSUME Assumptions, IInv, OutcomeInv, FinalStep, Launch
  PROVE  OutcomeInv'
<1> USE DEF Launch
<1>1. procs' \subseteq procs /\ running \subseteq Started /\ Started' = Started
  BY DEF OutcomeInv, FateInv, Started
<1>2. FateInv'
  BY <1>1, FateStays DEF Pruned
<1>3. ResultInv'
  BY <1>1 DEF OutcomeInv, ResultInv
<1>4. EndingInv'
  <2>1. Ready' \subseteq Ready
    BY <1>1 DEF Ready, Waiting, NotAbleToRun, InputsDone, Inputs
  <2>2. ASSUME running = {}, todo' = {} PROVE Ready = {}
    <3>1. Candidates = {}
      BY <2>2 DEF BreakpointRunning
    <3>2. Ready \cap flow.breakpoint \in SUBSET Node
      BY DEF Ready, Waiting, IInv, TypeOK, Tasks, Assumptions, FlowType
    <3>3. Ready \cap flow.breakpoint = {}
      BY <2>2, <3>1, <3>2, FirstExists DEF Candidates
    <3> QED
      BY <3>1, <3>3 DEF Candidates
  <2> QED
    BY <2>1, <2>2 DEF OutcomeInv, EndingInv, Starting, Decided, LoopSteps
<1> QED
  BY <1>2, <1>3, <1>4 DEF OutcomeInv

(* Starting a node: the mark in the record, and its process. *)
LEMMA StartNodeOutcome ==
  ASSUME Assumptions, IInv, OutcomeInv, FinalStep, NEW n \in Node, StartNode(n)
  PROVE  OutcomeInv'
<1> USE DEF StartNode
<1>1. n \in todo /\ n \in procs /\ n \notin Started /\ Started' = Started
  BY DEF IInv, PassInv, ChildInv, Starting, IsFirst, Waiting, Started
<1>2. \A m \in Node \ {n} : status'[m] = status[m]
  BY DEF IInv, TypeOK
<1>3. EndingInv'
  BY <1>1 DEF OutcomeInv, EndingInv, Starting, Decided, LoopSteps
<1>4. FateInv'
  BY <1>1, <1>2, FateStays DEF OutcomeInv, FateInv
<1>5. ResultInv'
  BY <1>1, <1>2 DEF OutcomeInv, ResultInv, Started
<1> QED
  BY <1>3, <1>4, <1>5 DEF OutcomeInv

(* A process starts only on inputs that are known. *)
LEMMA SpawnNodeOutcome ==
  ASSUME Assumptions, IInv, OutcomeInv, FinalStep, NEW n \in Node, SpawnNode(n)
  PROVE  OutcomeInv'
<1> USE DEF SpawnNode
<1>1. Started' = Started \cup {n} /\ status[n] = RUNNING
  BY DEF IInv, TypeOK, StatusInv, IsFirst, Started
<1>2. EndingInv'
  BY DEF OutcomeInv, EndingInv, Starting, Decided, LoopSteps
<1>3. FateInv'
  BY <1>1, FateStays DEF OutcomeInv, FateInv
<1>4. ResultInv'
  BY <1>1 DEF OutcomeInv, ResultInv, IInv, TypeOK
<1> QED
  BY <1>2, <1>3, <1>4 DEF OutcomeInv

-----------------------------------------------------------------------------
(* Processes end: the record does not change yet. *)
LEMMA EndsOutcome ==
  ASSUME Assumptions, IInv, OutcomeInv, FinalStep,
         UNCHANGED <<flow, schedVars, pc, ending>>, Started' = Started,
         \A n \in flow.local : child'[n] = "exit0" => manifest'[n] \in LeftBySuccess
  PROVE  OutcomeInv'
<1> USE DEF schedVars
<1>1. EndingInv'
  BY DEF OutcomeInv, EndingInv, Starting, Decided, Ready, Waiting, NotAbleToRun, InputsDone,
         Inputs
<1>2. FateInv'
  BY FateStays DEF OutcomeInv, FateInv
<1>3. ResultInv'
  BY DEF OutcomeInv, ResultInv
<1> QED
  BY <1>1, <1>2, <1>3 DEF OutcomeInv

(* A process that ends leaves an exit code and its node among running. *)
LEMMA ExitOutcome ==
  ASSUME Assumptions, IInv, OutcomeInv, FinalStep, NEW n \in Node,
         Ends(n) \/ Killed(n)
  PROVE  OutcomeInv'
<1>1. PICK code \in {"exit0", "exit1"}, left \in Manifest :
        /\ Exit(n, code, left)
        /\ n \in flow.local /\ code = "exit0" => left \in LeftBySuccess
  BY DEF Ends, Succeeds, Fails, ExitsWithoutManifest, Killed, LeftByKill, Manifest, LeftBySuccess,
         LeftByFailure, LeftByDelay
<1>2. Started' = Started
  BY <1>1 DEF Exit, Started, Alive, IInv, TypeOK
<1>3. \A m \in flow.local : child'[m] = "exit0" => manifest'[m] \in LeftBySuccess
  BY <1>1 DEF Exit, IInv, TypeOK, OutcomeInv, ResultInv, Assumptions, FlowType
<1> QED
  BY <1>1, <1>2, <1>3, EndsOutcome DEF Exit

(* Halting ends processes; no node's fate is settled by it. *)
LEMMA HaltOutcome ==
  ASSUME Assumptions, IInv, OutcomeInv, FinalStep, NEW h \in Halters,
         HaltEnter(h) \/ HaltStep(h)
  PROVE  OutcomeInv'
<1>1. CASE HaltEnd(h)
  <2> DEFINE killed == {n \in victims : Alive(n)}
  <2>1. PICK left \in [killed -> LeftByKill] :
          /\ child' = [n \in Node |-> IF n \in killed THEN "exit1" ELSE child[n]]
          /\ manifest' = [n \in Node |-> IF n \in killed THEN left[n] ELSE manifest[n]]
    BY <1>1 DEF HaltEnd
  <2>2. Started' = Started
    BY <2>1 DEF Started, Alive
  <2>3. \A n \in flow.local : child'[n] = "exit0" => manifest'[n] \in LeftBySuccess
    BY <2>1 DEF IInv, TypeOK, OutcomeInv, ResultInv, Assumptions, FlowType
  <2> QED
    BY <1>1, <2>2, <2>3, EndsOutcome DEF HaltEnd, haltOnly
<1>2. CASE UNCHANGED <<haltOnly, child, manifest>>
  BY <1>2, EndsOutcome DEF haltOnly, Started, OutcomeInv, ResultInv
<1> QED
  BY <1>1, <1>2 DEF HaltStep, HaltEnter, HaltLook, HaltProbe, HaltProbeFails

-----------------------------------------------------------------------------
(* OutcomeInv is inductive beside IInv. *)
LEMMA OutcomeStep ==
  ASSUME Assumptions, IInv, OutcomeInv, [Next]_vars
  PROVE  OutcomeInv'
<1>1. CASE UNCHANGED vars
  BY <1>1, StillOutcome
     DEF vars, Still, OutcomeInv, EndingInv, Starting, Decided, Ready, Waiting, NotAbleToRun,
         InputsDone, Inputs
<1>2. CASE Next
  <2>1. FinalStep
    BY <1>2, FinalNextStep
  <2>2. CASE Loop \/ Interrupt
    BY <2>1, <2>2, LoopOutcome, ProcessEndedOutcome, LaunchOutcome, StartNodeOutcome,
       SpawnNodeOutcome DEF Loop
  <2>3. CASE Terminated
    BY <1>1, <2>3 DEF Terminated
  <2> QED
    BY <1>2, <2>1, <2>2, <2>3, ExitOutcome, HaltOutcome DEF Next
<1> QED
  BY <1>1, <1>2

(* Both invariants hold in every reachable state. *)
THEOREM OutcomeInvariant == Spec => [](IInv /\ OutcomeInv)
<1>1. Init => OutcomeInv
  BY Assumptions, InitOutcome
<1>2. IInv /\ OutcomeInv /\ [Next]_vars => OutcomeInv'
  BY Assumptions, OutcomeStep
<1> QED
  BY <1>1, <1>2, Invariant, PTL DEF Spec

(* When the loop ends by itself every local node that was started has      *)
(* settled.                                                                *)
THEOREM StartedSettle == Spec => []StartedNodesSettle
<1>1. OutcomeInv => StartedNodesSettle
  BY DEF OutcomeInv, EndingInv, ResultInv, StartedNodesSettle
<1> QED
  BY <1>1, OutcomeInvariant, PTL

(* A task that was never started has a cause: take the first such node.    *)
(* Either an input has failed, or the inputs of a builtin were all         *)
(* skipped, or an input has not settled, which has then been lost or is    *)
(* not part of the run, for it comes before the first node not started.    *)
THEOREM UnstartedExplained == Spec => []UnstartedHasCause
<1>1. IInv /\ OutcomeInv => UnstartedHasCause
  <2> SUFFICES ASSUME IInv, OutcomeInv, Decided, Tasks \ Started # {}
               PROVE  \/ \E n \in Node : IsError(status[n]) \/ n \in Lost
                      \/ \E n \in Node \ Tasks : IsWaiting(status[n])
                      \/ \E n \in Tasks \cap flow.builtin :
                           Inputs(n) # {} /\ \A i \in Inputs(n) : status[i] = SKIPPED
    BY DEF UnstartedHasCause
  <2>1. /\ Tasks \subseteq Node
        /\ \A n \in Node : Inputs(n) \subseteq Node /\ Inputs(n) \subseteq 1 .. (n - 1)
    BY Assumptions DEF Tasks, Inputs, IInv, TypeOK, Assumptions, FlowType
  <2>2. PICK n \in Tasks \ Started : IsFirst(n, Tasks \ Started)
    BY <2>1, FirstExists, Assumptions
  <2>3. n \in Node /\ Inputs(n) \subseteq Node
    BY <2>1
  <2>4. running = {} /\ Ready = {} /\ status \in [Node -> Status]
    BY DEF OutcomeInv, EndingInv, IInv, TypeOK
  <2>5. NotAbleToRun(n) \/ ~ InputsDone(n)
    BY <2>2, <2>4 DEF OutcomeInv, FateInv, Ready, Waiting
  <2>6. CASE NotAbleToRun(n)
    <3>1. CASE \E i \in Inputs(n) : IsError(status[i])
      BY <3>1, <2>3
    <3>2. CASE \A i \in Inputs(n) : ~ IsError(status[i])
      <4>1. /\ n \in flow.builtin /\ Inputs(n) # {}
            /\ \A i \in Inputs(n) : IsDone(status[i]) /\ status[i] # SUCCESS
        BY <2>6, <3>2 DEF NotAbleToRun, InputsDone
      <4>2. \A i \in Inputs(n) : status[i] = SKIPPED
        BY <3>2, <4>1 DEF IsDone, IsError, Done, Failed, SUCCESS, SKIPPED, ERROR, TIMEOUT
      <4> QED
        BY <2>2, <4>1, <4>2
    <3> QED
      BY <3>1, <3>2
  <2>7. CASE ~ InputsDone(n)
    <3>1. PICK i \in Inputs(n) : ~ IsDone(status[i])
      BY <2>7 DEF InputsDone
    <3>2. i \in Node /\ ~ (n <= i)
      BY <2>1, <2>3, Assumptions DEF Node, Assumptions
    <3>3. CASE i \in Tasks
      <4>1. i \in Started
        BY <2>2, <3>2, <3>3 DEF IsFirst
      <4>2. status[i] = RUNNING
        BY <3>1, <4>1 DEF OutcomeInv, ResultInv, IsDone
      <4> QED
        BY <2>4, <3>2, <4>1, <4>2 DEF Lost
    <3>4. CASE i \notin Tasks
      BY <3>1, <3>2, <3>4 DEF OutcomeInv, FateInv, IsDone, IsWaiting
    <3> QED
      BY <3>3, <3>4
  <2> QED
    BY <2>5, <2>6, <2>7
<1> QED
  BY <1>1, OutcomeInvariant, PTL

-----------------------------------------------------------------------------
(***************************************************************************)
(* TaskScheduler implements DagExecution.                                  *)
(***************************************************************************)
Phases == [n \in Node |-> PhaseOf(n)]

(* The statuses of the two specifications are the same. *)
LEMMA SameStatuses == Dag!Done = Done /\ Dag!Failed = Failed /\ Dag!SUCCESS = SUCCESS
BY DEF Dag!Done, Dag!Failed, Dag!SUCCESS, Dag!ERROR, Dag!SKIPPED, Dag!TIMEOUT,
       Done, Failed, SUCCESS, ERROR, SKIPPED, TIMEOUT

(* The phase of a node says what the scheduler knows of it. *)
LEMMA PhaseFacts ==
  ASSUME Assumptions, IInv, NEW n \in Node
  PROVE  /\ Phases[n] = "running" <=> n \in running
         /\ Phases[n] = "waiting" <=> n \in Waiting
         /\ IsDone(status[n]) => Phases[n] = status[n]
         /\ Phases[n] \in Done => IsDone(status[n])
<1>1. /\ running \subseteq procs
      /\ IsDone(status[n]) => n \notin procs
  BY DEF IInv, TypeOK, StatusInv
<1>2. {"running", "waiting", "lost", "dropped", "absent"} \cap Done = {}
  BY DEF Done, SUCCESS, ERROR, SKIPPED, TIMEOUT
<1> QED
  BY <1>1, <1>2 DEF Phases, PhaseOf, Waiting, IsDone

(* What DagExecution says of a waiting node is what the scheduler decides. *)
LEMMA SameDecisions ==
  ASSUME Assumptions, IInv, NEW n \in Node
  PROVE  /\ Dag!Doomed(n) <=> NotAbleToRun(n)
         /\ Dag!Startable(n) <=> n \in Ready
<1>1. Inputs(n) \subseteq Node /\ Dag!Inputs(n) = Inputs(n)
  BY DEF Inputs, Dag!Inputs, IInv, TypeOK, Assumptions, FlowType
<1>2. ASSUME NEW i \in Inputs(n)
      PROVE  /\ Dag!Settled(i) <=> IsDone(status[i])
             /\ Phases[i] \in Failed <=> IsError(status[i])
             /\ IsDone(status[i]) => Phases[i] = status[i]
  BY <1>1, <1>2, PhaseFacts, StatusFacts, SameStatuses DEF Dag!Settled, Phases, IsError, IsDone
<1>3. Dag!Doomed(n) <=> NotAbleToRun(n)
  BY <1>1, <1>2, SameStatuses DEF Dag!Doomed, NotAbleToRun, InputsDone, Phases
<1>4. Dag!Startable(n) <=> n \in Ready
  BY <1>1, <1>2, <1>3, PhaseFacts DEF Dag!Startable, Ready, InputsDone, Phases
<1> QED
  BY <1>3, <1>4

(* A step that leaves procs, running and the statuses of settled nodes is  *)
(* a stutter.                                                              *)
LEMMA PhasesStay ==
  ASSUME Assumptions, IInv, flow' = flow, procs' = procs, running' = running,
         \A n \in Node \ procs : status'[n] = status[n] /\ child'[n] = child[n]
  PROVE  Phases' = Phases
<1>1. Tasks' = Tasks /\ running \subseteq procs
  BY DEF Tasks, IInv, TypeOK
<1>2. \A n \in Node : PhaseOf(n)' = PhaseOf(n)
  BY <1>1 DEF PhaseOf, Started
<1> QED
  BY <1>2 DEF Phases

DagStep == [Dag!Next]_(Dag!vars)

(* Nothing a reader of the phases can see has changed. *)
LEMMA Stutters ==
  ASSUME flow' = flow, Phases' = Phases, ending' = ending
  PROVE  DagStep
BY DEF DagStep, Dag!vars, Phases, OverOf, Decided

(* The loop goes on, is done, or is left. *)
LEMMA StillDag ==
  ASSUME Assumptions, IInv, OutcomeInv, Still,
         ending' = ending \/ (ending = "no" /\ ending' \in Endings),
         ending' \in {"complete", "gaveup"} => running = {} /\ Ready = {}
  PROVE  DagStep
<1>1. Phases' = Phases /\ flow' = flow
  BY PhasesStay DEF Still
<1>2. CASE ending' = ending
  BY <1>1, <1>2, Stutters
<1>3. CASE ending = "no" /\ ending' \in {"complete", "gaveup"}
  <2>1. \A n \in Node : Phases[n] # "running" /\ ~ Dag!Startable(n)
    BY <1>3, PhaseFacts, SameDecisions
  <2>2. Dag!Complete
    BY <1>1, <1>3, <2>1 DEF Dag!Complete, Phases, OverOf, Decided
  <2> QED
    BY <2>2 DEF DagStep, Dag!Next
<1>4. CASE ending = "no" /\ ending' \in {"interrupted", "raised"}
  <2>1. Dag!Abort
    BY <1>1, <1>4 DEF Dag!Abort, Phases, OverOf, Decided
  <2> QED
    BY <2>1 DEF DagStep, Dag!Next
<1> QED
  BY <1>2, <1>3, <1>4 DEF Endings

(* Steps of the loop that start and settle nothing are not seen, but for the end. *)
LEMMA LoopDag ==
  ASSUME Assumptions, IInv, OutcomeInv,
         LoopTest \/ (\E n \in Node : ProcessAlive(n) \/ ProcessTorn(n) \/ Postpone(n))
           \/ GiveUp \/ Join \/ Interrupt \/ Return
  PROVE  DagStep
<1>1. Still
  BY DEF Still, LoopTest, ProcessAlive, ProcessTorn, Postpone, GiveUp, Join, Interrupt, Return,
         schedVars
<1>2. /\ ending' = ending \/ (ending = "no" /\ ending' \in Endings)
      /\ ending' # ending /\ ending' \in {"complete", "gaveup"} => running = {} /\ Ready = {}
  BY DEF OutcomeInv, EndingInv, LoopTest, ProcessAlive, ProcessTorn, Postpone, GiveUp, Join,
         Interrupt, Return, schedVars, LoopSteps, Endings, Starting, Ready
<1>3. ending' = ending => (ending' \in {"complete", "gaveup"} => running = {} /\ Ready = {})
  BY DEF OutcomeInv, EndingInv, Decided
<1> QED
  BY <1>1, <1>2, <1>3, StillDag

(* A node's process starts when all that its inputs say is known. *)
LEMMA SpawnNodeDag ==
  ASSUME Assumptions, IInv, OutcomeInv, NEW n \in Node, SpawnNode(n)
  PROVE  DagStep
<1> USE DEF SpawnNode
<1>1. n \in Ready
  BY DEF IInv, PassInv, ClearedInv, Cleared, Starting, IsFirst, Ready
<1>2. ASSUME NEW m \in Node \ {n} PROVE PhaseOf(m)' = PhaseOf(m)
  BY <1>2 DEF PhaseOf, Tasks, Started, IInv, TypeOK
<1>3. PhaseOf(n)' = "running"
  BY DEF PhaseOf
<1>4. Phases' = [Phases EXCEPT ![n] = "running"]
  BY <1>2, <1>3 DEF Phases
<1>5. ending = "no"
  BY DEF OutcomeInv, EndingInv, LoopSteps
<1>6. Dag!Start(n)
  BY <1>1, <1>4, <1>5, SameDecisions DEF Dag!Start, Phases, OverOf, Decided
<1> QED
  BY <1>6 DEF DagStep, Dag!Next

(* A node that is settled has one of the results, or is lost. *)
LEMMA ProcessEndedDag ==
  ASSUME Assumptions, IInv, OutcomeInv, NEW n \in Node, ProcessEnded(n)
  PROVE  DagStep
<1> USE DEF ProcessEnded
<1>1. n \in running /\ n \in Tasks /\ n \in Started /\ status \in [Node -> Status]
  BY DEF IInv, TypeOK, PassInv, IsFirst, OutcomeInv, FateInv
<1>2. ASSUME NEW m \in Node \ {n} PROVE PhaseOf(m)' = PhaseOf(m)
  BY <1>1, <1>2 DEF PhaseOf, Tasks, Started
<1>3. PhaseOf(n)' \in Done \cup {"lost"}
  BY <1>1 DEF PhaseOf, Tasks, Started, IsDone
<1>4. Phases' = [Phases EXCEPT ![n] = PhaseOf(n)']
  BY <1>2 DEF Phases
<1>5. ending = "no"
  BY DEF OutcomeInv, EndingInv, LoopSteps
<1>6. Dag!Finish(n)
  BY <1>1, <1>3, <1>4, <1>5, PhaseFacts, SameStatuses DEF Dag!Finish, Phases, OverOf, Decided
<1> QED
  BY <1>6 DEF DagStep, Dag!Next

(* Only nodes that cannot run are dropped, and all of them. *)
LEMMA LaunchDag ==
  ASSUME Assumptions, IInv, OutcomeInv, Launch
  PROVE  DagStep
<1> USE DEF Launch
<1>1. CASE BreakpointRunning
  BY <1>1, PhasesStay, Stutters
<1>2. CASE ~ BreakpointRunning
  <2>1. ending = "no"
    BY DEF OutcomeInv, EndingInv, LoopSteps
  <2>2. ASSUME NEW n \in Node
        PROVE  PhaseOf(n)' = IF Phases[n] = "waiting" /\ Dag!Doomed(n) THEN "dropped" ELSE Phases[n]
    <3>1. Phases[n] = "waiting" /\ Dag!Doomed(n) <=> n \in Pruned
      BY PhaseFacts, SameDecisions DEF Pruned
    <3>2. CASE n \in Pruned
      <4>1. n \in Tasks /\ n \notin running /\ ~ IsDone(status[n]) /\ n \notin Started
        BY <3>2 DEF Pruned, Waiting, IInv, TypeOK, StatusInv, ChildInv, Started
      <4> QED
        BY <1>2, <3>1, <3>2, <4>1 DEF PhaseOf, Tasks, Started
    <3>3. CASE n \notin Pruned
      BY <1>2, <3>1, <3>3 DEF PhaseOf, Phases, Tasks, Started
    <3> QED
      BY <3>2, <3>3
  <2>3. Dag!Drop
    BY <2>1, <2>2 DEF Dag!Drop, Phases, OverOf, Decided
  <2> QED
    BY <2>3 DEF DagStep, Dag!Next
<1> QED
  BY <1>1, <1>2

(* The other steps change neither procs, running nor a settled node. *)
LEMMA OtherDag ==
  ASSUME Assumptions, IInv, OutcomeInv, FinalStep,
         (\E n \in Node : StartNode(n) \/ Ends(n) \/ Killed(n))
           \/ (\E h \in Halters : HaltEnter(h) \/ HaltStep(h))
  PROVE  DagStep
<1>1. UNCHANGED <<flow, procs, running, ending>>
  BY DEF StartNode, Ends, Succeeds, Fails, ExitsWithoutManifest, Killed, Exit, HaltEnter, HaltStep,
         HaltLook, HaltProbe, HaltProbeFails, HaltEnd, haltOnly, schedVars
<1>2. ASSUME NEW m \in Node \ procs PROVE status'[m] = status[m] /\ child'[m] = child[m]
  <2>1. child'[m] = child[m]
    BY DEF FinalStep
  <2>2. ASSUME NEW n \in Node, StartNode(n) PROVE status'[m] = status[m]
    BY <2>2 DEF StartNode, IInv, PassInv, Starting, Waiting, IsFirst, TypeOK
  <2>3. (\E n \in Node : StartNode(n)) \/ UNCHANGED status
    BY DEF Ends, Succeeds, Fails, ExitsWithoutManifest, Killed, Exit, HaltEnter,
       HaltStep, HaltLook, HaltProbe, HaltProbeFails, HaltEnd, haltOnly, schedVars
  <2> QED
    BY <2>1, <2>2, <2>3
<1> QED
  BY <1>1, <1>2, PhasesStay, Stutters

(* Every step of the scheduler is a step of DagExecution, or a stutter. *)
LEMMA ImplementsStep ==
  ASSUME Assumptions, IInv, OutcomeInv, [Next]_vars
  PROVE  DagStep
<1>1. CASE UNCHANGED vars
  BY <1>1, PhasesStay, Stutters DEF vars
<1>2. CASE Next
  <2>1. FinalStep
    BY <1>2, FinalNextStep
  <2>2. CASE Loop
    BY <2>1, <2>2, LoopDag, SpawnNodeDag, ProcessEndedDag, LaunchDag, OtherDag
       DEF Loop
  <2>3. CASE Terminated
    BY <1>1, <2>3 DEF Terminated
  <2> QED
    BY <1>2, <2>1, <2>2, <2>3, OtherDag, LoopDag DEF Next
<1> QED
  BY <1>1, <1>2

(* The scheduler implements the abstract execution of a flow: every step   *)
(* is one of DagExecution, or one that it does not see.                    *)
THEOREM Implements == Spec => ImplementsDag
<1>1. ASSUME Init PROVE Dag!Init
  <2>1. flow.prior \in [Node -> Done \cup {PENDING}]
    BY <1>1, Assumptions DEF Init, Assumptions, FlowType
  <2>2. \A n \in Node : PhaseOf(n) \in {"waiting", "absent"} \cup Done
    BY <1>1, <2>1 DEF Init, PhaseOf, IsDone, Tasks
  <2>3. OverOf = "no"
    BY <1>1 DEF Init, OverOf
  <2> QED
    BY <2>2, <2>3, SameStatuses DEF Dag!Init
<1>2. ASSUME IInv, OutcomeInv, [Next]_vars PROVE [Dag!Next]_(Dag!vars)
  BY <1>2, ImplementsStep, Assumptions DEF DagStep
<1> QED
  BY <1>1, <1>2, OutcomeInvariant, PTL DEF Spec, ImplementsDag, Dag!Spec

-----------------------------------------------------------------------------
(* Fewer nodes run, or the same ones, and none is about to be started. *)
LEMMA FewerThreads ==
  ASSUME Assumptions, IInv, ThreadInv, flow' = flow, running' \subseteq running, pc' # "spawn"
  PROVE  ThreadInv'
<1>1. running \cap flow.local \in SUBSET Node
  BY DEF IInv, TypeOK, Tasks, Assumptions, FlowType
<1>2. SumFunctionOnSet(Threads, running' \cap flow.local)
        <= SumFunctionOnSet(Threads, running \cap flow.local)
  BY <1>1, ThreadsAdd DEF IInv
<1>3. running' \cap flow.local \in SUBSET Node
  BY <1>1
<1>4. /\ SumFunctionOnSet(Threads, running' \cap flow.local) \in Nat
      /\ SumFunctionOnSet(Threads, running \cap flow.local) \in Nat
  BY <1>1, <1>3, ThreadsAdd DEF IInv
<1>5. Threads' = Threads
  BY DEF Threads
<1> QED
  BY <1>2, <1>4, <1>5, Assumptions DEF ThreadInv, Assumptions

(* The check before the start adds up all that run, remote nodes included. *)
LEMMA StartThreads ==
  ASSUME Assumptions, IInv, ThreadInv, NEW n \in Node, StartNode(n)
  PROVE  ThreadInv'
<1>1. running \subseteq Node /\ flow.local \subseteq Node
  BY DEF IInv, TypeOK, Tasks, Assumptions, FlowType
<1>2. /\ UNCHANGED <<flow, running, todo>> /\ IsFirst(n, todo) /\ Threads' = Threads
      /\ todo \subseteq Node
  BY DEF StartNode, Threads, IInv, TypeOK, Tasks, Assumptions, FlowType
<1>3. ASSUME NEW m \in flow.local, IsFirst(m, todo)
      PROVE  SumFunctionOnSet(Threads, (running \cap flow.local) \cup {m}) <= MaxCores
  <2>1. m = n
    BY <1>2, <1>3 DEF IsFirst, Node, Assumptions
  <2>2. Threads[n] + SumFunctionOnSet(Threads, running) <= MaxCores
    BY <1>3, <2>1 DEF StartNode, AllowStart
  <2>3. n \notin running
    BY <1>2 DEF IInv, PassInv, Starting, Waiting, StartNode, IsFirst
  <2>4. (running \cap flow.local) \cup {n} \in SUBSET (running \cup {n})
    OBVIOUS
  <2>5. SumFunctionOnSet(Threads, running \cup {n}) = Threads[n] + SumFunctionOnSet(Threads, running)
    BY <1>1, <2>3, ThreadsAdd DEF IInv
  <2>6. SumFunctionOnSet(Threads, (running \cap flow.local) \cup {n})
          <= SumFunctionOnSet(Threads, running \cup {n})
    BY <1>1, <2>4, ThreadsAdd DEF IInv
  <2>7. /\ SumFunctionOnSet(Threads, (running \cap flow.local) \cup {n}) \in Nat
        /\ SumFunctionOnSet(Threads, running \cup {n}) \in Nat
    BY <1>1, ThreadsAdd DEF IInv
  <2> QED
    BY <2>1, <2>2, <2>5, <2>6, <2>7 DEF Assumptions
<1> QED
  BY <1>2, <1>3 DEF ThreadInv

(* A process that is forked takes the cores that were found free for it. *)
LEMMA SpawnThreads ==
  ASSUME Assumptions, IInv, ThreadInv, NEW n \in Node, SpawnNode(n)
  PROVE  ThreadInv'
<1>1. flow' = flow /\ running' = running \cup {n} /\ Threads' = Threads /\ pc' = "start"
      /\ IsFirst(n, todo) /\ pc = "spawn"
  BY DEF SpawnNode, Threads
<1>2. CASE n \in flow.local
  <2>1. running' \cap flow.local = (running \cap flow.local) \cup {n}
    BY <1>1, <1>2
  <2> QED
    BY <1>1, <1>2, <2>1 DEF ThreadInv
<1>3. CASE n \notin flow.local
  <2>1. running' \cap flow.local = running \cap flow.local
    BY <1>1, <1>3
  <2> QED
    BY <1>1, <2>1 DEF ThreadInv
<1> QED
  BY <1>2, <1>3

(* No step lets the threads of running nodes exceed the cores. *)
LEMMA NextThreads ==
  ASSUME Assumptions, IInv, ThreadInv, [Next]_vars
  PROVE  ThreadInv'
<1>1. ASSUME NEW n \in Node, StartNode(n) \/ SpawnNode(n) PROVE ThreadInv'
  BY <1>1, StartThreads, SpawnThreads
<1>2. CASE \/ LoopTest \/ Launch \/ GiveUp \/ Join \/ Return \/ Interrupt
           \/ \E n \in Node : ProcessAlive(n) \/ ProcessEnded(n) \/ ProcessTorn(n) \/ Postpone(n)
  <2>1. flow' = flow /\ running' \subseteq running /\ pc' # "spawn"
    BY <1>2 DEF LoopTest, Launch, GiveUp, Join, Return, Interrupt, ProcessAlive, ProcessEnded,
       ProcessTorn, Postpone, schedVars
  <2> QED
    BY <2>1, FewerThreads
<1>3. CASE UNCHANGED <<flow, running, todo, pc>>
  BY <1>3 DEF ThreadInv, Threads, IsFirst
<1>4. ASSUME NEW n \in Node, Ends(n) \/ Killed(n) PROVE UNCHANGED <<flow, running, todo, pc>>
  BY <1>4 DEF Ends, Succeeds, Fails, ExitsWithoutManifest, Killed, Exit, schedVars
<1>5. ASSUME NEW h \in Halters, HaltEnter(h) \/ HaltStep(h) PROVE UNCHANGED <<flow, running, todo, pc>>
  BY <1>5 DEF HaltEnter, HaltStep, HaltLook, HaltProbe, HaltProbeFails, HaltEnd, haltOnly, schedVars
<1>6. Terminated \/ UNCHANGED vars => UNCHANGED <<flow, running, todo, pc>>
  BY DEF Terminated, vars
<1> QED
  BY <1>1, <1>2, <1>3, <1>4, <1>5, <1>6 DEF Next, Loop

(* The local processes alive at any time use no more cores than there are. *)
THEOREM ThreadsAreBounded == Spec => []LocalThreadBound
<1>1. Init => ThreadInv
  <2>1. Init => running \cap flow.local = {} /\ pc # "spawn"
    BY DEF Init
  <2>2. Init => SumFunctionOnSet(Threads, {}) = 0
    BY Assumptions, InitInv, ThreadsAdd DEF IInv
  <2> QED
    BY <2>1, <2>2, Assumptions DEF ThreadInv, Assumptions
<1>2. IInv /\ ThreadInv /\ [Next]_vars => ThreadInv'
  BY Assumptions, NextThreads
<1>3. IInv /\ ThreadInv => LocalThreadBound
  <2> SUFFICES ASSUME IInv, ThreadInv PROVE LocalThreadBound
    OBVIOUS
  <2>1. running \cap flow.local \in SUBSET Node
    BY Assumptions DEF IInv, TypeOK, Tasks, Assumptions, FlowType
  <2>2. Live \cap flow.local \in SUBSET (running \cap flow.local)
    BY DEF IInv, ChildInv
  <2>3. /\ SumFunctionOnSet(Threads, running \cap flow.local) \in Nat
        /\ SumFunctionOnSet(Threads, Live \cap flow.local) \in Nat
        /\ SumFunctionOnSet(Threads, Live \cap flow.local)
             <= SumFunctionOnSet(Threads, running \cap flow.local)
    BY <2>1, <2>2, ThreadsAdd, Assumptions DEF IInv
  <2> QED
    BY <2>3, Assumptions DEF ThreadInv, LocalThreadBound, Assumptions
<1> QED
  BY <1>1, <1>2, <1>3, Invariant, PTL DEF Spec
=============================================================================

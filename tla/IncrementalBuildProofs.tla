----------------------- MODULE IncrementalBuildProofs -----------------------
(***************************************************************************)
(* Proofs about IncrementalBuild, for every flow, every set of options and *)
(* every sequence of runs and changes.                                     *)
(***************************************************************************)
EXTENDS IncrementalBuild, WellFoundedInduction, TLAPS

Recorded == {PENDING, SUCCESS, SKIPPED, ERROR}

\* Until the run is set up a skipped node has only been skipped, or reset.
SkippedOrReset ==
  pc = "check" => \A n \in skipped : status[n] \in {SKIPPED, PENDING}

\* The nodes to restart from are not taken over from an earlier run.
EntryPending ==
  pc \in {"check", "clean"} => \A n \in view.entry \ skipped : status[n] = PENDING

(***************************************************************************)
(* Once a run is set up everything below a pending node is pending too, or *)
(* was skipped by its setup().  DownstreamPending alone is not inductive:  *)
(* a skipped node that a reset has made pending must not be started before *)
(* what is above it.                                                       *)
(***************************************************************************)
PendingIsClosed ==
  Configured =>
    \A n \in view.runtime : status[n] = PENDING =>
      \A m \in view.after[n] : status[m] = PENDING \/ (m \in skipped /\ status[m] = SKIPPED)

IInv == TypeOK /\ SkippedOrReset /\ EntryPending /\ PendingIsClosed

-----------------------------------------------------------------------------
(* What the assumptions on views say of one view of the flow. *)
LEMMA ViewFacts ==
  ASSUME view \in Views
  PROVE  /\ view.runtime \subseteq Node /\ view.entry \subseteq view.runtime
         /\ view.after \in [Node -> SUBSET Node]
         /\ \A n \in view.runtime : n \in view.after[n] /\ view.after[n] \subseteq view.runtime
         /\ \A n \in view.runtime : \A m \in view.after[n] : view.after[m] \subseteq view.after[n]
         /\ \A n \in view.runtime : \A T \in SUBSET (view.after[n] \ {n}) :
              T # {} => \E m \in T : \E i \in In[m] : i \in view.after[n] \ T
BY Assumptions DEF ViewType

(* The walk to the inputs of a node starts at the node and goes on through *)
(* every skipped input it meets.                                           *)
LEMMA ThroughIsClosed ==
  ASSUME NEW st, NEW n \in Node
  PROVE  /\ n \in Through(st, n) /\ Through(st, n) \subseteq Node
         /\ \A m \in Through(st, n) : \A i \in In[m] : st[i] = SKIPPED => i \in Through(st, n)
<1>1. n \in Through(st, n) /\ Through(st, n) \subseteq Node
  BY DEF Through
<1>2. ASSUME NEW m \in Through(st, n), NEW i \in In[m], st[i] = SKIPPED
      PROVE  i \in Through(st, n)
  <2>1. m \in Node /\ i \in Node
    <3>1. m \in Node
      BY DEF Through
    <3>2. QED
      BY <3>1, Assumptions
  <2>2. ASSUME NEW S \in SUBSET Node, n \in S,
               \A s \in S : \A j \in In[s] : st[j] = SKIPPED => j \in S
        PROVE  i \in S
    <3>1. m \in S
      BY <2>2 DEF Through
    <3>2. QED
      BY <2>2, <3>1, <1>2
  <2>3. QED
    BY <2>1, <2>2 DEF Through
<1>3. QED
  BY <1>1, <1>2

(* A node that can start has no pending node above it.                     *)
LEMMA StartableIsBelowNoPending ==
  ASSUME TypeOK, PendingIsClosed, Configured,
         NEW m \in Node, Startable(m),
         NEW n \in view.runtime, n # m, status[n] = PENDING
  PROVE  m \notin view.after[n]
<1> DEFINE T == (view.after[n] \ {n}) \cap Through(status, m)
<1> SUFFICES ASSUME m \in view.after[n] PROVE FALSE
  OBVIOUS
<1>1. m \in T
  BY ThroughIsClosed
<1>2. PICK x \in T : \E i \in In[x] : i \in view.after[n] \ T
  <2>1. T \in SUBSET (view.after[n] \ {n}) /\ T # {}
    BY <1>1
  <2> HIDE DEF T
  <2>2. QED
    BY <2>1, ViewFacts DEF TypeOK
<1>3. PICK i \in In[x] : i \in view.after[n] \ T
  BY <1>2
<1>4. CASE status[i] = SKIPPED
  <2>1. i \in Through(status, m)
    BY <1>4, ThroughIsClosed
  <2>2. i # n
    BY <1>4 DEF PENDING, SKIPPED
  <2>3. QED
    BY <2>1, <2>2, <1>3
<1>5. CASE status[i] # SKIPPED
  <2>1. status[i] = PENDING
    BY <1>3, <1>5 DEF PendingIsClosed
  <2>2. i \in Inputs(status, m)
    BY <1>5, ThroughIsClosed DEF Inputs
  <2>3. QED
    BY <2>1, <2>2 DEF Startable, IsSuccess, Succeeded, PENDING, SUCCESS, SKIPPED
<1>6. QED
  BY <1>4, <1>5

(* What __mark_pending() does to the statuses.                             *)
LEMMA MarkPendingFacts ==
  ASSUME TypeOK, NEW S
  PROVE  /\ MarkPending(S) \in [Node -> Recorded]
         /\ \A n \in Node : MarkPending(S)[n] \in {status[n], PENDING}
         /\ \A n \in S \cap view.runtime : MarkPending(S)[n] = PENDING
         /\ \A n \in S \cap view.runtime : \A m \in view.after[n] \ skipped :
              MarkPending(S)[m] = PENDING
         /\ \A n \in Node : MarkPending(S)[n] = status[n]
                           \/ \E k \in S \cap view.runtime : n \in Downstream(k)
<1>1. PENDING \in Recorded
  BY DEF Recorded
<1> DEFINE marked == UNION {Downstream(n) : n \in S \cap view.runtime}
<1>2. MarkPending(S) = [n \in Node |-> IF n \in marked THEN PENDING ELSE status[n]]
  BY DEF MarkPending
<1>3. \A n \in S \cap view.runtime : n \in marked /\ view.after[n] \ skipped \subseteq marked
  BY DEF Downstream
<1>4. \A n \in S \cap view.runtime : n \in Node /\ view.after[n] \subseteq Node
  BY ViewFacts DEF TypeOK
<1>5. \A n \in marked : \E k \in S \cap view.runtime : n \in Downstream(k)
  OBVIOUS
<1>6. status \in [Node -> Recorded]
  BY DEF TypeOK, Recorded
<1> HIDE DEF marked
<1>7. QED
  BY <1>1, <1>2, <1>3, <1>4, <1>5, <1>6

-----------------------------------------------------------------------------
(* A step keeps the types if it adds no result and keeps statuses in range. *)
LEMMA TypesKept ==
  ASSUME TypeOK,
         setting' \in [Node -> Settings], top' \in Tops, view' \in Views,
         pc' \in {"idle", "check", "clean", "run"}, status' \in [Node -> Recorded],
         skipped' \subseteq Node, loaded' \subseteq Node, todo' \subseteq Node,
         DOMAIN disk' = Node, \A n \in Node : disk'[n] = disk[n] \/ disk'[n] = NoResult
  PROVE  TypeOK'
<1>1. \A n \in Node : ResultOK(n)'
  BY DEF TypeOK, ResultOK
<1> QED
  BY <1>1 DEF TypeOK, Recorded

(* Before the first run nothing is claimed of the record. *)
LEMMA InitInvariant == Init => IInv
<1> SUFFICES ASSUME Init PROVE IInv
  OBVIOUS
<1>1. \A n \in Node : ResultOK(n)
  BY DEF Init, ResultOK
<1>2. TypeOK
  BY <1>1, Assumptions DEF Init, TypeOK
<1>3. QED
  BY <1>2 DEF Init, IInv, SkippedOrReset, EntryPending, PendingIsClosed, Configured

(* A run begins: nothing is restored for the nodes to restart from.        *)
LEMMA BeginKeepsInvariant ==
  ASSUME IInv, NEW v \in Views, NEW clean \in BOOLEAN, Begin(v, clean)
  PROVE  IInv'
<1> DEFINE kept == IF clean /\ v.entry = {} THEN [n \in Node |-> NoResult] ELSE disk
           skip == {n \in Node : setting[n] \in SetupSkips}
           read == {n \in ToLoad(v, clean) : kept[n] # NoResult} \ skip
<1>1. /\ pc' = "check" /\ disk' = kept /\ view' = v /\ skipped' = skip
      /\ status' = [n \in Node |-> IF n \in skip THEN SKIPPED
                                   ELSE IF n \in read THEN kept[n].status ELSE PENDING]
  BY DEF Begin
<1>2. /\ DOMAIN kept = Node
      /\ \A n \in Node : ResultOK(n) /\ (kept[n] = disk[n] \/ kept[n] = NoResult)
  BY DEF IInv, TypeOK
<1>3. v.entry \subseteq Node /\ v.load \subseteq Node /\ v.entry \cap read = {}
  BY Assumptions DEF ViewType, ToLoad
<1>4. skip \subseteq Node
  OBVIOUS
<1>5. loaded' = read /\ todo' = Node /\ UNCHANGED user
  BY DEF Begin
<1> HIDE DEF kept, skip
<1>6. TypeOK'
  <2>1. \A n \in read : n \in Node /\ kept[n].status \in Recorded
    <3>1. \A n \in read : n \in Node /\ kept[n] # NoResult
      BY <1>3 DEF ToLoad
    <3>2. QED
      BY <1>2, <3>1 DEF ResultOK, Recorded
  <2>2. {SKIPPED, PENDING} \subseteq Recorded
    BY DEF Recorded
  <2> HIDE DEF read
  <2>3. status' \in [Node -> Recorded]
    BY <1>1, <2>1, <2>2
  <2>4. DOMAIN disk' = Node /\ \A n \in Node : disk'[n] = disk[n] \/ disk'[n] = NoResult
    BY <1>1, <1>2
  <2>5. QED
    BY <1>1, <1>4, <1>5, <2>1, <2>3, <2>4, TypesKept DEF IInv, TypeOK, user
<1> HIDE DEF read
<1>7. SkippedOrReset'
  BY <1>1, <1>4 DEF SkippedOrReset
<1>8. EntryPending'
  BY <1>1, <1>3 DEF EntryPending
<1>9. PendingIsClosed'
  BY <1>1 DEF PendingIsClosed, Configured
<1>10. QED
  BY <1>6, <1>7, <1>8, <1>9 DEF IInv

(* The steps of the check only ever turn statuses to pending.              *)
LEMMA CheckKeepsInvariant ==
  ASSUME IInv, pc = "check", pc' = "check", UNCHANGED <<view, skipped>>,
         UNCHANGED <<user, loaded>>, todo' \subseteq Node,
         status' = status \/ \E S : status' = MarkPending(S),
         disk' = disk \/ disk' = [n \in Node |-> NoResult]
  PROVE  IInv'
<1>1. status' \in [Node -> Recorded] /\ \A n \in Node : status'[n] \in {status[n], PENDING}
  BY MarkPendingFacts DEF IInv, TypeOK, Recorded
<1>2. TypeOK'
  BY <1>1, TypesKept DEF IInv, TypeOK, user
<1>3. SkippedOrReset'
  BY <1>1 DEF IInv, TypeOK, SkippedOrReset
<1>4. EntryPending'
  BY <1>1, ViewFacts DEF IInv, TypeOK, EntryPending
<1>5. PendingIsClosed'
  BY DEF PendingIsClosed, Configured
<1>6. QED
  BY <1>2, <1>3, <1>4, <1>5 DEF IInv

(* The end of the check closes the pending nodes of the run downstream.    *)
LEMMA EnsureKeepsInvariant ==
  ASSUME IInv, Ensure
  PROVE  IInv'
<1>1. /\ pc = "check" /\ pc' = "clean" /\ UNCHANGED <<user, disk, view, skipped, loaded>>
      /\ todo' = {}
      /\ status' = MarkPending(Unfinished)
  BY DEF Ensure, run
<1>2. /\ status' \in [Node -> Recorded]
      /\ \A n \in Node : status'[n] \in {status[n], PENDING}
      /\ \A n \in Unfinished : \A m \in view.after[n] \ skipped : status'[m] = PENDING
      /\ \A n \in Node : status'[n] = status[n] \/ \E k \in Unfinished : n \in Downstream(k)
  BY <1>1, MarkPendingFacts DEF IInv, Unfinished
<1>3. TypeOK'
  BY <1>1, <1>2, TypesKept DEF IInv, TypeOK, user
<1>4. SkippedOrReset'
  BY <1>1 DEF SkippedOrReset
<1>5. EntryPending'
  BY <1>1, <1>2, ViewFacts DEF IInv, TypeOK, EntryPending
<1>6. PendingIsClosed'
  <2> SUFFICES ASSUME NEW n \in view.runtime, status'[n] = PENDING, NEW m \in view.after[n]
               PROVE  status'[m] = PENDING \/ (m \in skipped /\ status'[m] = SKIPPED)
    BY <1>1 DEF PendingIsClosed
  <2>1. n \in Node /\ m \in Node
    BY ViewFacts DEF IInv, TypeOK
  <2>2. CASE m \in skipped
    BY <1>1, <1>2, <2>1, <2>2 DEF IInv, SkippedOrReset
  <2>3. CASE m \notin skipped
    <3>1. PICK k \in Unfinished : n \in view.after[k]
      <4>1. CASE status[n] = PENDING
        <5>1. n \in Unfinished
          BY <4>1 DEF Unfinished, IsWaiting
        <5>2. QED
          BY <5>1, ViewFacts DEF IInv, TypeOK
      <4>2. CASE status[n] # PENDING
        <5>1. PICK k \in Unfinished : n \in Downstream(k)
          BY <1>2, <2>1, <4>2
        <5>2. QED
          BY <5>1, ViewFacts DEF IInv, TypeOK, Downstream, Unfinished
      <4>3. QED
        BY <4>1, <4>2
    <3>2. m \in view.after[k]
      BY <3>1, ViewFacts DEF IInv, TypeOK, Unfinished
    <3>3. QED
      BY <1>2, <3>1, <3>2, <2>3
  <2>4. QED
    BY <2>2, <2>3
<1>7. QED
  BY <1>3, <1>4, <1>5, <1>6 DEF IInv

(* A node runs: no node above it is pending, so none stays below a         *)
(* pending one.                                                            *)
LEMMA RunNodeKeepsInvariant ==
  ASSUME IInv, NEW m \in Node, RunNode(m)
  PROVE  IInv'
<1>1. PICK st \in {SUCCESS, SKIPPED, ERROR} :
        /\ status' = [status EXCEPT ![m] = st]
        /\ disk' = [disk EXCEPT ![m] = Result(m, st)]
  BY DEF RunNode
<1>2. pc = "run" /\ Startable(m) /\ UNCHANGED <<user, pc, view, skipped, loaded, todo>>
  BY DEF RunNode, run
<1>3. st \in Recorded /\ st # PENDING
  BY DEF Recorded, PENDING, SUCCESS, SKIPPED, ERROR
<1>4. Result(m, st).status = st
  BY DEF Result, ResultOf
<1>5. TypeOK'
  <2>1. status' \in [Node -> {PENDING, SUCCESS, SKIPPED, ERROR}]
    BY <1>1 DEF IInv, TypeOK
  <2>2. DOMAIN disk' = Node /\ \A n \in Node : ResultOK(n)'
    <3>1. Inputs(status, m) \subseteq Node
      BY ThroughIsClosed, Assumptions DEF Inputs
    <3>2. DOMAIN Result(m, st) = {"status", "setting", "top", "inputs", "made"}
      BY DEF Result, ResultOf
    <3>3. /\ Result(m, st).setting \in Settings /\ Result(m, st).top \in Tops
          /\ Result(m, st).inputs \subseteq Node
      BY <3>1 DEF Result, ResultOf, IInv, TypeOK
    <3>4. \A n \in Node : disk'[n] = IF n = m THEN Result(m, st) ELSE disk[n]
      BY <1>1 DEF IInv, TypeOK
    <3>5. QED
      BY <1>1, <1>4, <3>2, <3>3, <3>4 DEF IInv, TypeOK, ResultOK
  <2>3. QED
    BY <1>2, <2>1, <2>2 DEF IInv, TypeOK, user
<1>6. PendingIsClosed'
  <2> SUFFICES ASSUME NEW n \in view.runtime, status'[n] = PENDING, NEW k \in view.after[n]
               PROVE  status'[k] = PENDING \/ (k \in skipped /\ status'[k] = SKIPPED)
    BY <1>2 DEF PendingIsClosed
  <2>1. n \in Node /\ k \in Node
    BY ViewFacts DEF IInv, TypeOK
  <2>2. n # m /\ status[n] = PENDING
    BY <1>1, <1>3, <2>1 DEF IInv, TypeOK
  <2>3. k # m
    BY <1>2, <2>2, StartableIsBelowNoPending DEF IInv, Configured
  <2>4. QED
    BY <1>1, <1>2, <2>1, <2>2, <2>3 DEF IInv, TypeOK, PendingIsClosed, Configured
<1>7. QED
  BY <1>2, <1>5, <1>6 DEF IInv, SkippedOrReset, EntryPending

-----------------------------------------------------------------------------
(* Each action of a run, or of the user between runs, keeps the invariant. *)
LEMMA NextKeepsInvariant == IInv /\ [Next]_vars => IInv'
<1> SUFFICES ASSUME IInv, [Next]_vars PROVE IInv'
  OBVIOUS
<1>0. status \in [Node -> Recorded] /\ PENDING \in Recorded
  BY DEF IInv, TypeOK, Recorded
<1>1. ASSUME pc' = "idle", TypeOK' PROVE IInv'
  BY <1>1 DEF IInv, SkippedOrReset, EntryPending, PendingIsClosed, Configured
<1>2. CASE UNCHANGED vars
  <2>1. TypeOK'
    BY <1>0, <1>2, TypesKept DEF IInv, TypeOK, vars
  <2> QED
    BY <2>1, <1>2 DEF IInv, vars, SkippedOrReset, EntryPending, PendingIsClosed, Configured
<1>3. ASSUME NEW n \in Node, Edit(n) PROVE IInv'
  <2>1. setting' \in [Node -> Settings]
    BY <1>3 DEF Edit, IInv, TypeOK
  <2>2. TypeOK'
    BY <1>0, <1>3, <2>1, TypesKept DEF Edit, IInv, TypeOK
  <2> QED
    BY <1>1, <1>3, <2>2 DEF Edit
<1>4. ASSUME NEW n \in Node, Reuse(n) PROVE IInv'
  BY <1>4, CheckKeepsInvariant DEF Reuse, run, IInv, TypeOK
<1>5. ASSUME NEW n \in Node, Rerun(n) PROVE IInv'
  BY <1>5, CheckKeepsInvariant DEF Rerun, run, IInv, TypeOK
<1>6. ASSUME NEW n \in Node, FlowReset(n) PROVE IInv'
  BY <1>6, CheckKeepsInvariant DEF FlowReset, run
<1>7. ASSUME NEW n \in Node, Clean(n) PROVE IInv'
  <2>1. TypeOK'
    BY <1>0, <1>7, TypesKept DEF Clean, IInv, TypeOK, user, run
  <2> QED
    BY <2>1, <1>7 DEF Clean, run, IInv, SkippedOrReset, EntryPending, PendingIsClosed, Configured
<1>8. ASSUME NEW n \in Node, RunNode(n) PROVE IInv'
  BY <1>8, RunNodeKeepsInvariant
<1>9. CASE EditTop
  <2>1. TypeOK'
    BY <1>0, <1>9, TypesKept DEF EditTop, IInv, TypeOK
  <2> QED
    BY <1>1, <1>9, <2>1 DEF EditTop
<1>10. ASSUME NEW v \in Views, NEW clean \in BOOLEAN, Begin(v, clean) PROVE IInv'
  BY <1>10, BeginKeepsInvariant
<1>11. CASE Ensure
  BY <1>11, EnsureKeepsInvariant
<1>12. CASE Execute
  <2>1. TypeOK'
    BY <1>0, <1>12, TypesKept DEF Execute, IInv, TypeOK, user, run
  <2> QED
    BY <2>1, <1>12 DEF Execute, run, IInv, SkippedOrReset, EntryPending, PendingIsClosed, Configured
<1>13. CASE Stop
  <2>1. TypeOK'
    BY <1>0, <1>13, TypesKept DEF Stop, IInv, TypeOK, user
  <2> QED
    BY <1>1, <1>13, <2>1 DEF Stop
<1>14. QED
  BY <1>2, <1>3, <1>4, <1>5, <1>6, <1>7, <1>8, <1>9, <1>10, <1>11, <1>12, <1>13 DEF Next

(* In every run, at any point: the types, what the check may do to skipped *)
(* nodes and to the nodes to restart from, and the closure of the pending  *)
(* nodes downstream.                                                       *)
THEOREM Invariant == Spec => []IInv
<1>1. QED
  BY InitInvariant, NextKeepsInvariant, PTL DEF Spec

(* Every variable keeps its type: a directory only ever holds a final      *)
(* status, and a run's record only the statuses of its nodes.              *)
THEOREM TypeCorrect == Spec => []TypeOK
<1>1. IInv => TypeOK
  BY DEF IInv
<1>2. QED
  BY <1>1, Invariant, PTL

(* configure_nodes() and the run that follows: below a node that has yet   *)
(* to run nothing counts as done.                                          *)
THEOREM PendingReachesDownstream == Spec => []DownstreamPending
<1>1. IInv => DownstreamPending
  BY DEF IInv, PendingIsClosed, DownstreamPending
<1>2. QED
  BY <1>1, Invariant, PTL

(* option.from: the steps to restart from and everything below them run.   *)
THEOREM RestartReruns == Spec => []FromIsRerun
<1>1. IInv => FromIsRerun
  <2> SUFFICES ASSUME IInv, pc = "clean",
                      NEW n \in view.entry \ skipped, NEW m \in view.after[n] \ skipped
               PROVE  status[m] = PENDING
    BY DEF FromIsRerun
  <2>1. status[n] = PENDING /\ n \in view.runtime
    BY ViewFacts DEF IInv, TypeOK, EntryPending
  <2>2. QED
    BY <2>1 DEF IInv, PendingIsClosed, Configured
<1>2. QED
  BY <1>1, Invariant, PTL

-----------------------------------------------------------------------------
(***************************************************************************)
(* The results a run of the whole flow uses again are up to date, for      *)
(* every sequence of whole runs, restarts from a step, changes and crashes.*)
(***************************************************************************)
(***************************************************************************)
(* Two things it takes.  A run goes on to the end of the flow: with the    *)
(* option to, results become older than their inputs.  The user does not   *)
(* switch nodes off and on between runs: neither the setup() nor the       *)
(* pre_process() of a node changes its mind on whether it is skipped.      *)
(***************************************************************************)
RunsReachDown == ReachDown(Views)

SkipsAreFixed == SetupSkips \cup RunSkips \subseteq Fixed

-----------------------------------------------------------------------------
SetupSkipped == {n \in Node : setting[n] \in SetupSkips}

\* No node that setup() skips has a result; one gets it from a flow reset.
NoneRevived == SetupSkipped \cap HasResult = {}

\* The result is that of the current setting of the node and the top module.
Current(n) == disk[n].setting = setting[n] /\ disk[n].top = top

(***************************************************************************)
(* What the directories hold, during runs and between them: a success was  *)
(* made from the results that its inputs still have.                       *)
(***************************************************************************)
MadeFromInputs(n) ==
  /\ disk[n].inputs = Inputs(Skips, n)
  /\ disk[n].made = [setting |-> disk[n].setting, top |-> disk[n].top,
                     from    |-> [i \in Inputs(Skips, n) |-> disk[n].made.from[i]]]
  /\ \A i \in Inputs(Skips, n) \cap HasResult :
       disk[i].status = SUCCESS /\ disk[n].made.from[i] = disk[i].made

DiskInv ==
  /\ \A n \in HasResult :
       /\ disk[n].status = SKIPPED => setting[n] \in RunSkips
       /\ disk[n].status = SUCCESS => setting[n] \notin RunSkips
  /\ NoneRevived =>
       \A n \in HasResult : disk[n].status = SUCCESS => MadeFromInputs(n)

\* What a run's record says of the directories.
RecordInv ==
  pc # "idle" =>
    /\ skipped = SetupSkipped
    /\ \A n \in skipped : status[n] \in {SKIPPED, PENDING} \/ n \in HasResult
    /\ \A n \in Node \ skipped :
         /\ n \in HasResult => status[n] \in {PENDING, disk[n].status}
         /\ status[n] = SKIPPED => setting[n] \in RunSkips
         /\ status[n] = SUCCESS => setting[n] \notin RunSkips

\* Nodes that are going to run have been cleaned, unless a reset has cleaned all.
CleanInv ==
  /\ pc \in {"check", "clean"} => \A n \in skipped \cap HasResult : status[n] # PENDING
  /\ pc = "run" => \A n \in view.runtime : status[n] = PENDING => n \notin HasResult

\* What a run of the whole flow uses again was compared, and so were its inputs.
WholeInv ==
  view.runtime = Node =>
    /\ pc # "idle" => \A n \in Node : status[n] = SUCCESS => n \in HasResult
    /\ pc = "check" => \A n \in Node \ todo : status[n] = SUCCESS => Current(n)
    /\ Configured /\ NoneRevived =>
         \A n \in Node : status[n] = SUCCESS =>
           Current(n) /\ \A i \in Inputs(Skips, n) : status[i] = SUCCESS

ReuseInv == DiskInv /\ RecordInv /\ CleanInv /\ WholeInv

-----------------------------------------------------------------------------
(* A set of nodes that is not empty has a smallest one. *)
LEMMA SmallestNode ==
  ASSUME NEW S \in SUBSET Node, S # {}
  PROVE  \E n \in S : \A m \in S : n <= m
<1> DEFINE R == OpToRel(<, Nat)
<1>1. S \subseteq Nat
  BY Assumptions DEF Node
<1>2. \E n \in S : \A m \in S : ~ (<<m, n>> \in R)
  BY <1>1, NatLessThanWellFounded, WFMin
<1>3. \A n, m \in S : m < n => <<m, n>> \in R
  BY <1>1 DEF OpToRel
<1> HIDE DEF R
<1>4. PICK n \in S : \A m \in S : ~ (<<m, n>> \in R)
  BY <1>2
<1>5. \A m \in S : n \in Nat /\ m \in Nat /\ ~ (m < n)
  BY <1>1, <1>3, <1>4
<1> QED
  BY <1>5

(* The inputs of a node are smaller than it. *)
LEMMA InputsSmaller ==
  ASSUME NEW st, NEW n \in Node
  PROVE  Inputs(st, n) \subseteq Node /\ \A i \in Inputs(st, n) : i < n
<1> DEFINE S == 1 .. n
<1>1. S \in SUBSET Node /\ n \in S
  BY Assumptions DEF Node
<1>2. \A s \in S : \A i \in In[s] : i \in S /\ i < n
  BY <1>1, Assumptions DEF Node
<1> HIDE DEF S
<1>3. Through(st, n) \subseteq S
  BY <1>1, <1>2 DEF Through
<1> QED
  BY <1>1, <1>2, <1>3 DEF Inputs

(* Walks that agree on what is skipped among the inputs they meet are one. *)
LEMMA ThroughAgrees ==
  ASSUME NEW st, NEW tt, NEW n \in Node,
         \A m \in Through(st, n) : \A i \in In[m] : st[i] = SKIPPED <=> tt[i] = SKIPPED
  PROVE  Through(tt, n) = Through(st, n) /\ Inputs(tt, n) = Inputs(st, n)
<1>1. Through(tt, n) \subseteq Through(st, n)
  <2>1. /\ Through(st, n) \in SUBSET Node /\ n \in Through(st, n)
        /\ \A s \in Through(st, n) : \A i \in In[s] : tt[i] = SKIPPED => i \in Through(st, n)
    BY ThroughIsClosed
  <2> QED
    BY <2>1 DEF Through
<1>2. Through(st, n) \subseteq Through(tt, n)
  <2>1. /\ Through(tt, n) \in SUBSET Node /\ n \in Through(tt, n)
        /\ \A s \in Through(tt, n) : \A i \in In[s] : st[i] = SKIPPED => i \in Through(tt, n)
    BY <1>1, ThroughIsClosed
  <2> QED
    BY <2>1 DEF Through
<1> QED
  BY <1>1, <1>2 DEF Inputs

(* A node with the input i, however many skipped ones are between, is below i. *)
LEMMA InputIsAbove ==
  ASSUME RunsReachDown, view \in Views, NEW st, NEW n \in Node,
         NEW i \in Inputs(st, n), i \in view.runtime
  PROVE  n \in view.after[i]
<1> SUFFICES ASSUME n \notin view.after[i] PROVE FALSE
  OBVIOUS
<1> DEFINE S == Node \ view.after[i]
<1>1. \A s \in S : \A j \in In[s] : j \in S
  BY Assumptions DEF RunsReachDown, ReachDown
<1>2. S \in SUBSET Node /\ n \in S
  OBVIOUS
<1> HIDE DEF S
<1>3. Through(st, n) \subseteq S
  BY <1>1, <1>2 DEF Through
<1>4. i \in S
  BY <1>1, <1>3 DEF Inputs
<1> QED
  BY <1>4, ViewFacts DEF S

(* Inputs in a run from scratch are nodes that are not skipped there. *)
LEMMA InputsOfSkips ==
  ASSUME NEW n \in Node, NEW i \in Inputs(Skips, n)
  PROVE  i \in Node /\ setting[i] \notin SetupSkips \cup RunSkips
BY InputsSmaller DEF Inputs, Skips

-----------------------------------------------------------------------------
(* Nobody changes which nodes are skipped. *)
LEMMA SkipsStay ==
  ASSUME SkipsAreFixed, IInv, [Next]_vars
  PROVE  /\ Skips' = Skips /\ SetupSkipped' = SetupSkipped
         /\ \A n \in Node : setting'[n] \in RunSkips <=> setting[n] \in RunSkips
<1>1. \A n \in Node : /\ setting'[n] \in RunSkips <=> setting[n] \in RunSkips
                      /\ setting'[n] \in SetupSkips <=> setting[n] \in SetupSkips
  <2>1. CASE setting' = setting
    BY <2>1
  <2>2. ASSUME NEW k \in Node, Edit(k)
        PROVE  \A n \in Node : /\ setting'[n] \in RunSkips <=> setting[n] \in RunSkips
                               /\ setting'[n] \in SetupSkips <=> setting[n] \in SetupSkips
    BY <2>2 DEF Edit, SkipsAreFixed, IInv, TypeOK
  <2> QED
    BY <2>1, <2>2 DEF Next, vars, EditTop, Begin, Reuse, Rerun, FlowReset, Ensure, Clean, Execute,
       RunNode, Stop, user
<1> QED
  BY <1>1 DEF Skips, SetupSkipped

(* Results that go away, singly or all at once, leave the others as good. *)
LEMMA FewerResults ==
  ASSUME SkipsAreFixed, IInv, [Next]_vars, DiskInv,
         \A n \in Node : disk'[n] = disk[n] \/ disk'[n] = NoResult,
         NoneRevived' => NoneRevived \/ HasResult' = {}
  PROVE  DiskInv'
<1>1. HasResult' \subseteq HasResult /\ \A n \in HasResult' : n \in Node /\ disk'[n] = disk[n]
  BY DEF HasResult
<1>2. \A n \in HasResult' :
        /\ disk'[n].status = SKIPPED => setting'[n] \in RunSkips
        /\ disk'[n].status = SUCCESS => setting'[n] \notin RunSkips
  BY <1>1, SkipsStay DEF DiskInv
<1>3. ASSUME NoneRevived', NEW n \in HasResult', disk'[n].status = SUCCESS
      PROVE  MadeFromInputs(n)'
  <2>1. MadeFromInputs(n)
    BY <1>1, <1>3 DEF DiskInv
  <2> QED
    BY <1>1, <2>1, SkipsStay DEF MadeFromInputs
<1> QED
  BY <1>2, <1>3 DEF DiskInv

(* Between runs nothing is said of the record. *)
LEMMA IdleReuse ==
  ASSUME pc' = "idle", DiskInv'
  PROVE  ReuseInv'
BY DEF ReuseInv, RecordInv, CleanInv, WholeInv, Configured

(* A run that begins takes over results, and compares none yet. *)
LEMMA BeginReuse ==
  ASSUME SkipsAreFixed, IInv, IInv', ReuseInv, [Next]_vars,
         NEW v \in Views, NEW clean \in BOOLEAN, Begin(v, clean)
  PROVE  ReuseInv'
<1> DEFINE kept == IF clean /\ v.entry = {} THEN [n \in Node |-> NoResult] ELSE disk
           read == {n \in ToLoad(v, clean) : kept[n] # NoResult} \ SetupSkipped
<1>1. /\ pc' = "check" /\ disk' = kept /\ view' = v /\ skipped' = SetupSkipped /\ todo' = Node
      /\ status' = [n \in Node |-> IF n \in SetupSkipped THEN SKIPPED
                                   ELSE IF n \in read THEN kept[n].status ELSE PENDING]
      /\ UNCHANGED user
  BY DEF Begin, SetupSkipped
<1>2. disk' = [n \in Node |-> NoResult] \/ disk' = disk
  BY <1>1
<1>3. read \subseteq HasResult'
  BY <1>1, Assumptions DEF HasResult, ToLoad, ViewType
<1> HIDE DEF kept, read
<1>4. DiskInv'
  BY <1>2, FewerResults, SkipsStay DEF HasResult, NoneRevived, ReuseInv
<1>5. \A n \in HasResult' : status'[n] \in {SKIPPED, PENDING, disk'[n].status}
  BY <1>1 DEF HasResult
<1>6. RecordInv'
  <2>1. \A n \in SetupSkipped : status'[n] = SKIPPED
    BY <1>1 DEF SetupSkipped
  <2>2. \A n \in Node \ SetupSkipped : status'[n] = PENDING \/ (n \in read /\ status'[n] = disk'[n].status)
    BY <1>1
  <2>3. SetupSkipped' = SetupSkipped
    BY SkipsStay
  <2> QED
    BY <1>1, <1>3, <1>4, <2>1, <2>2, <2>3 DEF RecordInv, DiskInv, PENDING, SUCCESS, SKIPPED
<1>7. CleanInv'
  BY <1>1 DEF CleanInv, SetupSkipped, PENDING, SKIPPED
<1>8. WholeInv'
  BY <1>1, <1>3 DEF WholeInv, Configured, PENDING, SUCCESS, SKIPPED
<1> QED
  BY <1>4, <1>6, <1>7, <1>8 DEF ReuseInv

(* What the steps of a run before it executes have in common: statuses go  *)
(* to pending, and results go away.                                        *)
LEMMA RecordShrinks ==
  ASSUME SkipsAreFixed, IInv, ReuseInv, [Next]_vars, pc # "idle", pc' \in {"check", "clean"},
         UNCHANGED <<user, view, skipped>>,
         DiskInv', HasResult' \subseteq HasResult, \A n \in HasResult' : disk'[n] = disk[n],
         \A n \in Node : status'[n] \in {status[n], PENDING},
         \A n \in skipped : n \in HasResult' \/ status'[n] \in {SKIPPED, PENDING}
  PROVE  RecordInv'
<1>1. SetupSkipped' = SetupSkipped /\ skipped' = skipped /\ skipped = SetupSkipped
      /\ setting' = setting
  BY SkipsStay DEF ReuseInv, RecordInv, user
<1>2. ASSUME NEW n \in Node \ skipped
      PROVE  /\ n \in HasResult' => status'[n] \in {PENDING, disk'[n].status}
             /\ status'[n] = SKIPPED => setting[n] \in RunSkips
             /\ status'[n] = SUCCESS => setting[n] \notin RunSkips
  BY <1>2 DEF ReuseInv, RecordInv, PENDING, SUCCESS, SKIPPED
<1> QED
  BY <1>1, <1>2 DEF RecordInv

(* A result that is used again was compared with what it would be made of. *)
LEMMA ReuseReuse ==
  ASSUME SkipsAreFixed, IInv, IInv', ReuseInv, [Next]_vars, NEW n \in Node, Reuse(n)
  PROVE  ReuseInv'
<1>1. /\ pc = "check" /\ pc' = "check" /\ UNCHANGED <<user, disk, status, view, skipped>>
      /\ todo' = todo \ {n} /\ ~ TopChanged(n) /\ (~ Changed(n) \/ n \notin view.runtime)
  BY DEF Reuse, run
<1>2. DiskInv'
  BY <1>1, FewerResults DEF ReuseInv, HasResult, NoneRevived, SetupSkipped, user
<1>3. HasResult' = HasResult
  BY <1>1 DEF HasResult
<1>4. \A m \in skipped : status[m] \in {SKIPPED, PENDING}
  BY <1>1 DEF IInv, SkippedOrReset
<1>5. RecordInv'
  BY <1>1, <1>2, <1>3, <1>4, RecordShrinks DEF HasResult
<1>6. CleanInv'
  BY <1>1, <1>3 DEF ReuseInv, CleanInv
<1>7. WholeInv'
  BY <1>1, <1>3 DEF ReuseInv, WholeInv, Configured, Current, TopChanged, Changed, user
<1> QED
  BY <1>2, <1>5, <1>6, <1>7 DEF ReuseInv

(* Nodes with a result only go to pending when they are not skipped. *)
LEMMA MarkedReuse ==
  ASSUME SkipsAreFixed, IInv, IInv', ReuseInv, [Next]_vars, pc = "check",
         pc' \in {"check", "clean"}, UNCHANGED <<user, disk, view, skipped>>,
         NEW S, S \cap skipped \cap HasResult = {}, status' = MarkPending(S)
  PROVE  DiskInv' /\ RecordInv' /\ CleanInv' /\ HasResult' = HasResult
<1>1. DiskInv'
  BY FewerResults DEF ReuseInv, HasResult, NoneRevived, SetupSkipped, user
<1>2. HasResult' = HasResult
  BY DEF HasResult
<1>3. /\ \A m \in Node : status'[m] \in {status[m], PENDING}
      /\ \A m \in Node : status'[m] = status[m] \/ \E k \in S \cap view.runtime : m \in Downstream(k)
  BY MarkPendingFacts DEF IInv
<1>4. skipped \subseteq Node /\ \A m \in skipped : status[m] \in {SKIPPED, PENDING}
  BY DEF IInv, SkippedOrReset, TypeOK
<1>5. RecordInv'
  BY <1>1, <1>2, <1>3, <1>4, RecordShrinks DEF HasResult
<1>6. ASSUME NEW m \in skipped \cap HasResult PROVE status'[m] # PENDING
  <2>1. status[m] # PENDING
    BY <1>6 DEF ReuseInv, CleanInv
  <2>2. status'[m] = status[m]
    BY <1>3, <1>4, <1>6 DEF Downstream
  <2> QED
    BY <2>1, <2>2
<1>7. CleanInv'
  BY <1>2, <1>6 DEF CleanInv
<1> QED
  BY <1>1, <1>2, <1>5, <1>7

(* A node that is run again is pending, and so is all below it. *)
LEMMA RerunReuse ==
  ASSUME SkipsAreFixed, IInv, IInv', ReuseInv, [Next]_vars, NEW n \in Node, Rerun(n)
  PROVE  ReuseInv'
<1>1. /\ pc = "check" /\ pc' = "check" /\ UNCHANGED <<user, disk, view, skipped>>
      /\ todo' = todo \ {n} /\ n \in view.runtime /\ status[n] = SUCCESS
      /\ status' = MarkPending({n})
  BY DEF Rerun, run, IsNext, ToCheck
<1>2. n \notin skipped
  BY <1>1 DEF IInv, SkippedOrReset, PENDING, SUCCESS, SKIPPED
<1>3. DiskInv' /\ RecordInv' /\ CleanInv' /\ HasResult' = HasResult
  BY <1>1, <1>2, MarkedReuse
<1>4. /\ \A m \in Node : status'[m] \in {status[m], PENDING}
      /\ status'[n] = PENDING
  BY <1>1, MarkPendingFacts DEF IInv
<1>5. WholeInv'
  BY <1>1, <1>3, <1>4 DEF ReuseInv, WholeInv, Configured, Current, user, PENDING, SUCCESS
<1> QED
  BY <1>3, <1>5 DEF ReuseInv

(* A reset leaves nothing that could be out of date. *)
LEMMA FlowResetReuse ==
  ASSUME SkipsAreFixed, IInv, IInv', ReuseInv, [Next]_vars, NEW n \in Node, FlowReset(n)
  PROVE  ReuseInv'
<1>1. /\ pc = "check" /\ pc' = "check" /\ UNCHANGED <<user, view, skipped>>
      /\ disk' = [m \in Node |-> NoResult] /\ status' = MarkPending(Node) /\ todo' = {}
  BY DEF FlowReset, run
<1>2. HasResult' = {}
  BY <1>1 DEF HasResult
<1>3. DiskInv'
  BY <1>2 DEF DiskInv
<1>4. /\ \A m \in Node : status'[m] \in {status[m], PENDING}
      /\ \A m \in view.runtime : status'[m] = PENDING
  BY <1>1, MarkPendingFacts, ViewFacts DEF IInv, TypeOK
<1>5. skipped \subseteq Node /\ \A m \in skipped : status'[m] \in {SKIPPED, PENDING}
  BY <1>1, <1>4 DEF SkippedOrReset, IInv, TypeOK
<1>6. RecordInv'
  BY <1>1, <1>2, <1>3, <1>4, <1>5, RecordShrinks
<1>7. CleanInv'
  BY <1>1, <1>2 DEF CleanInv
<1>8. WholeInv'
  BY <1>1, <1>4 DEF WholeInv, Configured, PENDING, SUCCESS
<1> QED
  BY <1>3, <1>6, <1>7, <1>8 DEF ReuseInv

(* Nothing that counts as done is below a node that is going to run. *)
LEMMA EnsureReuse ==
  ASSUME SkipsAreFixed, RunsReachDown, IInv, IInv', ReuseInv, [Next]_vars, Ensure
  PROVE  ReuseInv'
<1>1. /\ pc = "check" /\ pc' = "clean" /\ UNCHANGED <<user, disk, view, skipped>>
      /\ ToCheck = {} /\ status' = MarkPending(Unfinished)
  BY DEF Ensure, run
<1>2. Unfinished \cap skipped \cap HasResult = {}
  <2> SUFFICES ASSUME NEW m \in Unfinished, m \in skipped, m \in HasResult PROVE FALSE
    OBVIOUS
  <2>1. status[m] = SKIPPED
    BY <1>1 DEF IInv, SkippedOrReset, ReuseInv, CleanInv
  <2> QED
    BY <2>1 DEF Unfinished, IsWaiting, IsError, Failed, PENDING, SKIPPED, ERROR, TIMEOUT
<1>3. DiskInv' /\ RecordInv' /\ CleanInv' /\ HasResult' = HasResult
  BY <1>1, <1>2, MarkedReuse
<1>4. /\ \A m \in Node : status'[m] \in {status[m], PENDING}
      /\ \A m \in Unfinished : status'[m] = PENDING
  BY <1>1, MarkPendingFacts DEF IInv, Unfinished
<1>5. ASSUME view.runtime = Node, NEW n \in Node, status'[n] = SUCCESS
      PROVE  n \in HasResult /\ Current(n)
  <2>1. status[n] = SUCCESS
    BY <1>4, <1>5 DEF PENDING, SUCCESS
  <2>2. n \notin todo
    BY <1>1, <2>1 DEF ToCheck
  <2> QED
    BY <1>1, <1>5, <2>1, <2>2 DEF ReuseInv, WholeInv
<1>6. ASSUME view.runtime = Node, NoneRevived, NEW n \in Node, status'[n] = SUCCESS,
             NEW i \in Inputs(Skips, n)
      PROVE  status'[i] = SUCCESS
  <2>1. i \in Node /\ n \in view.after[i]
    BY <1>6, InputsSmaller, InputIsAbove DEF IInv, TypeOK
  <2>2. status'[i] # PENDING
    BY <1>1, <1>6, <2>1 DEF IInv, PendingIsClosed, Configured, SUCCESS, PENDING, SKIPPED
  <2>3. status'[i] = status[i] /\ i \notin Unfinished
    BY <1>4, <2>1, <2>2
  <2>4. status[i] \in {SUCCESS, SKIPPED}
    BY <1>6, <2>1, <2>2, <2>3 DEF IInv, TypeOK, Unfinished, IsError, IsWaiting, Failed,
       ERROR, PENDING
  <2>5. i \notin skipped /\ setting[i] \notin RunSkips
    BY <1>1, <1>6, InputsOfSkips DEF ReuseInv, RecordInv, SetupSkipped
  <2> QED
    BY <1>1, <2>1, <2>3, <2>4, <2>5 DEF ReuseInv, RecordInv
<1>7. Skips' = Skips /\ NoneRevived' = NoneRevived
  BY <1>1, <1>3, SkipsStay DEF NoneRevived
<1>8. WholeInv'
  BY <1>1, <1>3, <1>5, <1>6, <1>7 DEF WholeInv, Configured, Current, user
<1> QED
  BY <1>3, <1>8 DEF ReuseInv

(* Only a reset makes a node that setup() skips pending, and it has emptied *)
(* the directory of that node: none of these goes away by itself.           *)
LEMMA CleanReuse ==
  ASSUME SkipsAreFixed, IInv, IInv', ReuseInv, [Next]_vars, NEW n \in Node, Clean(n)
  PROVE  ReuseInv'
<1>1. /\ pc = "clean" /\ pc' = "clean" /\ UNCHANGED <<user, status, view, skipped, todo>>
      /\ n \in HasResult /\ status[n] = PENDING
      /\ disk' = [disk EXCEPT ![n] = NoResult]
  BY DEF Clean, run, ToClean, IsWaiting
<1>2. n \notin skipped /\ skipped = SetupSkipped
  BY <1>1 DEF ReuseInv, CleanInv, RecordInv
<1>3. /\ \A m \in Node : disk'[m] = disk[m] \/ disk'[m] = NoResult
      /\ HasResult' = HasResult \ {n} /\ \A m \in HasResult' : disk'[m] = disk[m]
  BY <1>1 DEF HasResult, IInv, TypeOK
<1>4. NoneRevived' = NoneRevived
  BY <1>1, <1>2, <1>3, SkipsStay DEF NoneRevived
<1>5. DiskInv'
  BY <1>3, <1>4, FewerResults DEF ReuseInv
<1>6. skipped \subseteq Node /\ \A m \in skipped : m \in HasResult' \/ status'[m] \in {SKIPPED, PENDING}
  BY <1>1, <1>2, <1>3 DEF ReuseInv, RecordInv, IInv, TypeOK
<1>7. RecordInv'
  BY <1>1, <1>3, <1>5, <1>6, RecordShrinks
<1>8. CleanInv'
  BY <1>1, <1>3 DEF ReuseInv, CleanInv
<1>9. \A m \in Node : status[m] = SUCCESS /\ m \in HasResult => m \in HasResult' /\ disk'[m] = disk[m]
  BY <1>1, <1>3 DEF PENDING, SUCCESS
<1>10. Skips' = Skips
  BY SkipsStay
<1>11. WholeInv'
  BY <1>1, <1>4, <1>9, <1>10 DEF ReuseInv, WholeInv, Configured, Current, user
<1> QED
  BY <1>5, <1>7, <1>8, <1>11 DEF ReuseInv

(* A node that has run has a result made of its setting and inputs. *)
LEMMA ExecuteReuse ==
  ASSUME SkipsAreFixed, IInv, IInv', ReuseInv, [Next]_vars, Execute
  PROVE  ReuseInv'
<1>1. /\ pc = "clean" /\ pc' = "run" /\ UNCHANGED <<user, disk, status, view, skipped, todo>>
      /\ ToClean = {}
  BY DEF Execute, run
<1>2. HasResult' = HasResult /\ Skips' = Skips /\ SetupSkipped' = SetupSkipped
  BY <1>1, SkipsStay DEF HasResult
<1>3. DiskInv'
  BY <1>1, <1>2, FewerResults DEF ReuseInv, NoneRevived
<1>4. RecordInv'
  BY <1>1, <1>2 DEF ReuseInv, RecordInv, user
<1>5. CleanInv'
  BY <1>1, <1>2 DEF CleanInv, ToClean, IsWaiting
<1>6. WholeInv'
  BY <1>1, <1>2 DEF ReuseInv, WholeInv, Configured, Current, NoneRevived, user
<1> QED
  BY <1>3, <1>4, <1>5, <1>6 DEF ReuseInv

(***************************************************************************)
(* While no node that setup() skips has a result, a node starts on the     *)
(* inputs that it would have in a run from scratch.                        *)
(***************************************************************************)
LEMMA StartsOnInputs ==
  ASSUME IInv, ReuseInv, pc = "run", NoneRevived, NEW n \in Node, Startable(n)
  PROVE  /\ Inputs(status, n) = Inputs(Skips, n)
         /\ \A i \in Inputs(status, n) : status[i] = SUCCESS
<1>1. \A i \in Inputs(status, n) : status[i] = SUCCESS
  BY DEF Startable, Inputs, IsSuccess, Succeeded
<1>2. ASSUME NEW m \in Through(status, n), NEW i \in In[m]
      PROVE  status[i] = SKIPPED <=> Skips[i] = SKIPPED
  <2>1. m \in Node /\ i \in Node
    BY Assumptions, ThroughIsClosed
  <2>2. status[i] = SKIPPED \/ status[i] = SUCCESS
    BY <1>1, <2>1 DEF Inputs
  <2>3. Skips[i] = SKIPPED <=> i \in skipped \/ setting[i] \in RunSkips
    BY <2>1 DEF Skips, ReuseInv, RecordInv, SetupSkipped, SUCCESS, SKIPPED
  <2>4. i \in skipped => status[i] = SKIPPED
    BY <2>2 DEF ReuseInv, RecordInv, NoneRevived, SUCCESS, SKIPPED, PENDING
  <2>5. i \notin skipped => (status[i] = SKIPPED <=> setting[i] \in RunSkips)
    BY <2>1, <2>2 DEF ReuseInv, RecordInv, SUCCESS, SKIPPED
  <2> QED
    BY <2>3, <2>4, <2>5
<1> QED
  BY <1>1, <1>2, ThroughAgrees

(* A result is made from results, and no other was made from its           *)
(* predecessor: whatever is below has been cleaned and is still to run.    *)
LEMMA RunNodeReuse ==
  ASSUME SkipsAreFixed, RunsReachDown, IInv, IInv', ReuseInv, [Next]_vars,
         NEW n \in Node, RunNode(n)
  PROVE  ReuseInv'
<1>1. PICK st \in {SUCCESS, SKIPPED, ERROR} :
        /\ st = SKIPPED => setting[n] \in RunSkips
        /\ st = SUCCESS => setting[n] \notin RunSkips /\ Inputs(status, n) \subseteq HasResult
        /\ status' = [status EXCEPT ![n] = st]
        /\ disk' = [disk EXCEPT ![n] = Result(n, st)]
  BY DEF RunNode, SUCCESS, SKIPPED
<1>2. /\ pc = "run" /\ pc' = "run" /\ UNCHANGED <<user, view, skipped, todo>>
      /\ Startable(n) /\ n \in view.runtime /\ status[n] = PENDING
  BY DEF RunNode, run, Startable, IsWaiting
<1>3. /\ Skips' = Skips /\ SetupSkipped' = SetupSkipped /\ skipped = SetupSkipped
      /\ setting' = setting /\ top' = top /\ n \notin HasResult
  BY <1>2, SkipsStay DEF ReuseInv, RecordInv, CleanInv, user
<1>4. /\ disk'[n] = Result(n, st) /\ status'[n] = st
      /\ \A m \in Node \ {n} : disk'[m] = disk[m] /\ status'[m] = status[m]
  BY <1>1 DEF IInv, TypeOK
<1>5. Result(n, st) # NoResult /\ Result(n, st).status = st
      /\ Result(n, st).setting = setting[n] /\ Result(n, st).top = top
      /\ Result(n, st).inputs = Inputs(status, n)
  <2>1. DOMAIN Result(n, st) # DOMAIN NoResult
    BY DEF Result, ResultOf, NoResult
  <2> QED
    BY <2>1 DEF Result, ResultOf
<1>6. HasResult' = HasResult \cup {n}
  BY <1>4, <1>5 DEF HasResult
<1>7. ASSUME NoneRevived'
      PROVE  /\ NoneRevived /\ n \notin skipped /\ Inputs(status, n) = Inputs(Skips, n)
             /\ \A i \in Inputs(status, n) : status[i] = SUCCESS
  <2>1. NoneRevived /\ n \notin skipped
    BY <1>3, <1>6, <1>7 DEF NoneRevived
  <2> QED
    BY <1>2, <2>1, StartsOnInputs
<1>8. ASSUME NoneRevived', NEW m \in HasResult PROVE n \notin Inputs(Skips, m)
  <2> SUFFICES ASSUME n \in Inputs(Skips, m) PROVE FALSE
    OBVIOUS
  <2>1. m \in Node /\ m \in view.after[n]
    BY <1>2, InputIsAbove DEF HasResult, IInv, TypeOK
  <2>2. m \notin skipped
    BY <1>3, <1>7, <1>8 DEF NoneRevived
  <2>3. status[m] = PENDING /\ m \in view.runtime
    BY <1>2, <2>1, <2>2, ViewFacts DEF IInv, TypeOK, PendingIsClosed, Configured
  <2> QED
    BY <1>2, <1>8, <2>3 DEF ReuseInv, CleanInv
<1>9. ASSUME NoneRevived', st = SUCCESS PROVE MadeFromInputs(n)'
  <2>1. Inputs(Skips, n) \subseteq HasResult /\ Inputs(Skips, n) \subseteq Node /\ n \notin Inputs(Skips, n)
    BY <1>1, <1>3, <1>7, <1>9, InputsOfSkips
  <2>2. Result(n, st).made = [setting |-> setting[n], top |-> top,
                              from    |-> [i \in Inputs(Skips, n) |-> disk[i].made]]
    BY <1>7, <1>9 DEF Result, ResultOf
  <2>3. \A i \in Inputs(Skips, n) : disk[i].status = SUCCESS
    BY <1>2, <1>3, <1>7, <1>9, <2>1, InputsOfSkips DEF ReuseInv, RecordInv, SetupSkipped, SUCCESS, PENDING
  <2>4. \A i \in Inputs(Skips, n) : disk'[i] = disk[i]
    BY <1>4, <2>1
  <2> QED
    BY <1>3, <1>4, <1>5, <1>7, <1>9, <2>2, <2>3, <2>4 DEF MadeFromInputs
<1>10. ASSUME NoneRevived', NEW m \in HasResult, disk[m].status = SUCCESS PROVE MadeFromInputs(m)'
  <2>1. MadeFromInputs(m) /\ n \notin Inputs(Skips, m) /\ m \in Node \ {n}
    BY <1>3, <1>7, <1>8, <1>10 DEF ReuseInv, DiskInv, HasResult
  <2>2. \A i \in Inputs(Skips, m) : disk'[i] = disk[i] /\ (i \in HasResult' => i \in HasResult)
    BY <1>4, <1>6, <2>1, InputsOfSkips
  <2> QED
    BY <1>3, <1>4, <2>1, <2>2 DEF MadeFromInputs
<1>11. DiskInv'
  <2>1. \A m \in HasResult' : m = n \/ (m \in HasResult /\ m # n /\ disk'[m] = disk[m])
    BY <1>3, <1>4, <1>6 DEF HasResult
  <2>2. \A m \in HasResult' : /\ disk'[m].status = SKIPPED => setting'[m] \in RunSkips
                              /\ disk'[m].status = SUCCESS => setting'[m] \notin RunSkips
    BY <1>1, <1>3, <1>4, <1>5, <2>1 DEF ReuseInv, DiskInv
  <2>3. NoneRevived' =>
          \A m \in HasResult' : disk'[m].status = SUCCESS => MadeFromInputs(m)'
    BY <1>4, <1>5, <1>9, <1>10, <2>1
  <2> QED
    BY <2>2, <2>3 DEF DiskInv
<1>12. RecordInv'
  <2>1. \A m \in skipped : status'[m] \in {SKIPPED, PENDING} \/ m \in HasResult'
    BY <1>2, <1>3, <1>4, <1>6 DEF ReuseInv, RecordInv, SetupSkipped
  <2>2. \A m \in Node \ skipped :
          /\ m \in HasResult' => status'[m] \in {PENDING, disk'[m].status}
          /\ status'[m] = SKIPPED => setting[m] \in RunSkips
          /\ status'[m] = SUCCESS => setting[m] \notin RunSkips
    BY <1>1, <1>2, <1>4, <1>5, <1>6 DEF ReuseInv, RecordInv
  <2> QED
    BY <1>2, <1>3, <2>1, <2>2 DEF RecordInv
<1>13. CleanInv'
  BY <1>1, <1>2, <1>4, <1>6, ViewFacts DEF ReuseInv, CleanInv, IInv, TypeOK,
     PENDING, SUCCESS, SKIPPED, ERROR
<1>14. WholeInv'
  <2>1. ASSUME view.runtime = Node, NEW m \in Node, status'[m] = SUCCESS PROVE m \in HasResult'
    BY <1>2, <1>4, <1>6, <2>1 DEF ReuseInv, WholeInv
  <2>2. ASSUME view.runtime = Node, NoneRevived', NEW m \in Node, status'[m] = SUCCESS
        PROVE  Current(m)' /\ \A i \in Inputs(Skips, m) : status'[i] = SUCCESS
    <3>1. CASE m = n
      BY <1>3, <1>4, <1>5, <1>7, <2>2, <3>1, InputsSmaller DEF Current
    <3>2. CASE m # n
      <4>1. Current(m) /\ \A i \in Inputs(Skips, m) : status[i] = SUCCESS
        BY <1>2, <1>4, <1>7, <2>2, <3>2 DEF ReuseInv, WholeInv, Configured
      <4>2. n \notin Inputs(Skips, m)
        BY <1>2, <4>1 DEF PENDING, SUCCESS
      <4> QED
        BY <1>3, <1>4, <3>2, <4>1, <4>2, InputsOfSkips DEF Current
    <3> QED
      BY <3>1, <3>2
  <2> QED
    BY <1>2, <1>3, <2>1, <2>2 DEF WholeInv
<1> QED
  BY <1>11, <1>12, <1>13, <1>14 DEF ReuseInv

(* No step breaks what is known of results. *)
LEMMA NextReuse ==
  ASSUME SkipsAreFixed, RunsReachDown, IInv, IInv', ReuseInv, [Next]_vars
  PROVE  ReuseInv'
<1>1. CASE UNCHANGED vars
  <2>1. Skips' = Skips /\ SetupSkipped' = SetupSkipped /\ HasResult' = HasResult
    BY <1>1 DEF vars, Skips, SetupSkipped, HasResult
  <2> QED
    BY <1>1, <2>1 DEF vars, ReuseInv, DiskInv, RecordInv, CleanInv, WholeInv, Configured, Current,
       NoneRevived, MadeFromInputs
<1>2. ASSUME pc' = "idle", disk' = disk PROVE ReuseInv'
  <2>1. HasResult' = HasResult /\ SetupSkipped' = SetupSkipped
    BY <1>2, SkipsStay DEF HasResult
  <2>2. DiskInv'
    BY <1>2, <2>1, FewerResults DEF ReuseInv, NoneRevived
  <2> QED
    BY <1>2, <2>2, IdleReuse
<1>3. CASE EditTop \/ Stop \/ \E n \in Node : Edit(n)
  BY <1>2, <1>3 DEF EditTop, Stop, Edit
<1>4. ASSUME NEW n \in Node, Reuse(n) \/ Rerun(n) \/ FlowReset(n) \/ Clean(n) \/ RunNode(n)
      PROVE  ReuseInv'
  BY <1>4, ReuseReuse, RerunReuse, FlowResetReuse, CleanReuse, RunNodeReuse
<1>5. ASSUME NEW v \in Views, NEW clean \in BOOLEAN, Begin(v, clean) PROVE ReuseInv'
  BY <1>5, BeginReuse
<1>6. CASE Ensure \/ Execute
  BY <1>6, EnsureReuse, ExecuteReuse
<1> QED
  BY <1>1, <1>3, <1>4, <1>5, <1>6 DEF Next

-----------------------------------------------------------------------------
(* Fresh is what its definition says: inputs are smaller than nodes.       *)
LEMMA FreshUnfolds ==
  Fresh = [n \in Node |-> [setting |-> setting[n], top |-> top,
                           from    |-> [i \in Inputs(Skips, n) |-> Fresh[i]]]]
<1> DEFINE F(g, n) == [setting |-> setting[n], top |-> top,
                       from    |-> [i \in Inputs(Skips, n) |-> g[i]]]
           Up(k)   == {n \in Node : n <= k}
           Good(k) == \E g : g = [n \in Up(k) |-> F(g, n)]
           Bad     == {k \in Node : ~ Good(k)}
<1>1. Bad = {}
  <2> SUFFICES ASSUME Bad # {} PROVE FALSE
    OBVIOUS
  <2>1. PICK k \in Bad : \A m \in Bad : k <= m
    BY SmallestNode
  <2>2. k \in Node /\ k \in Nat
    BY Assumptions DEF Node
  <2>3. Good(k - 1)
    <3>1. CASE k - 1 \in Node
      <4>1. k - 1 \notin Bad
        <5> HIDE DEF Bad
        <5> QED
          BY <2>1, <2>2
      <4> QED
        BY <3>1, <4>1
    <3>2. CASE k - 1 \notin Node
      <4>1. Up(k - 1) = {}
        BY <2>2, <3>2, Assumptions DEF Node
      <4>2. [n \in {} |-> 0] = [n \in Up(k - 1) |-> F([m \in {} |-> 0], n)]
        BY <4>1
      <4> QED
        BY <4>2
    <3> QED
      BY <3>1, <3>2
  <2>4. PICK g : g = [n \in Up(k - 1) |-> F(g, n)]
    BY <2>3
  <2> DEFINE h == [n \in Up(k) |-> IF n = k THEN F(g, k) ELSE g[n]]
  <2>5. ASSUME NEW n \in Up(k) PROVE F(h, n) = F(g, n)
    <3>1. \A i \in Inputs(Skips, n) : i \in Up(k) /\ i # k
      BY <2>2, <2>5, InputsSmaller, Assumptions DEF Node
    <3>2. \A i \in Inputs(Skips, n) : h[i] = g[i]
      BY <3>1
    <3> HIDE DEF h
    <3>3. [i \in Inputs(Skips, n) |-> h[i]] = [i \in Inputs(Skips, n) |-> g[i]]
      BY <3>2
    <3> QED
      BY <3>3
  <2>6. ASSUME NEW n \in Up(k) PROVE h[n] = F(g, n)
    <3>1. n # k => n \in Up(k - 1)
      BY <2>2, <2>6, Assumptions DEF Node
    <3> QED
      BY <2>4, <3>1
  <2>7. h = [n \in Up(k) |-> F(h, n)]
    <3> HIDE DEF F
    <3>1. h = [n \in Up(k) |-> h[n]]
      OBVIOUS
    <3> QED
      BY <2>5, <2>6, <3>1
  <2>8. Good(k)
    BY <2>7
  <2> QED
    BY <2>8
<1>2. \E g : g = [n \in Node |-> F(g, n)]
  <2>1. CASE Node = {}
    <3>1. [n \in {} |-> 0] = [n \in Node |-> F([m \in {} |-> 0], n)]
      BY <2>1
    <3> QED
      BY <3>1
  <2>2. CASE Node # {}
    <3>1. N \in Node /\ Up(N) = Node
      BY <2>2, Assumptions DEF Node
    <3>2. Good(N)
      BY <1>1, <3>1
    <3> QED
      BY <3>1, <3>2
  <2> QED
    BY <2>1, <2>2
<1>3. Fresh = CHOOSE g : g = [n \in Node |-> F(g, n)]
  BY DEF Fresh
<1> QED
  BY <1>2, <1>3

(* A success of a whole run was made from what a run from scratch makes:   *)
(* the least node for which it were not would have an input for which it   *)
(* is not.                                                                 *)
LEMMA ReuseIsFresh ==
  ASSUME IInv, ReuseInv
  PROVE  UpToDate
<1> SUFFICES ASSUME Configured, view.runtime = Node, skipped \cap HasResult = {}
             PROVE  \A n \in Node : status[n] = SUCCESS => n \in HasResult /\ disk[n].made = Fresh[n]
  BY DEF UpToDate
<1>1. pc # "idle" /\ skipped = SetupSkipped /\ NoneRevived
  BY DEF Configured, ReuseInv, RecordInv, NoneRevived
<1>2. \A n \in Node : status[n] = SUCCESS =>
        n \in HasResult /\ Current(n) /\ \A i \in Inputs(Skips, n) : status[i] = SUCCESS
  BY <1>1 DEF ReuseInv, WholeInv
<1>3. \A n \in Node : status[n] = SUCCESS => disk[n].status = SUCCESS
  BY <1>1, <1>2 DEF ReuseInv, RecordInv, SUCCESS, PENDING
<1> DEFINE Bad == {n \in Node : status[n] = SUCCESS /\ disk[n].made # Fresh[n]}
<1>4. Bad = {}
  <2> SUFFICES ASSUME Bad # {} PROVE FALSE
    OBVIOUS
  <2>1. PICK n \in Bad : \A m \in Bad : n <= m
    BY SmallestNode
  <2>2. n \in HasResult /\ Current(n) /\ MadeFromInputs(n)
    BY <1>1, <1>2, <1>3, <2>1 DEF ReuseInv, DiskInv
  <2>3. ASSUME NEW i \in Inputs(Skips, n) PROVE disk[n].made.from[i] = Fresh[i]
    <3>1. i \in Node /\ i < n /\ status[i] = SUCCESS /\ i \in HasResult
      BY <1>2, <2>1, InputsSmaller
    <3>2. i \notin Bad
      BY <2>1, <3>1, Assumptions DEF Node
    <3> QED
      BY <2>2, <3>1, <3>2 DEF MadeFromInputs
  <2>4. Fresh[n] = [setting |-> setting[n], top |-> top,
                    from    |-> [i \in Inputs(Skips, n) |-> Fresh[i]]]
    BY <2>1, FreshUnfolds
  <2>5. disk[n].made = [setting |-> setting[n], top |-> top,
                        from    |-> [i \in Inputs(Skips, n) |-> disk[n].made.from[i]]]
    BY <2>2 DEF MadeFromInputs, Current
  <2> QED
    BY <2>1, <2>3, <2>4, <2>5
<1> QED
  BY <1>2, <1>4

(* configure_nodes() and the runs after it: what a run of the whole flow   *)
(* reuses is what it would have made itself, unless runs were limited by   *)
(* the option to, or nodes were switched off and on.                       *)
THEOREM ReusedIsUpToDate ==
  ASSUME SkipsAreFixed, RunsReachDown
  PROVE  Spec => []UpToDate
<1>1. Init => ReuseInv
  BY DEF Init, ReuseInv, DiskInv, RecordInv, CleanInv, WholeInv, HasResult, Configured
<1>2. IInv /\ IInv' /\ ReuseInv /\ [Next]_vars => ReuseInv'
  BY NextReuse
<1>3. IInv /\ ReuseInv => UpToDate
  BY ReuseIsFresh
<1> QED
  BY <1>1, <1>2, <1>3, Invariant, PTL DEF Spec

-----------------------------------------------------------------------------
\* A run knows the results it could use again.
RunsAreRead == ReadTheirOwn(Views)

\* Why a node was marked, as it stays known until the check is over: only
\* nodes after k are still to be checked, hence may still be marked.
Cause(k) ==
  \/ k \in view.entry \ skipped
  \/ k \notin HasResult \cup skipped
  \/ k \in HasResult \ skipped /\ ~ IsSuccess(disk[k].status)
  \/ k \in HasResult \ skipped /\ Changed(k) /\ \A m \in ToCheck : k < m

CauseInv ==
  pc = "check" /\ HasResult # {} =>
    /\ \A n \in skipped : status[n] = SKIPPED
    /\ \A n \in Node \ skipped : status[n] # PENDING => n \in HasResult /\ disk[n].status = status[n]
    /\ \A n \in view.runtime : status[n] = PENDING =>
         \E k \in view.runtime : n \in view.after[k] /\ Cause(k)

(* Everything below a node is larger. *)
LEMMA AfterIsLarger ==
  ASSUME view \in Views, NEW n \in view.runtime, NEW m \in view.after[n]
  PROVE  n <= m
<1> DEFINE T == {k \in view.after[n] : k < n}
<1>1. n \in Node /\ view.after[n] \subseteq Node
  BY ViewFacts
<1>2. \A k \in Node : k \in Nat
  BY Assumptions DEF Node
<1>3. T = {}
  <2> SUFFICES ASSUME T # {} PROVE FALSE
    OBVIOUS
  <2>1. T \in SUBSET (view.after[n] \ {n})
    BY <1>1, <1>2
  <2>2. PICK x \in T : \E i \in In[x] : i \in view.after[n] \ T
    <3> HIDE DEF T
    <3> QED
      BY <2>1, ViewFacts
  <2>3. \A i \in In[x] : i \in Node /\ i < x
    BY <1>1, Assumptions DEF Node
  <2> QED
    BY <1>1, <1>2, <2>2, <2>3
<1> QED
  BY <1>1, <1>2, <1>3

(* The inputs of a node depend on the smaller nodes only. *)
LEMMA InputsOfAgreeing ==
  ASSUME NEW st, NEW tt, NEW n \in Node, \A i \in Node : i < n => st[i] = tt[i]
  PROVE  Inputs(tt, n) = Inputs(st, n)
<1> DEFINE S == 1 .. n
<1>1. S \in SUBSET Node /\ n \in S
  BY Assumptions DEF Node
<1>2. \A s \in S : \A i \in In[s] : i \in S /\ i < n /\ i \in Node
  BY <1>1, Assumptions DEF Node
<1> HIDE DEF S
<1>3. Through(st, n) \subseteq S
  BY <1>1, <1>2 DEF Through
<1> QED
  BY <1>2, <1>3, ThroughAgrees

(* A run that begins gives no node a cause. *)
LEMMA BeginCause ==
  ASSUME RunsAreRead, IInv, NEW v \in Views, NEW clean \in BOOLEAN, Begin(v, clean)
  PROVE  CauseInv'
<1> DEFINE kept == IF clean /\ v.entry = {} THEN [n \in Node |-> NoResult] ELSE disk
           skip == {n \in Node : setting[n] \in SetupSkips}
           read == {n \in ToLoad(v, clean) : kept[n] # NoResult} \ skip
<1>1. /\ pc' = "check" /\ disk' = kept /\ view' = v /\ skipped' = skip
      /\ status' = [n \in Node |-> IF n \in skip THEN SKIPPED
                                   ELSE IF n \in read THEN kept[n].status ELSE PENDING]
  BY DEF Begin
<1>2. \A n \in HasResult' : kept[n] # NoResult /\ kept[n].status \in {SUCCESS, SKIPPED, ERROR}
  BY <1>1 DEF HasResult, IInv, TypeOK, ResultOK
<1>3. read \subseteq HasResult' /\ v.runtime \subseteq Node /\ skip \subseteq Node
  BY <1>1, Assumptions DEF HasResult, ToLoad, ViewType
<1>4. ASSUME NEW n \in v.runtime, n \notin skip, n \notin read PROVE Cause(n)'
  BY <1>1, <1>3, <1>4 DEF Cause, HasResult, ToLoad, RunsAreRead, ReadTheirOwn
<1>5. \A n \in v.runtime : n \in v.after[n]
  BY Assumptions
<1> HIDE DEF kept, skip, read
<1> QED
  BY <1>1, <1>2, <1>3, <1>4, <1>5 DEF CauseInv, PENDING, SUCCESS, SKIPPED, ERROR

(* A result that is used again has not changed. *)
LEMMA ReuseCause ==
  ASSUME IInv, CauseInv, NEW n \in Node, Reuse(n)
  PROVE  CauseInv'
<1>1. pc = "check" /\ UNCHANGED <<pc, setting, disk, status, view, skipped>> /\ ToCheck' \subseteq ToCheck
  BY DEF Reuse, run, user, ToCheck
<1>2. \A k \in Node : Cause(k) => Cause(k)'
  BY <1>1 DEF Cause, HasResult, Changed, InputsChanged
<1> QED
  BY <1>1, <1>2, ViewFacts DEF CauseInv, HasResult, IInv, TypeOK

(* The node is the next to be checked: what it marks is not before it, and *)
(* leaves the inputs of the nodes before it as they were.                  *)
LEMMA RerunCause ==
  ASSUME IInv, CauseInv, NEW n \in Node, Rerun(n)
  PROVE  CauseInv'
<1>1. /\ pc = "check" /\ UNCHANGED <<pc, setting, disk, view, skipped>>
      /\ todo' = todo \ {n} /\ n \in view.runtime /\ status[n] = SUCCESS /\ n \in ToCheck
      /\ \A m \in ToCheck : n <= m
      /\ status' = MarkPending({n}) /\ Changed(n)
  BY DEF Rerun, run, user, IsNext, ToCheck
<1>2. /\ \A m \in Node : status'[m] \in {status[m], PENDING}
      /\ \A m \in Node : status'[m] = status[m] \/ m \in Downstream(n)
  BY <1>1, MarkPendingFacts DEF IInv
<1>3. \A m \in Node : m < n => status'[m] = status[m]
  <2>1. \A m \in Node : m \in Nat
    BY Assumptions DEF Node
  <2>2. \A m \in view.after[n] : n <= m
    BY <1>1, AfterIsLarger DEF IInv, TypeOK
  <2>3. \A m \in Node : m < n => m \notin view.after[n] /\ m # n
    BY <2>1, <2>2
  <2> QED
    BY <1>2, <2>3 DEF Downstream
<1>4. HasResult' = HasResult
  BY <1>1 DEF HasResult
<1>5. ToCheck' \subseteq ToCheck \ {n}
  BY <1>1, <1>2 DEF ToCheck, IInv, TypeOK, PENDING, SUCCESS
<1>6. ASSUME NEW k \in Node, k <= n, Changed(k) PROVE Changed(k)'
  <2>1. \A i \in Node : i < k => status[i] = status'[i]
    BY <1>3, <1>6, Assumptions DEF Node
  <2>2. Inputs(status', k) = Inputs(status, k)
    BY <2>1, InputsOfAgreeing
  <2> QED
    BY <1>1, <1>6, <2>2 DEF Changed, InputsChanged
<1>7. \A m \in ToCheck' : m \in Node /\ m \in Nat /\ n \in Nat /\ n < m
  <2>1. ToCheck \subseteq Node
    BY DEF ToCheck, IInv, TypeOK
  <2>2. \A m \in Node : m \in Nat
    BY Assumptions DEF Node
  <2>3. ASSUME NEW m \in ToCheck' PROVE m \in Node /\ n <= m /\ n # m
    BY <1>1, <1>5, <2>1
  <2> QED
    BY <2>2, <2>3
<1>8. ASSUME NEW k \in Node, Cause(k) PROVE Cause(k)'
  <2>1. (\A m \in ToCheck : k < m) => k <= n
    BY <1>1, <1>8, Assumptions DEF Node
  <2> QED
    BY <1>1, <1>4, <1>5, <1>6, <1>8 DEF Cause, Node
<1>9. HasResult # {} => Cause(n)'
  <2>1. n \notin skipped
    BY <1>1 DEF IInv, SkippedOrReset, PENDING, SUCCESS, SKIPPED
  <2>2. HasResult # {} => n \in HasResult
    BY <1>1, <2>1 DEF CauseInv, PENDING, SUCCESS
  <2>3. Changed(n)'
    BY <1>1, <1>6, Assumptions DEF Node
  <2> QED
    BY <1>1, <1>4, <1>7, <2>1, <2>2, <2>3 DEF Cause
<1>10. ASSUME HasResult # {}, NEW m \in view.runtime, status'[m] = PENDING
       PROVE  \E k \in view.runtime : m \in view.after[k] /\ Cause(k)'
  <2>1. m \in Node /\ view.runtime \subseteq Node
    BY ViewFacts DEF IInv, TypeOK
  <2>2. CASE m \in Downstream(n)
    BY <1>1, <1>9, <1>10, <2>2, ViewFacts DEF Downstream, IInv, TypeOK
  <2>3. CASE m \notin Downstream(n)
    BY <1>1, <1>2, <1>8, <1>10, <2>1, <2>3 DEF CauseInv
  <2> QED
    BY <2>2, <2>3
<1>11. ASSUME HasResult # {}, NEW m \in skipped PROVE status'[m] = SKIPPED
  <2>1. m \in Node /\ m \notin Downstream(n)
    BY <1>1, <1>11 DEF Downstream, IInv, TypeOK, SkippedOrReset, PENDING, SUCCESS, SKIPPED
  <2> QED
    BY <1>1, <1>2, <1>11, <2>1 DEF CauseInv
<1> QED
  BY <1>1, <1>2, <1>4, <1>10, <1>11 DEF CauseInv

(* What is marked at the end of the check is below a node that was marked  *)
(* before, or below one whose result is a failure.                         *)
LEMMA EnsureCause ==
  ASSUME IInv, CauseInv, Ensure, NEW n \in view.runtime, status'[n] = PENDING
  PROVE  \E k \in view.runtime : n \in view.after[k] /\ HasCause(k)
<1>1. pc = "check" /\ status' = MarkPending(Unfinished) /\ n \in Node /\ n \in view.after[n]
  BY ViewFacts DEF Ensure, IInv, TypeOK
<1>2. CASE HasResult = {}
  BY <1>1, <1>2 DEF HasCause
<1>3. CASE HasResult # {}
  <2>1. \A k : Cause(k) => HasCause(k)
    BY DEF Cause, HasCause
  <2>2. PICK k \in Unfinished : n \in view.after[k]
    <3>1. status[n] = PENDING => n \in Unfinished
      BY DEF Unfinished, IsWaiting
    <3>2. status[n] = status'[n] \/ \E k \in Unfinished : n \in Downstream(k)
      BY <1>1, MarkPendingFacts DEF IInv, Unfinished
    <3>3. \A k \in Unfinished : k \in view.after[k]
      BY ViewFacts DEF Unfinished, IInv, TypeOK
    <3> QED
      BY <1>1, <3>1, <3>2, <3>3 DEF Downstream
  <2>3. k \in view.runtime /\ k \in Node /\ (status[k] = PENDING \/ IsError(status[k]))
    BY ViewFacts DEF Unfinished, IsWaiting, IInv, TypeOK
  <2>4. CASE status[k] = PENDING
    <3>1. PICK j \in view.runtime : k \in view.after[j] /\ Cause(j)
      BY <1>1, <1>3, <2>3, <2>4 DEF CauseInv
    <3>2. n \in view.after[j]
      BY <2>2, <3>1, ViewFacts DEF IInv, TypeOK
    <3> QED
      BY <2>1, <3>1, <3>2
  <2>5. CASE status[k] # PENDING
    <3>1. k \notin skipped
      BY <1>1, <1>3, <2>3, <2>5 DEF CauseInv, IsError, Failed, SKIPPED, ERROR, TIMEOUT
    <3>2. k \in HasResult /\ disk[k].status = status[k]
      BY <1>1, <1>3, <2>3, <2>5, <3>1 DEF CauseInv
    <3>3. ~ IsSuccess(disk[k].status)
      BY <2>3, <2>5, <3>2 DEF IsError, IsSuccess, Failed, Succeeded, SUCCESS, SKIPPED, ERROR, TIMEOUT
    <3> QED
      BY <2>2, <2>3, <3>1, <3>2, <3>3 DEF HasCause
  <2> QED
    BY <2>4, <2>5
<1> QED
  BY <1>2, <1>3

(* No step breaks what is known of causes. *)
LEMMA NextCause ==
  ASSUME RunsAreRead, IInv, CauseInv, [Next]_vars
  PROVE  CauseInv'
<1>1. CASE pc' # "check"
  BY <1>1 DEF CauseInv
<1>2. ASSUME NEW v \in Views, NEW clean \in BOOLEAN, Begin(v, clean) PROVE CauseInv'
  BY <1>2, BeginCause
<1>3. ASSUME NEW n \in Node, Reuse(n) \/ Rerun(n) PROVE CauseInv'
  BY <1>3, ReuseCause, RerunCause
<1>4. ASSUME NEW n \in Node, FlowReset(n) PROVE CauseInv'
  BY <1>4 DEF FlowReset, CauseInv, HasResult
<1>5. CASE UNCHANGED vars
  BY <1>5 DEF vars, CauseInv, Cause, HasResult, Changed, InputsChanged, ToCheck
<1>6. CASE EditTop \/ Ensure \/ Execute \/ Stop \/ \E n \in Node : Edit(n) \/ Clean(n) \/ RunNode(n)
  <2>1. pc' # "check"
    BY <1>6 DEF EditTop, Ensure, Execute, Stop, Edit, Clean, RunNode
  <2> QED
    BY <1>1, <2>1
<1> QED
  BY <1>2, <1>3, <1>4, <1>5, <1>6 DEF Next

(* "Nodes that already completed are reused": configure_nodes() marks a    *)
(* node only for a reason that lies in it or above it.                     *)
THEOREM RerunsHaveCauses ==
  ASSUME RunsAreRead
  PROVE  Spec => NoNeedlessRerun
<1>1. Init => CauseInv
  BY DEF Init, CauseInv
<1>2. IInv /\ CauseInv /\ [Next]_vars => CauseInv'
  BY NextCause
<1>3. IInv /\ CauseInv =>
        [Ensure => \A n \in view.runtime : status'[n] = PENDING =>
           \E k \in view.runtime : n \in view.after[k] /\ HasCause(k)]_vars
  BY EnsureCause
<1> QED
  BY <1>1, <1>2, <1>3, Invariant, PTL DEF Spec, NoNeedlessRerun
=============================================================================

---------------------------- MODULE RuntimeFlow ----------------------------
(***************************************************************************)
(* The part of a flow that one run executes: class RuntimeFlowgraph of     *)
(* flowgraph.py.  A view is a record: the wiring of a flow without loops   *)
(* and, as sets of nodes, what the from, to and prune options name.        *)
(***************************************************************************)
EXTENDS FlowOps, NodeStatus

CONSTANTS
  N,          \* number of nodes; their numbers are an execution order
  StepOf      \* the step each node is an index of

Node == 1 .. N

ASSUME Assumptions == N \in Nat /\ DOMAIN StepOf = Node

IsView(v) ==
  /\ v.in \in [Node -> SUBSET Node]
  /\ \A n \in Node : v.in[n] \subseteq 1 .. (n - 1)
  /\ {v.from, v.to, v.prune} \subseteq SUBSET Node
  /\ (v.from \cup v.to) \cap v.prune = {}

StepsOf(S) == {StepOf[n] : n \in S}

(***************************************************************************)
(* __init__(): the steps of the options stand for all of their indices,    *)
(* no option for the entry and the exit nodes of the flow; pruned nodes    *)
(* are neither.                                                            *)
(***************************************************************************)
MakeView(in, from, to, prune) ==
  [in    |-> in,
   from  |-> (IF from = {} THEN EntryNodes(in) ELSE {n \in Node : StepOf[n] \in from}) \ prune,
   to    |-> (IF to = {} THEN ExitNodes(in) ELSE {n \in Node : StepOf[n] \in to}) \ prune,
   prune |-> prune]

\* Mutant: a branch that runs into a pruned or an entry node is kept.
WalkBackDead(v, start) ==
  LET walk[n \in Node] ==
        IF n \in v.prune THEN {}
        ELSE IF n \in start THEN {n} ELSE {n} \cup UNION {walk[i] : i \in v.in[n]}
  IN  walk

(***************************************************************************)
(* __walk_graph(): the nodes on the paths from a node to the nodes where   *)
(* the walk stops.  A path that ends anywhere else, at a pruned node or    *)
(* where the flow ends, contributes nothing.                               *)
(***************************************************************************)
WalkBack(v, start) ==
  LET walk[n \in Node] ==
        IF n \in v.prune THEN {}
        ELSE IF n \in start THEN {n}
        ELSE LET paths == UNION {walk[i] : i \in v.in[n]}
             IN  IF paths = {} THEN {} ELSE {n} \cup paths
  IN  walk

WalkForward(v, stop) ==
  LET outputs == NodeOutputs(v.in)
      walk[n \in Node] ==
        IF n \in v.prune THEN {}
        ELSE IF n \in stop THEN {n}
        ELSE LET paths == UNION {walk[m] : m \in outputs[n]}
             IN  IF paths = {} THEN {} ELSE {n} \cup paths
  IN  walk

(***************************************************************************)
(* __compute_graph(): the nodes, the entry and exit nodes that are left    *)
(* at the ends of them, and the levels of the flow cut down to them.       *)
(***************************************************************************)
RuntimeNodes(v) == UNION {WalkBack(v, v.from)[n] : n \in v.to}

RuntimeEntry(v) ==
  {n \in v.from \cap RuntimeNodes(v) : v.in[n] \cap RuntimeNodes(v) = {}}

RuntimeExit(v) ==
  {n \in v.to \cap RuntimeNodes(v) : NodeOutputs(v.in)[n] \cap RuntimeNodes(v) = {}}

RuntimeOrder(v) ==
  LET order == ExecutionOrder(v.in)
  IN  [k \in DOMAIN order |-> order[k] \cap RuntimeNodes(v)]

\* Mutant: the walk stops at every node of to.
StartingAtAnyTo(v, n) == WalkForward(v, v.to)[n]

StartingAt(v, n) == WalkForward(v, RuntimeExit(v))[n]      \* get_nodes_starting_at()

\* Mutant: a skipped node outside of the view is an input like any other.
NodeInputsInside(v, status) ==
  LET runtime == RuntimeNodes(v)
      inputs[n \in Node] ==
        UNION {IF status[i] = SKIPPED /\ i \in runtime THEN inputs[i] ELSE {i} :
                 i \in v.in[n] \ v.prune}
  IN  inputs

(***************************************************************************)
(* get_node_inputs() with a record: skipped inputs are replaced by their   *)
(* own inputs, in the view as often as it takes, outside of it once.       *)
(***************************************************************************)
NodeInputs(v, status) ==
  LET runtime == RuntimeNodes(v)
      inputs[n \in Node] ==
        UNION {IF status[i] # SKIPPED THEN {i}
               ELSE IF i \in runtime THEN inputs[i]
               ELSE v.in[i] \ v.prune :
                 i \in v.in[n] \ v.prune}
  IN  inputs

(***************************************************************************)
(* validate(): pruning may not remove all the exit or all the entry nodes  *)
(* of a step, and some node of from must lead to some node of to.          *)
(***************************************************************************)
ValidOptions(in, from, to, prune) ==
  LET v   == MakeView(in, from, to, prune)
      all == MakeView(in, from, to, {})
      named(steps) == {n \in Node : StepOf[n] \in steps}
  IN  /\ StepsOf(RuntimeExit(all)) \subseteq StepsOf(RuntimeExit(v))
      /\ StepsOf(RuntimeEntry(all)) \subseteq StepsOf(RuntimeEntry(v))
      /\ from # {} /\ to # {} =>
           \E f \in named(from), t \in named(to) : f \in WalkBack(v, RuntimeEntry(v))[t]

-----------------------------------------------------------------------------

=============================================================================

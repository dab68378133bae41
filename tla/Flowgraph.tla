----------------------------- MODULE Flowgraph -----------------------------
(***************************************************************************)
(* Building a flow: the editing methods of class Flowgraph (flowgraph.py). *)
(*                                                                         *)
(* A flow maps every defined node to the list of its inputs.  The order of *)
(* that list plays no part, but an input can be on it twice, so it is kept *)
(* as a bag.  Tasks, goals and the caches (which every method that changes *)
(* the flow clears before it returns) are left out.                        *)
(***************************************************************************)
EXTENDS FlowOps, FiniteSetsExt, Bags

BE == INSTANCE BagsExt

CONSTANTS
  Name,         \* the names of nodes, <<step, index>>
  Subflows,     \* flows that graph() may instantiate
  MaxNodes,     \* bound on the nodes defined at a time
  MaxRepeat     \* bound on how often an input is on a list

ASSUME Assumptions ==
  /\ MaxNodes \in Nat /\ MaxRepeat \in Nat \ {0}
  /\ \A n \in Name : n = <<n[1], n[2]>>
  /\ \A sub \in Subflows : DOMAIN sub \subseteq Name /\ IsFiniteSet(DOMAIN sub)

VARIABLE flow      \* the inputs of every defined node

Nodes    == DOMAIN flow
Steps(f) == {n[1] : n \in DOMAIN f}

\* The flow as a wiring: the inputs of a node as a set.
Wiring(f) == [n \in DOMAIN f |-> BagToSet(f[n])]
In        == Wiring(flow)

\* The bounds on what a call may leave behind.
Bounded(f) ==
  /\ DOMAIN f \subseteq Name
  /\ Cardinality(DOMAIN f) <= MaxNodes
  /\ \A n \in DOMAIN f : \A i \in DOMAIN f[n] : i \in Name /\ f[n][i] <= MaxRepeat

Init == flow = <<>>

Update(f) == Bounded(f) /\ flow' = f

-----------------------------------------------------------------------------
WithNode(f, n) == [m \in DOMAIN f \cup {n} |-> IF m \in DOMAIN f THEN f[m] ELSE EmptyBag]

Define(n) == Update(WithNode(flow, n))         \* node()

Edge(tail, head) ==
  /\ {tail, head} \subseteq Nodes
  /\ Update(IF BagIn(tail, flow[head]) THEN flow
            ELSE [flow EXCEPT ![head] = BE!BagAdd(@, tail)])

\* Mutant: the outputs of the removed node are not connected to its inputs.
WithoutNodeCut(f, n) ==
  [m \in DOMAIN f \ {n} |->
     IF BagIn(n, f[m]) THEN SetToBag(BagToSet(f[m]) \ {n}) ELSE f[m]]

\* remove_node() of one node: its outputs inherit its inputs.
WithoutNode(f, n) ==
  [m \in DOMAIN f \ {n} |->
     IF BagIn(n, f[m]) THEN SetToBag((BagToSet(f[m]) \ {n}) \cup BagToSet(f[n]))
     ELSE f[m]]

RemoveNode(n) ==
  /\ n \in Nodes
  /\ Update(WithoutNode(flow, n))

\* remove_node() without an index: every node of the step, one by one.
RemoveStep(s) ==
  /\ s \in Steps(flow)
  /\ Update(FoldSet(LAMBDA n, f : WithoutNode(f, n), flow, {n \in Nodes : n[1] = s}))

\* insert_node(): n takes over the outputs of before, and becomes its output.
WithInserted(f, n, before) ==
  LET g == WithNode(f, n)
  IN  [m \in DOMAIN g |->
         IF m = n THEN SetToBag({before})
         ELSE IF BagIn(before, g[m]) THEN BE!BagAdd(BE!BagRemove(g[m], before), n)
         ELSE g[m]]

InsertNode(n, before) ==
  /\ before \in Nodes
  /\ Update(WithInserted(flow, n, before))

\* Mutant: the nodes move, the edges that name them do not.
RenamedNodesOnly(f, s, t) ==
  LET old(n) == IF n[1] = t THEN <<s, n[2]>> ELSE n
  IN  [n \in {IF m[1] = s THEN <<t, m[2]>> ELSE m : m \in DOMAIN f} |-> f[old(n)]]

Renamed(f, s, t) ==
  LET old(n) == IF n[1] = t THEN <<s, n[2]>> ELSE n
      new(n) == IF n[1] = s THEN <<t, n[2]>> ELSE n
  IN  [n \in {new(m) : m \in DOMAIN f} |-> BagOfAll(new, f[old(n)])]

\* rename_node(): renaming a step to itself changes nothing.
RenameStep(s, t) ==
  /\ s \in Steps(flow) /\ t \notin Steps(flow)
  /\ Update(Renamed(flow, s, t))

(***************************************************************************)
(* graph(): copy a flow, step by step, until a step is already defined.    *)
(* A call that raises leaves the steps it has copied behind.               *)
(***************************************************************************)
Instantiate(sub) ==
  LET clash == Steps(sub) \cap Steps(flow)
  IN  \E copied \in SUBSET (Steps(sub) \ clash) :
        /\ clash = {} => copied = Steps(sub)
        /\ LET new == {n \in DOMAIN sub : n[1] \in copied}
           IN  Update([n \in Nodes \cup new |-> IF n \in new THEN sub[n] ELSE flow[n]])

Next ==
  \/ \E n \in Name : Define(n) \/ RemoveNode(n)
  \/ \E n, m \in Name : Edge(n, m) \/ InsertNode(n, m)
  \/ \E s \in Steps(flow) : RemoveStep(s)
  \/ \E s \in Steps(flow), t \in {n[1] : n \in Name} : RenameStep(s, t)
  \/ \E sub \in Subflows : Instantiate(sub)

Spec == Init /\ [][Next]_flow

-----------------------------------------------------------------------------
\* Duplicate edges, undefined nodes and loops.
ValidateOK(f) ==
  /\ \A n \in DOMAIN f : \A i \in DOMAIN f[n] : f[n][i] <= 1
  /\ EdgesDefined(Wiring(f))
  /\ ~ FindsLoop(Wiring(f))

Sound(f) == EdgesDefined(Wiring(f)) /\ IsDag(Wiring(f))

(***************************************************************************)
(* get_execution_order() of a flow without loops ends, and lists every     *)
(* node once and after its inputs: what the scheduler sets nodes up,       *)
(* checks them and launches them by.                                       *)
(***************************************************************************)
OrderIsTopological ==
  Sound(flow) => OrderEnds(In) /\ IsExecutionOrder(In, ExecutionOrder(In))

(***************************************************************************)
(* The calls that are not meant to add a dependency between two nodes of   *)
(* the flow.  insert_node() is given a new name; graph() is given a flow   *)
(* without loops, and does not raise.                                      *)
(***************************************************************************)
Restructure ==
  \/ \E n \in Name : Define(n) \/ RemoveNode(n)
  \/ \E n \in Name \ Nodes, m \in Nodes : InsertNode(n, m)
  \/ \E s \in Steps(flow) : RemoveStep(s)
  \/ \E sub \in Subflows :
       Sound(sub) /\ Steps(sub) \cap Steps(flow) = {} /\ Instantiate(sub)

(***************************************************************************)
(* Only edge(), and insert_node() with the name of a node that exists, can *)
(* close a loop, and only a graph() that raised leaves edges to undefined  *)
(* nodes: every other call leaves a flow without loops as such.            *)
(***************************************************************************)
EditsKeepSoundness ==
  [][/\ Sound(flow)
     /\ Restructure \/ \E s \in Steps(flow), t \in Steps(flow') : RenameStep(s, t)
     => Sound(flow')]_flow

\* What depended on a node of step s depends on its namesake of step t.
SameUnderRename(s, t) ==
  LET was(x) == IF x[1] = t THEN <<s, x[2]>> ELSE x
  IN  \A n, m \in DOMAIN flow' :
        DependsOn(Wiring(flow'), n, m) <=> DependsOn(In, was(n), was(m))

(***************************************************************************)
(* Removing and inserting nodes, and instantiating a flow beside them, do  *)
(* not change which of the other nodes depend on each other ("stitches the *)
(* graph back together", remove_node()), and "the topology of the flow is  *)
(* unchanged" by rename_node().                                            *)
(***************************************************************************)
EditsKeepDependencies ==
  [][Sound(flow) =>
       /\ Restructure =>
            \A n, m \in Nodes \cap DOMAIN flow' :
              DependsOn(Wiring(flow'), n, m) <=> DependsOn(In, n, m)
       /\ \A s \in Steps(flow), t \in Steps(flow') \ Steps(flow) :
            RenameStep(s, t) => SameUnderRename(s, t)]_flow
=============================================================================

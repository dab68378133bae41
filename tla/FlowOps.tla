------------------------------ MODULE FlowOps ------------------------------
(***************************************************************************)
(* What class Flowgraph of flowgraph.py computes about the wiring of a     *)
(* flow.  A wiring maps every node to the set of its inputs; the inputs of *)
(* a wiring need not be nodes of it, and it may have loops.                *)
(***************************************************************************)
EXTENDS Naturals, FiniteSets

EntryNodes(in) == {n \in DOMAIN in : in[n] = {}}

ExitNodes(in) == {n \in DOMAIN in : \A m \in DOMAIN in : n \notin in[m]}

NodeOutputs(in) == [n \in DOMAIN in |-> {m \in DOMAIN in : n \in in[m]}]

(***************************************************************************)
(* get_execution_order(): level by level from the entry nodes.  A node     *)
(* whose inputs have been visited in earlier levels is visited, and the    *)
(* first visit of a node puts its outputs on the next level; any other     *)
(* node is put on the next level again.  The loop ends with an empty       *)
(* level.  A node can be visited once per level at most, and every level   *)
(* that visits nobody is repeated for ever.                                *)
(***************************************************************************)
NextLevel(in, last) ==
  LET valid == {n \in last.level : in[n] \subseteq last.visited}
  IN  [level   |-> (last.level \ valid)
                     \cup UNION {NodeOutputs(in)[n] : n \in valid \ last.visited},
       visited |-> last.visited \cup valid]

Levels(in) ==
  LET levels[k \in 0 .. 2 * Cardinality(DOMAIN in)] ==
        IF k = 0 THEN [level |-> EntryNodes(in), visited |-> {}]
        ELSE NextLevel(in, levels[k - 1])
  IN  levels

\* The loop of get_execution_order() ends.
OrderEnds(in) == \E k \in DOMAIN Levels(in) : Levels(in)[k].level = {}

\* Mutant: duplicates are dropped from the later levels.
ExecutionOrderFirst(in) ==
  LET level == [k \in DOMAIN Levels(in) |-> Levels(in)[k].level]
  IN  [k \in DOMAIN level |-> level[k] \ UNION {level[j] : j \in 0 .. (k - 1)}]

\* The levels, each without the nodes that are on a later one.
ExecutionOrder(in) ==
  LET levels == Levels(in)
  IN  [k \in DOMAIN levels |->
         levels[k].level \ UNION {levels[j].level : j \in {i \in DOMAIN levels : i > k}}]

(***************************************************************************)
(* validate(): edges between nodes of the flow, and a search for loops     *)
(* along the outputs, from every entry node.                               *)
(***************************************************************************)
NodesFrom(in, start) ==
  LET outputs == NodeOutputs(in)
      reach[k \in Nat] == IF k = 0 THEN start
                          ELSE LET near == reach[k - 1]
                               IN  near \cup UNION {outputs[n] : n \in near}
  IN  reach[Cardinality(DOMAIN in)]

OnLoop(in, n) == n \in NodesFrom(in, NodeOutputs(in)[n])

FindsLoop(in) == \E n \in NodesFrom(in, EntryNodes(in)) : OnLoop(in, n)

EdgesDefined(in) == \A n \in DOMAIN in : in[n] \subseteq DOMAIN in

-----------------------------------------------------------------------------
(***************************************************************************)
(* What the words mean, independently of how the code computes them.       *)
(***************************************************************************)

\* A set of nodes that nothing outside of it feeds.
SelfFed(in, S) == \A n \in S : in[n] \cap DOMAIN in \subseteq S

\* n and the nodes it depends on.
Cone(in, n) ==
  {m \in DOMAIN in : \A S \in SUBSET (DOMAIN in) : n \in S /\ SelfFed(in, S) => m \in S}

DependsOn(in, n, m) == \E i \in in[n] \cap DOMAIN in : m \in Cone(in, i)

IsDag(in) == \A n \in DOMAIN in : ~ DependsOn(in, n, n)

\* The levels list every node once, after all of its inputs.
IsExecutionOrder(in, order) ==
  LET at(n) == {k \in DOMAIN order : n \in order[k]}
  IN  \A n \in DOMAIN in :
        /\ Cardinality(at(n)) = 1
        /\ \A i \in in[n], k \in at(n), j \in DOMAIN order : i \in order[j] => j < k

=============================================================================

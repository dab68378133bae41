---------------------------- MODULE RuntimeView ----------------------------
(***************************************************************************)
(* A view of a flow while a run executes it.  The scheduler asks for the   *)
(* inputs of every node once, when it is created, and starts the node when *)
(* they have settled.  The node itself asks again when it runs, when other *)
(* nodes may have been skipped.  Both ask another view than that of the    *)
(* run, one that does not know the options from and to.                    *)
(***************************************************************************)
EXTENDS RuntimeFlow

CONSTANTS
  Views,      \* the views a run may have
  Priors,     \* what nodes outside of the view were left as by earlier runs
  Results     \* how nodes end

ASSUME ViewAssumptions ==
  /\ \A v \in Views : IsView(v)
  /\ Priors \subseteq Status /\ Results \subseteq Done

VARIABLES
  view,       \* the view; never changes
  status,     \* the statuses in the record
  planned     \* per node, the inputs the scheduler waits for

vars == <<view, status, planned>>

Runtime == RuntimeNodes(view)

\* The view that is asked for inputs: schema_flowruntime of a task, and its
\* like in the scheduler.
InputView(v) == MakeView(v.in, StepsOf(EntryNodes(v.in)), {}, v.prune)

\* The nodes whose inputs can be asked for.
Known == Runtime \cap RuntimeNodes(InputView(view))

Inputs == NodeInputs(InputView(view), status)        \* select_input_nodes()

\* A node of the view is to be run, unless its setup() has skipped it.
Init ==
  /\ view \in Views
  /\ \E s \in [Node -> Priors \cup {PENDING, SKIPPED}] :
       /\ \A n \in Node : s[n] \in (IF n \in RuntimeNodes(view) THEN {PENDING, SKIPPED}
                                    ELSE Priors)
       /\ status = s
       /\ planned = NodeInputs(InputView(view), s)

\* Mutant: one input that has settled is enough.
AnyInputSettled(n) ==
  planned[n] = {} \/ \E i \in planned[n] : IsDone(status[i])

InputsSettled(n) == \A i \in planned[n] : IsDone(status[i])

Settle(n) ==
  /\ Runtime = Known
  /\ n \in Runtime
  /\ status[n] = PENDING
  /\ InputsSettled(n)
  /\ \E r \in Results : status' = [status EXCEPT ![n] = r]
  /\ UNCHANGED <<view, planned>>

Next == \E n \in Node : Settle(n)

Spec == Init /\ [][Next]_vars

-----------------------------------------------------------------------------
\* The view as a wiring of its own.
Inside == [n \in Runtime |-> view.in[n] \cap Runtime]

(***************************************************************************)
(* The view holds the nodes between from and to: those that a node of to   *)
(* needs and that need a node of from, along edges that do not touch a     *)
(* pruned node and do not lead into a node of from.  Its levels are an     *)
(* execution order of it, and its entry and exit nodes are where it begins *)
(* and ends: the scheduler takes the levels as the order in which to look  *)
(* at nodes, a node takes the entry nodes as those that may have no input, *)
(* and check() the exit nodes as what had to be reached.                   *)
(***************************************************************************)
ViewIsBetween ==
  LET kept == [n \in Node \ view.prune |->
                 IF n \in view.from THEN {} ELSE view.in[n] \ view.prune]
  IN  /\ Runtime = {n \in DOMAIN kept :
                      /\ \E t \in view.to : n \in Cone(kept, t)
                      /\ Cone(kept, n) \cap view.from # {}}
      /\ IsExecutionOrder(Inside, RuntimeOrder(view))
      /\ RuntimeEntry(view) = EntryNodes(Inside)
      /\ RuntimeExit(view) = ExitNodes(Inside)

Downstream(n) == {m \in Runtime : n \in Cone(Inside, m)}

(***************************************************************************)
(* get_nodes_starting_at() finds everything in the view that depends on a  *)
(* node: what __mark_pending() runs again.  It stays inside the view when  *)
(* no node of from depends on another one.                                 *)
(***************************************************************************)
StartingAtIsDownstream ==
  \A n \in Runtime :
    /\ Downstream(n) \subseteq StartingAt(view, n)
    /\ (\A f \in view.from : Cone(view.in, f) \cap view.from = {f})
         => StartingAt(view, n) \subseteq Runtime

\* The results n is meant to work on: its nearest ancestors that were not
\* skipped, along edges that do not touch a pruned node.
Nearest(n) ==
  LET through == [m \in Node |-> {i \in view.in[m] \ view.prune : status[i] = SKIPPED}]
  IN  {i \in UNION {view.in[m] \ view.prune : m \in Cone(through, n)} : status[i] # SKIPPED}

\* Skipped nodes that the view does not know to step over.
Opaque == {n \in Node \ (RuntimeNodes(InputView(view)) \cup view.prune) : status[n] = SKIPPED}

NoTwoInARow == \A n \in Opaque : \A i \in view.in[n] \ view.prune : status[i] # SKIPPED

(***************************************************************************)
(* A node works on the nearest results above the nodes that were skipped,  *)
(* unless two nodes in a row were skipped that pruning has cut off.        *)
(***************************************************************************)
InputsAreNearest == NoTwoInARow => \A n \in Known : Inputs[n] = Nearest(n)

(***************************************************************************)
(* The scheduler and the node need not agree on the inputs, but when the   *)
(* inputs that the scheduler waits for have settled, so have those that    *)
(* the node finds.                                                         *)
(***************************************************************************)
FoundInputsSettled ==
  \A n \in Known :
    (\A i \in planned[n] : IsDone(status[i])) => \A i \in Inputs[n] : IsDone(status[i])

=============================================================================

--------------------------- MODULE MCTaskScheduler --------------------------
(***************************************************************************)
(* Families of small flows for TaskScheduler.                              *)
(***************************************************************************)
EXTENDS TaskScheduler

\* Every way to wire N nodes whose numbers are an execution order.
Wirings == {w \in [Node -> SUBSET Node] : \A n \in Node : w[n] \subseteq 1 .. (n - 1)}

AllPending == [n \in Node |-> PENDING]
OneThread  == [n \in Node |-> 1]

Plain(w, b) ==
  [inputs |-> w, threads |-> OneThread, runtime |-> Node, builtin |-> b,
   local |-> Node, breakpoint |-> {}, prior |-> AllPending, halters |-> {}]

\* Every wiring, with every choice of builtin fan-in nodes.
DagFlows == {Plain(w, b) : w \in Wirings, b \in {{}, {N}, {N - 1, N}}}

Independent == [n \in Node |-> {}]

\* Thread requests, 0 asking for all the cores and 4 for more than there are:
\* the order of unconnected nodes does not matter beyond this.
Requests == {t \in [Node -> {0, 1, 4}] : t[2] > 0 /\ \A n \in 2 .. N : t[n - 1] <= t[n]}

\* Unconnected nodes with every thread request, with and without a remote node
\* and breakpoints; and a breakpoint that becomes ready while another node is
\* running.
ResourceFlows ==
  {[Plain(Independent, {}) EXCEPT !.threads = t, !.local = l, !.breakpoint = b] :
     t \in Requests, l \in {Node, Node \ {2}}, b \in {{}, {2, 3}}}
  \cup {[Plain([Independent EXCEPT ![3] = {1}], {}) EXCEPT !.local = l, !.breakpoint = {3}] :
           l \in {Node, Node \ {2}}}

\* A run that starts in the middle: nodes outside of it have settled before,
\* or have never run.
Priors ==
  {x \in [Node -> {PENDING, SUCCESS, ERROR, SKIPPED}] \X {Node, 2 .. N} :
     \E n \in x[2] : x[1][n] = PENDING}

PartialFlows ==
  {[Plain(w, b) EXCEPT !.prior = x[1], !.runtime = x[2]] :
     w \in Wirings, b \in {{}, {N}}, x \in Priors}

\* Remote nodes only, in a chain.
Chain == [n \in Node |-> {n - 1} \cap Node]
RemoteFlows == {[Plain(Chain, {}) EXCEPT !.local = {}]}

\* Two nodes that another thread may halt, with and without a breakpoint.
HaltFlows ==
  {[Plain(w, {}) EXCEPT !.breakpoint = b, !.runtime = {1, 2}, !.halters = {"halt_all"}] :
     w \in {Independent, Chain}, b \in SUBSET {1}}

FlowFamilies == {f : f \in DagFlows \cup PartialFlows \cup RemoteFlows \cup ResourceFlows \cup HaltFlows}

AllFlows == FlowFamilies

-----------------------------------------------------------------------------
(* A comment and a test say that halt_all() may arrive at any time while   *)
(* run() cleans up, on another thread, and returns; the code does not do   *)
(* that.  Checked by a run that finds it violated.                         *)
HaltAllReturns == hpc["halt_all"] # "failed"
=============================================================================

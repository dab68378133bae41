---------------------------- MODULE DagExecution ----------------------------
(***************************************************************************)
(* What one run of a flowgraph promises, whatever schedules it.  Every     *)
(* node moves once along  waiting -> running -> settled, or is dropped     *)
(* without running; it runs only when its inputs have settled, and a       *)
(* failed input stops it unless it is a builtin fan-in node.  A run may    *)
(* call itself complete only when no node can be started any more.         *)
(***************************************************************************)
EXTENDS NodeStatus

CONSTANT Node

VARIABLES
  flow,    \* the flow being run: a record with inputs, builtin (see Init)
  phase,   \* phase of every node
  over     \* "no" until the run ends, then "complete" or "aborted"

vars == <<flow, phase, over>>

(***************************************************************************)
(* A settled node is identified with its final status.  A "lost" node ran  *)
(* and ended without a result; an "absent" one takes no part in the run.   *)
(***************************************************************************)
Phase == {"waiting", "running", "lost", "dropped", "absent"} \cup Done

Inputs(n)  == flow.inputs[n]
Settled(n) == phase[n] \in Done

\* A failed input stops n; a builtin node only needs one successful input.
Doomed(n) ==
  IF n \in flow.builtin
  THEN /\ Inputs(n) # {}
       /\ \A i \in Inputs(n) : Settled(i) /\ phase[i] # SUCCESS
  ELSE \E i \in Inputs(n) : phase[i] \in Failed

Startable(n) ==
  /\ phase[n] = "waiting"
  /\ \A i \in Inputs(n) : Settled(i)
  /\ ~ Doomed(n)

Init ==
  /\ phase \in [Node -> {"waiting", "absent"} \cup Done]
  /\ over = "no"

Start(n) ==
  /\ over = "no"
  /\ Startable(n)
  /\ phase' = [phase EXCEPT ![n] = "running"]
  /\ UNCHANGED <<flow, over>>

Finish(n) ==
  /\ over = "no"
  /\ phase[n] = "running"
  /\ \E r \in Done \cup {"lost"} : phase' = [phase EXCEPT ![n] = r]
  /\ UNCHANGED <<flow, over>>

Drop ==
  /\ over = "no"
  /\ phase' = [n \in Node |-> IF phase[n] = "waiting" /\ Doomed(n)
                              THEN "dropped" ELSE phase[n]]
  /\ UNCHANGED <<flow, over>>

Complete ==
  /\ over = "no"
  /\ \A n \in Node : phase[n] # "running" /\ ~ Startable(n)
  /\ over' = "complete"
  /\ UNCHANGED <<flow, phase>>

Abort ==
  /\ over = "no"
  /\ over' = "aborted"
  /\ UNCHANGED <<flow, phase>>

Next ==
  \/ \E n \in Node : Start(n) \/ Finish(n)
  \/ Drop
  \/ Complete
  \/ Abort

Spec == Init /\ [][Next]_vars

=============================================================================

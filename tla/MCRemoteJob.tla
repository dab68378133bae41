---------------------------- MODULE MCRemoteJob -----------------------------
(***************************************************************************)
(* Flows of two nodes for RemoteJob.                                       *)
(***************************************************************************)
EXTENDS RemoteJob

Runtime == INSTANCE RuntimeFlow WITH StepOf <- [n \in Node |-> n]

\* What sc-remote -reconnect asks for: it starts at the successors of an entry
\* node, the last one the set of them gives.
Rejoin(in) ==
  {Runtime!RuntimeNodes(Runtime!MakeView(in, Runtime!NodeOutputs(in)[e], {}, {})) :
     e \in Runtime!EntryNodes(in)}

Chain       == [n \in Node |-> {n - 1} \cap Node]
Independent == [n \in Node |-> {}]

JobOf(in, skips, cluster, events) ==
  [inputs |-> in, skips |-> skips, cluster |-> cluster, rejoin |-> Rejoin(in), events |-> events]

\* Everything that may come from outside, one at a time.
EachEvent ==
  {JobOf(Chain, skips, "local", {e}) : skips \in {{}, {1}}, e \in Event}
  \cup {JobOf(Independent, {}, "local", {"fail"})}
  \cup {JobOf(Chain, {}, "slurm", {e}) : e \in {"cancel", "stop", "crash"}}

SingleJobs    == EachEvent
ReconnectJobs == {JobOf(Chain, {}, "local", {"interrupt"})}

-----------------------------------------------------------------------------
(* The user guide and a test say that sc-remote can reconnect to a job     *)
(* that is running; the client looks up a node it has not asked for.       *)
(* Checked by a run that finds it violated.                                *)
ReconnectNeverCrashes == client # "crashed"
=============================================================================

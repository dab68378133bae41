---------------------------- MODULE NodeOutcome -----------------------------
(***************************************************************************)
(* What the process of a node may leave behind: the manifest in the node's *)
(* outputs/ directory, beside each way the process can end.  TaskScheduler *)
(* builds on these outcomes, NodeProcess shows that there are no others.   *)
(***************************************************************************)
EXTENDS NodeStatus

\* A manifest is truncated when it is opened for writing: torn until written.
Manifest == {"absent", "torn", SUCCESS, SKIPPED, ERROR}

\* run() returns, exit code 0.
LeftBySuccess == {SUCCESS, SKIPPED}

\* SlurmSchedulerNode.run() gives up waiting for the manifest, exit code 0.
LeftByDelay == {"absent"}

\* halt(), or an exception outside execute(): exit code 1.
LeftByFailure == {ERROR, "absent"}

\* A signal or an interrupt, anywhere: the process may have written nothing,
\* be writing, or have written the manifest of a node that did well or not.
LeftByKill == Manifest
=============================================================================

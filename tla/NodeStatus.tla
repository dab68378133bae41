----------------------------- MODULE NodeStatus -----------------------------
(***************************************************************************)
(* The statuses a node's record can hold and the predicates that classify  *)
(* them: class NodeStatus of siliconcompiler/_common.py.                   *)
(***************************************************************************)

PENDING == "pending"
QUEUED  == "queued"
RUNNING == "running"
SUCCESS == "success"
ERROR   == "error"
SKIPPED == "skipped"
TIMEOUT == "timeout"

Status == {PENDING, QUEUED, RUNNING, SUCCESS, ERROR, SKIPPED, TIMEOUT}

Done      == {SUCCESS, ERROR, SKIPPED, TIMEOUT}
Succeeded == {SUCCESS, SKIPPED}
Failed    == {ERROR, TIMEOUT}

IsDone(s)    == s \in Done
IsWaiting(s) == s = PENDING
IsSuccess(s) == s \in Succeeded
IsError(s)   == s \in Failed

=============================================================================

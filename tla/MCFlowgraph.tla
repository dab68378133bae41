---------------------------- MODULE MCFlowgraph ----------------------------
(***************************************************************************)
(* Four names, two of them indices of one step, and two flows to           *)
(* instantiate: a chain, and a single node.                                *)
(***************************************************************************)
EXTENDS Flowgraph

Names == {<<"a", 0>>, <<"a", 1>>, <<"b", 0>>, <<"c", 0>>}

Chain == [n \in {<<"b", 0>>, <<"c", 0>>} |->
            IF n[1] = "c" THEN SetToBag({<<"b", 0>>}) ELSE EmptyBag]

Single == [n \in {<<"c", 0>>} |-> EmptyBag]

Instantiable == {Chain, Single}

-----------------------------------------------------------------------------
(* validate() says "The graph must not contain any loops (it must be a     *)
(* DAG)", and get_execution_order() "generates a topologically sorted      *)
(* list": a flow that validates has an execution order.  The code does not *)
(* do that.  Checked by a run that finds it violated.                      *)
ValidHasOrder == ValidateOK(flow) => IsDag(In) \/ OrderEnds(In)
=============================================================================

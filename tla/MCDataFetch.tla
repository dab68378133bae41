---------------------------- MODULE MCDataFetch -----------------------------
(***************************************************************************)
(* A run with two threads, one of which knows the source under two names,  *)
(* that forks one node.                                                    *)
(***************************************************************************)
EXTENDS DataFetch

CONSTANTS a, b, n1

TwoThreadsAndANode == [c \in Caller |-> IF c = n1 THEN "node" ELSE "run"]

\* Over https less can happen than with git: without file locks, git will do.
GitAndHttps == {<<TRUE, FALSE>>, <<FALSE, FALSE>>, <<TRUE, TRUE>>}

OneUsesBothNames == [c \in Caller |-> IF c = b THEN Dir ELSE {"d1"}]
=============================================================================

------------------------- MODULE MCIncrementalBuild -------------------------
(***************************************************************************)
(* Small flows for IncrementalBuild, with the views that RuntimeFlow       *)
(* computes.  Every node is a step of its own.                             *)
(***************************************************************************)
EXTENDS IncrementalBuild

Identity == [n \in Node |-> n]

R == INSTANCE RuntimeFlow WITH StepOf <- Identity

\* What Scheduler.__init__() and __configure_collect_previous_information()
\* make of the options from and to.
ViewOf(from, to) ==
  LET v       == R!MakeView(In, from, to, {})
      runtime == R!RuntimeNodes(v)
  IN  [runtime |-> runtime,
       entry   |-> IF from = {} THEN {} ELSE R!RuntimeEntry(v),
       load    |-> R!RuntimeNodes(R!MakeView(In, {}, runtime, {})),
       after   |-> [n \in Node |-> IF n \in runtime THEN R!StartingAt(v, n) ELSE {}]]

Triangle == <<{}, {1}, {1, 2}>>
Chain    == <<{}, {1}, {2}>>

\* A fork that joins again.
Diamond  == <<{}, {1}, {1}, {2, 3}>>

\* The first node, or the one after it, may be skipped in every run, by setup or
\* when it runs.
OneSkipped ==
  {s \in [Node -> Settings] :
     LET fixed == {n \in Node : s[n] \in Fixed} IN fixed = {} \/ fixed = {1} \/ fixed = {2}}

AnySettings == [Node -> Settings]

Whole       == {ViewOf({}, {})}
WholeOrFrom == Whole \cup {ViewOf({n}, {}) : n \in Node \ {1}}
WholeOrOne  == Whole \cup {ViewOf({n}, {n}) : n \in Node}

\* The theorems on reuse are about runs like these.
ASSUME RunsOfTheTheorems ==
  ReachDown(WholeOrFrom) /\ ReadTheirOwn(WholeOrFrom \cup WholeOrOne)
=============================================================================

--------------------------- MODULE MCRuntimeView ---------------------------
(***************************************************************************)
(* Every view of every wiring of four nodes, two of them of one step.      *)
(***************************************************************************)
EXTENDS RuntimeView

StepNames == <<"a", "b", "b", "c">>

Wirings == {w \in [Node -> SUBSET Node] : \A n \in Node : w[n] \subseteq 1 .. (n - 1)}

\* Every combination of options that validate() accepts.
ViewsOf(froms, tos, prunes) ==
  {MakeView(o[1], o[2], o[3], o[4]) :
     o \in {p \in Wirings \X froms \X tos \X prunes : ValidOptions(p[1], p[2], p[3], p[4])}}

Steps == {StepOf[n] : n \in Node}

AtMostOne(S) == {{}} \cup {{s} : s \in S}

\* Every from, at most one step in to, and at most one pruned node.
AllViews == ViewsOf(SUBSET Steps, AtMostOne(Steps), AtMostOne(Node))
=============================================================================

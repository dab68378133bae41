------------------------- MODULE RuntimeViewProofs --------------------------
(***************************************************************************)
(* Proofs about RuntimeFlow and RuntimeView: every flow without loops, all *)
(* options, every run.                                                     *)
(***************************************************************************)
EXTENDS RuntimeView, FiniteSetTheorems, WellFoundedInduction, TLAPS

(* Well-foundedness and induction, for sets in place of predicates. *)
LEMMA LeastNat ==
  ASSUME NEW B \in SUBSET Nat, B # {}
  PROVE  \E k \in B : \A m \in B : k <= m
<1> DEFINE R == OpToRel(<, Nat)
<1>1. \E k \in B : \A m \in B : ~ (<<m, k>> \in R)
  BY NatLessThanWellFounded, WFMin
<1>2. \A k, m \in B : m < k => <<m, k>> \in R
  BY DEF OpToRel
<1> HIDE DEF R
<1>3. PICK k \in B : \A m \in B : ~ (<<m, k>> \in R)
  BY <1>1
<1>4. \A m \in B : k \in Nat /\ m \in Nat /\ ~ (m < k)
  BY <1>2, <1>3
<1> QED
  BY <1>4

(* Induction over the natural numbers. *)
LEMMA NatSet ==
  ASSUME NEW G \in SUBSET Nat, 0 \in G, \A k \in G : k + 1 \in G
  PROVE  G = Nat
<1> DEFINE B == Nat \ G
<1> SUFFICES ASSUME B # {} PROVE FALSE
  OBVIOUS
<1>1. B \in SUBSET Nat
  OBVIOUS
<1>2. PICK k \in B : \A m \in B : k <= m
  BY <1>1, LeastNat
<1>3. k \in Nat /\ k # 0 /\ k - 1 \in Nat /\ k - 1 + 1 = k /\ ~ (k <= k - 1)
  BY <1>2
<1>4. k - 1 \in G
  BY <1>2, <1>3
<1> QED
  BY <1>2, <1>3, <1>4


(* Up from the first node: what holds of a node when it does of all smaller ones. *)
LEMMA NodesUp ==
  ASSUME NEW G \in SUBSET Nat,
         \A n \in Node : (\A m \in Node : m < n => m \in G) => n \in G
  PROVE  Node \subseteq G
<1> SUFFICES ASSUME Node \ G # {} PROVE FALSE
  OBVIOUS
<1>1. Node \ G \in SUBSET Nat
  BY Assumptions DEF Node
<1>2. PICK n \in Node \ G : \A m \in Node \ G : n <= m
  BY <1>1, LeastNat
<1>3. n \in Nat /\ \A m \in Node : m \in Nat
  BY <1>1, Assumptions DEF Node
<1> QED
  BY <1>2, <1>3

(* Down from the last. *)
LEMMA NodesDown ==
  ASSUME NEW G \in SUBSET Nat,
         \A n \in Node : (\A m \in Node : m > n => m \in G) => n \in G
  PROVE  Node \subseteq G
<1> DEFINE H == {k \in Nat : k <= N => N - k \notin Node \/ N - k \in G}
           B == Nat \ H
<1> SUFFICES ASSUME B # {} PROVE FALSE
  <2>1. H = Nat
    OBVIOUS
  <2>2. ASSUME NEW n \in Node PROVE n \in G
    <3>1. N - n \in Nat /\ N - n <= N /\ N - (N - n) = n
      BY <2>2, Assumptions DEF Node
    <3> QED
      BY <2>1, <2>2, <3>1
  <2> QED
    BY <2>2
<1>1. B \in SUBSET Nat
  OBVIOUS
<1>2. PICK k \in B : \A m \in B : k <= m
  BY <1>1, LeastNat
<1>3. k \in Nat /\ k <= N /\ N - k \in Node /\ N - k \notin G
  BY <1>2
<1>4. ASSUME NEW m \in Node, m > N - k PROVE m \in G
  <2>1. N - m \in Nat /\ N - m <= N /\ N - (N - m) = m /\ N - m < k
    BY <1>3, <1>4, Assumptions DEF Node
  <2>2. N - m \notin B
    BY <1>2, <1>3, <2>1
  <2> QED
    BY <1>4, <2>1, <2>2
<1> QED
  BY <1>3, <1>4

-----------------------------------------------------------------------------
(***************************************************************************)
(* The walks and the inputs are functions: at every node they are what the *)
(* code computes from their values at the nodes above it, or below.        *)
(***************************************************************************)
WalkBackAt(v, start, f, n) ==
  IF n \in v.prune THEN {}
  ELSE IF n \in start THEN {n}
  ELSE LET paths == UNION {f[i] : i \in v.in[n]}
       IN  IF paths = {} THEN {} ELSE {n} \cup paths

(* The walk back from a node is made of the walks from its inputs. *)
LEMMA WalkBackUnfolds ==
  ASSUME NEW v, IsView(v), NEW start
  PROVE  \A n \in Node : WalkBack(v, start)[n] = WalkBackAt(v, start, WalkBack(v, start), n)
<1> DEFINE Good(k) == \E f : f = [n \in 1 .. k |-> WalkBackAt(v, start, f, n)]
<1>1. Good(0)
  <2> DEFINE f == [n \in 1 .. 0 |-> {}]
  <2>1. f = [n \in 1 .. 0 |-> WalkBackAt(v, start, f, n)]
    OBVIOUS
  <2> QED
    BY <2>1
<1>2. ASSUME NEW k \in Nat, k + 1 <= N, Good(k) PROVE Good(k + 1)
  <2>1. PICK f : f = [n \in 1 .. k |-> WalkBackAt(v, start, f, n)]
    BY <1>2
  <2> DEFINE h == [n \in 1 .. (k + 1) |-> WalkBackAt(v, start, f, n)]
  <2>2. \A n \in 1 .. k : h[n] = f[n]
    <3>1. \A n \in 1 .. k : n \in 1 .. (k + 1) /\ f[n] = WalkBackAt(v, start, f, n)
      BY <2>1
    <3> QED
      BY <3>1
  <2> HIDE DEF h
  <2>3. ASSUME NEW n \in 1 .. (k + 1) PROVE WalkBackAt(v, start, h, n) = WalkBackAt(v, start, f, n)
    <3>1. n \in Node /\ \A i \in v.in[n] : i \in 1 .. k
      BY <1>2, Assumptions DEF IsView, Node
    <3>2. \A i \in v.in[n] : h[i] = f[i]
      BY <2>2, <3>1
    <3>3. {h[i] : i \in v.in[n]} = {f[i] : i \in v.in[n]}
      BY <3>2
    <3> QED
      BY <3>3 DEF WalkBackAt
  <2>4. h = [n \in 1 .. (k + 1) |-> WalkBackAt(v, start, h, n)]
    BY <2>3 DEF h
  <2> QED
    BY <2>4
<1>3. Good(N)
  <2> DEFINE G == {k \in Nat : k <= N => Good(k)}
  <2> HIDE DEF Good
  <2>1. G \in SUBSET Nat /\ 0 \in G /\ \A k \in G : k + 1 \in G
    BY <1>1, <1>2, Assumptions
  <2> HIDE DEF G
  <2>2. G = Nat
    BY <2>1, NatSet
  <2> QED
    BY <2>2, Assumptions DEF G
<1> DEFINE walk == CHOOSE f : f = [n \in Node |-> WalkBackAt(v, start, f, n)]
<1>4. WalkBack(v, start) = walk
  BY Zenon DEF WalkBack, WalkBackAt
<1>5. walk = [n \in Node |-> WalkBackAt(v, start, walk, n)]
  BY <1>3 DEF Node
<1> HIDE DEF walk
<1>6. \A n \in Node : [i \in Node |-> WalkBackAt(v, start, walk, i)][n] = WalkBackAt(v, start, walk, n)
  OBVIOUS
<1> QED
  BY <1>4, <1>5, <1>6

WalkForwardAt(v, stop, f, n) ==
  IF n \in v.prune THEN {}
  ELSE IF n \in stop THEN {n}
  ELSE LET paths == UNION {f[m] : m \in NodeOutputs(v.in)[n]}
       IN  IF paths = {} THEN {} ELSE {n} \cup paths

(* The walk forward from a node is made of the walks from its outputs. *)
LEMMA WalkForwardUnfolds ==
  ASSUME NEW v, IsView(v), NEW stop
  PROVE  \A n \in Node : WalkForward(v, stop)[n] = WalkForwardAt(v, stop, WalkForward(v, stop), n)
<1> DEFINE Good(k) == \E f : f = [n \in (N - k + 1) .. N |-> WalkForwardAt(v, stop, f, n)]
<1>1. Good(0)
  <2> DEFINE f == [n \in (N - 0 + 1) .. N |-> {}]
  <2>1. f = [n \in (N - 0 + 1) .. N |-> WalkForwardAt(v, stop, f, n)]
    BY Assumptions
  <2> QED
    BY <2>1
<1>2. ASSUME NEW k \in Nat, k + 1 <= N, Good(k) PROVE Good(k + 1)
  <2>1. PICK f : f = [n \in (N - k + 1) .. N |-> WalkForwardAt(v, stop, f, n)]
    BY <1>2
  <2> DEFINE h == [n \in (N - (k + 1) + 1) .. N |-> WalkForwardAt(v, stop, f, n)]
  <2>2. \A n \in (N - k + 1) .. N : h[n] = f[n]
    <3>1. \A n \in (N - k + 1) .. N : n \in (N - (k + 1) + 1) .. N
      BY <1>2, Assumptions
    <3>2. \A n \in (N - k + 1) .. N : f[n] = WalkForwardAt(v, stop, f, n)
      BY <2>1
    <3> QED
      BY <3>1, <3>2
  <2> HIDE DEF h
  <2>3. ASSUME NEW n \in (N - (k + 1) + 1) .. N
        PROVE  WalkForwardAt(v, stop, h, n) = WalkForwardAt(v, stop, f, n)
    <3>1. n \in Node /\ \A m \in NodeOutputs(v.in)[n] : m \in (N - k + 1) .. N
      <4>1. n \in Node /\ n \in Nat /\ N - k <= n /\ N \in Nat
        BY <1>2, <2>3, Assumptions DEF Node
      <4>2. \A m \in Node : m \in Nat /\ m <= N /\ (n \in v.in[m] => n <= m - 1)
        BY <4>1 DEF IsView, Node
      <4>3. NodeOutputs(v.in)[n] = {m \in Node : n \in v.in[m]}
        BY <4>1 DEF NodeOutputs, IsView
      <4>4. ASSUME NEW m \in NodeOutputs(v.in)[n] PROVE m \in (N - k + 1) .. N
        <5>1. m \in Nat /\ m <= N /\ n <= m - 1
          BY <4>2, <4>3
        <5> HIDE <1>2
        <5> QED
          BY <4>1, <5>1
      <4> QED
        BY <4>1, <4>4
    <3>2. \A m \in NodeOutputs(v.in)[n] : h[m] = f[m]
      BY <2>2, <3>1
    <3>3. {h[m] : m \in NodeOutputs(v.in)[n]} = {f[m] : m \in NodeOutputs(v.in)[n]}
      BY <3>2
    <3> QED
      BY <3>3 DEF WalkForwardAt
  <2>4. h = [n \in (N - (k + 1) + 1) .. N |-> WalkForwardAt(v, stop, h, n)]
    BY <2>3 DEF h
  <2> QED
    BY <2>4
<1>3. Good(N)
  <2> DEFINE G == {k \in Nat : k <= N => Good(k)}
  <2> HIDE DEF Good
  <2>1. G \in SUBSET Nat /\ 0 \in G /\ \A k \in G : k + 1 \in G
    BY <1>1, <1>2, Assumptions
  <2> HIDE DEF G
  <2>2. G = Nat
    BY <2>1, NatSet
  <2> QED
    BY <2>2, Assumptions DEF G
<1> DEFINE walk == CHOOSE f : f = [n \in Node |-> WalkForwardAt(v, stop, f, n)]
<1>4. WalkForward(v, stop) = walk
  BY Zenon DEF WalkForward, WalkForwardAt
<1>5. walk = [n \in Node |-> WalkForwardAt(v, stop, walk, n)]
  <2>1. N - N + 1 = 1
    BY Assumptions
  <2> QED
    BY <1>3, <2>1 DEF Node
<1> HIDE DEF walk
<1>6. \A n \in Node : [i \in Node |-> WalkForwardAt(v, stop, walk, i)][n] = WalkForwardAt(v, stop, walk, n)
  OBVIOUS
<1> QED
  BY <1>4, <1>5, <1>6

NodeInputsAt(v, s, f, n) ==
  UNION {IF s[i] # SKIPPED THEN {i}
         ELSE IF i \in RuntimeNodes(v) THEN f[i] ELSE v.in[i] \ v.prune : i \in v.in[n] \ v.prune}

(* The inputs of a node are made of its own and of those of skipped ones. *)
LEMMA NodeInputsUnfolds ==
  ASSUME NEW v, IsView(v), NEW s
  PROVE  \A n \in Node : NodeInputs(v, s)[n] = NodeInputsAt(v, s, NodeInputs(v, s), n)
<1> DEFINE Good(k) == \E f : f = [n \in 1 .. k |-> NodeInputsAt(v, s, f, n)]
<1>1. Good(0)
  <2> DEFINE f == [n \in 1 .. 0 |-> {}]
  <2>1. f = [n \in 1 .. 0 |-> NodeInputsAt(v, s, f, n)]
    OBVIOUS
  <2> QED
    BY <2>1
<1>2. ASSUME NEW k \in Nat, k + 1 <= N, Good(k) PROVE Good(k + 1)
  <2>1. PICK f : f = [n \in 1 .. k |-> NodeInputsAt(v, s, f, n)]
    BY <1>2
  <2> DEFINE h == [n \in 1 .. (k + 1) |-> NodeInputsAt(v, s, f, n)]
  <2>2. \A n \in 1 .. k : h[n] = f[n]
    <3>1. \A n \in 1 .. k : n \in 1 .. (k + 1) /\ f[n] = NodeInputsAt(v, s, f, n)
      BY <2>1
    <3> QED
      BY <3>1
  <2> HIDE DEF h
  <2>3. ASSUME NEW n \in 1 .. (k + 1) PROVE NodeInputsAt(v, s, h, n) = NodeInputsAt(v, s, f, n)
    <3>1. n \in Node /\ \A i \in v.in[n] : i \in 1 .. k
      BY <1>2, Assumptions DEF IsView, Node
    <3>2. \A i \in v.in[n] : h[i] = f[i]
      BY <2>2, <3>1
    <3> DEFINE Of(g, i) == IF s[i] # SKIPPED THEN {i}
                           ELSE IF i \in RuntimeNodes(v) THEN g[i] ELSE v.in[i] \ v.prune
    <3>3. \A i \in v.in[n] : Of(h, i) = Of(f, i)
      BY <3>2
    <3>4. {Of(h, i) : i \in v.in[n] \ v.prune} = {Of(f, i) : i \in v.in[n] \ v.prune}
      <4> HIDE DEF Of
      <4> QED
        BY <3>3
    <3> QED
      BY <3>4 DEF NodeInputsAt
  <2>4. h = [n \in 1 .. (k + 1) |-> NodeInputsAt(v, s, h, n)]
    BY <2>3 DEF h
  <2> QED
    BY <2>4
<1>3. Good(N)
  <2> DEFINE G == {k \in Nat : k <= N => Good(k)}
  <2> HIDE DEF Good
  <2>1. G \in SUBSET Nat /\ 0 \in G /\ \A k \in G : k + 1 \in G
    BY <1>1, <1>2, Assumptions
  <2> HIDE DEF G
  <2>2. G = Nat
    BY <2>1, NatSet
  <2> QED
    BY <2>2, Assumptions DEF G
<1> DEFINE inputs == CHOOSE f : f = [n \in Node |-> NodeInputsAt(v, s, f, n)]
<1>4. NodeInputs(v, s) = inputs
  BY Zenon DEF NodeInputs, NodeInputsAt
<1>5. inputs = [n \in Node |-> NodeInputsAt(v, s, inputs, n)]
  BY <1>3 DEF Node
<1> HIDE DEF inputs
<1>6. \A n \in Node : [i \in Node |-> NodeInputsAt(v, s, inputs, i)][n] = NodeInputsAt(v, s, inputs, n)
  OBVIOUS
<1> QED
  BY <1>4, <1>5, <1>6

-----------------------------------------------------------------------------
(***************************************************************************)
(* get_execution_order() of a flow whose nodes are numbered in an order of *)
(* execution.  First: the recursion of Levels is a function.               *)
(***************************************************************************)
Ordered(in) == in \in [Node -> SUBSET Node] /\ \A n \in Node : in[n] \subseteq 1 .. (n - 1)

LevelsFrom(in, g, k) ==
  IF k = 0 THEN [level |-> EntryNodes(in), visited |-> {}] ELSE NextLevel(in, g[k - 1])

(* Every level is computed from the one before. *)
LEMMA LevelsAreDefined ==
  ASSUME NEW in, Ordered(in)
  PROVE  /\ DOMAIN Levels(in) = 0 .. 2 * N
         /\ \A k \in 0 .. 2 * N : Levels(in)[k] = LevelsFrom(in, Levels(in), k)
<1> DEFINE Good(k) == \E g : g = [j \in 0 .. k |-> LevelsFrom(in, g, j)]
<1>1. 2 * N \in Nat /\ 2 * Cardinality(DOMAIN in) = 2 * N
  <2>1. Cardinality(1 .. N) = N
    BY Assumptions, FS_Interval
  <2> QED
    BY <2>1, Assumptions DEF Ordered, Node
<1>2. Good(0)
  <2> DEFINE g == [j \in 0 .. 0 |-> [level |-> EntryNodes(in), visited |-> {}]]
  <2>1. g = [j \in 0 .. 0 |-> LevelsFrom(in, g, j)]
    BY DEF LevelsFrom
  <2> QED
    BY <2>1
<1>3. ASSUME NEW k \in Nat, Good(k) PROVE Good(k + 1)
  <2>1. PICK g : g = [j \in 0 .. k |-> LevelsFrom(in, g, j)]
    BY <1>3
  <2> DEFINE h == [j \in 0 .. (k + 1) |-> LevelsFrom(in, g, j)]
  <2>2. \A j \in 0 .. k : h[j] = g[j]
    BY <2>1
  <2>3. ASSUME NEW j \in 0 .. (k + 1) PROVE LevelsFrom(in, h, j) = LevelsFrom(in, g, j)
    <3>1. j # 0 => h[j - 1] = g[j - 1]
      BY <2>2
    <3> HIDE DEF h
    <3> QED
      BY <3>1 DEF LevelsFrom
  <2>4. h = [j \in 0 .. (k + 1) |-> LevelsFrom(in, h, j)]
    BY <2>3
  <2> QED
    BY <2>4
<1>4. \A k \in Nat : Good(k)
  <2> DEFINE G == {k \in Nat : Good(k)}
  <2> HIDE DEF Good
  <2>1. G \in SUBSET Nat /\ 0 \in G /\ \A k \in G : k + 1 \in G
    BY <1>2, <1>3
  <2> HIDE DEF G
  <2>2. G = Nat
    BY <2>1, NatSet
  <2> QED
    BY <2>2 DEF G
<1> DEFINE levels == CHOOSE g : g = [k \in 0 .. 2 * Cardinality(DOMAIN in) |-> LevelsFrom(in, g, k)]
<1>5. Levels(in) = levels
  BY Zenon DEF Levels, LevelsFrom
<1>6. levels = [k \in 0 .. 2 * N |-> LevelsFrom(in, levels, k)]
  <2>1. \E g : g = [k \in 0 .. 2 * N |-> LevelsFrom(in, g, k)]
    BY <1>1, <1>4
  <2> QED
    BY <1>1, <2>1
<1> HIDE DEF levels
<1>7. \A k \in 0 .. 2 * N : [j \in 0 .. 2 * N |-> LevelsFrom(in, levels, j)][k] = LevelsFrom(in, levels, k)
  OBVIOUS
<1> QED
  BY <1>5, <1>6, <1>7

(* The first level, and every later one from the level before. *)
LEMMA LevelsUnfold ==
  ASSUME NEW in, Ordered(in)
  PROVE  /\ Levels(in)[0] = [level |-> EntryNodes(in), visited |-> {}]
         /\ \A k \in Nat : k + 1 <= 2 * N => Levels(in)[k + 1] = NextLevel(in, Levels(in)[k])
<1>1. 0 \in 0 .. 2 * N
  BY Assumptions
<1>2. ASSUME NEW k \in Nat, k + 1 <= 2 * N
      PROVE  k + 1 \in 0 .. 2 * N /\ k + 1 # 0 /\ (k + 1) - 1 = k
  BY <1>2, Assumptions
<1>3. /\ LevelsFrom(in, Levels(in), 0) = [level |-> EntryNodes(in), visited |-> {}]
      /\ \A k \in Nat : k + 1 # 0 /\ (k + 1) - 1 = k =>
           LevelsFrom(in, Levels(in), k + 1) = NextLevel(in, Levels(in)[k])
  BY DEF LevelsFrom
<1> QED
  BY <1>1, <1>2, <1>3, LevelsAreDefined

(***************************************************************************)
(* What the loop keeps: a node waits on a level from the first visit of    *)
(* one of its inputs to its own, which comes when all of them have been    *)
(* visited.                                                                *)
(***************************************************************************)
LevelInv(in, at) ==
  /\ at.level \subseteq Node /\ at.visited \subseteq Node
  /\ at.level \cap at.visited = {}
  /\ \A n \in at.visited : in[n] \subseteq at.visited
  /\ \A n \in Node \ at.visited : in[n] = {} \/ in[n] \cap at.visited # {} => n \in at.level

(* A level keeps it. *)
LEMMA NextLevelInv ==
  ASSUME NEW in, NEW at, LevelInv(in, at), Ordered(in)
  PROVE  LevelInv(in, NextLevel(in, at))
<1> DEFINE valid == {n \in at.level : in[n] \subseteq at.visited}
           L == (at.level \ valid) \cup UNION {NodeOutputs(in)[n] : n \in valid \ at.visited}
           V == at.visited \cup valid
<1>1. NextLevel(in, at) = [level |-> L, visited |-> V]
  BY DEF NextLevel
<1>2. \A m : m \in L <=> \/ m \in at.level /\ m \notin valid
                         \/ m \in Node /\ \E n \in valid : n \in in[m]
  <2>1. valid \ at.visited = valid /\ valid \subseteq Node
    BY DEF LevelInv
  <2>2. \A n \in valid : NodeOutputs(in)[n] = {m \in Node : n \in in[m]}
    BY <2>1 DEF NodeOutputs, Ordered
  <2> HIDE DEF valid
  <2> QED
    BY <2>1, <2>2
<1>3. L \subseteq Node /\ V \subseteq Node
  BY <1>2 DEF LevelInv
<1>4. L \cap V = {}
  BY <1>2 DEF LevelInv
<1>5. \A n \in V : in[n] \subseteq V
  BY DEF LevelInv
<1>6. \A n \in Node \ V : in[n] = {} \/ in[n] \cap V # {} => n \in L
  BY <1>2 DEF LevelInv
<1> HIDE DEF L, V
<1> QED
  BY <1>1, <1>3, <1>4, <1>5, <1>6 DEF LevelInv

(* So it holds of every level, and level k has visited the nodes 1 .. k. *)
LEMMA LevelsKeep ==
  ASSUME NEW in, Ordered(in)
  PROVE  \A k \in 0 .. 2 * N : /\ LevelInv(in, Levels(in)[k])
                               /\ \A n \in Node : n <= k => n \in Levels(in)[k].visited
<1> DEFINE Good(k) == /\ LevelInv(in, Levels(in)[k])
                      /\ \A n \in Node : n <= k => n \in Levels(in)[k].visited
           G == {k \in Nat : k <= 2 * N => Good(k)}
<1>1. G \in SUBSET Nat
  OBVIOUS
<1>2. 0 \in G
  <2>1. LevelInv(in, [level |-> EntryNodes(in), visited |-> {}])
    BY DEF LevelInv, EntryNodes, Ordered
  <2>2. \A n \in Node : ~ (n <= 0)
    BY Assumptions DEF Node
  <2> QED
    BY <2>1, <2>2, LevelsUnfold
<1>3. ASSUME NEW k \in G PROVE k + 1 \in G
  <2> SUFFICES ASSUME k + 1 <= 2 * N PROVE Good(k + 1)
    OBVIOUS
  <2>1. k \in Nat /\ k <= 2 * N
    BY Assumptions
  <2>2. Good(k)
    BY <1>3, <2>1
  <2>3. Levels(in)[k + 1] = NextLevel(in, Levels(in)[k])
    BY <2>1, LevelsUnfold
  <2>4. LevelInv(in, Levels(in)[k + 1])
    BY <2>2, <2>3, NextLevelInv
  <2>5. Levels(in)[k + 1].visited =
          Levels(in)[k].visited \cup {n \in Levels(in)[k].level : in[n] \subseteq Levels(in)[k].visited}
    BY <2>3 DEF NextLevel
  <2>6. ASSUME NEW n \in Node, n <= k + 1 PROVE n \in Levels(in)[k + 1].visited
    <3>1. n \in Nat /\ \A i \in in[n] : i \in Node /\ i <= k
      BY <2>1, <2>6, Assumptions DEF Ordered, Node
    <3>2. in[n] \subseteq Levels(in)[k].visited
      BY <2>2, <3>1
    <3>3. n \in Levels(in)[k].visited \/ n \in Levels(in)[k].level
      BY <2>2, <3>2 DEF LevelInv
    <3> QED
      BY <2>5, <3>2, <3>3
  <2> QED
    BY <2>4, <2>6
<1> HIDE DEF G
<1>4. G = Nat
  BY <1>1, <1>2, <1>3, NatSet
<1> QED
  BY <1>4, Assumptions DEF G

(* A node that has been visited is on no later level. *)
LEMMA VisitedStay ==
  ASSUME NEW in, Ordered(in), NEW k \in 0 .. 2 * N, NEW n \in Levels(in)[k].visited
  PROVE  \A j \in k .. 2 * N : n \in Levels(in)[j].visited /\ n \notin Levels(in)[j].level
<1> DEFINE G == {j \in Nat : k <= j /\ j <= 2 * N => n \in Levels(in)[j].visited}
<1>1. k \in Nat /\ 2 * N \in Nat
  BY Assumptions
<1>2. G \in SUBSET Nat
  OBVIOUS
<1>3. 0 \in G
  BY <1>1
<1>4. ASSUME NEW j \in G PROVE j + 1 \in G
  <2> SUFFICES ASSUME k <= j + 1, j + 1 <= 2 * N PROVE n \in Levels(in)[j + 1].visited
    BY <1>1
  <2>1. CASE k = j + 1
    BY <2>1
  <2>2. CASE k # j + 1
    <3>1. k <= j /\ j <= 2 * N /\ j \in Nat
      BY <1>1, <2>2
    <3>2. n \in Levels(in)[j].visited
      BY <1>4, <3>1
    <3>3. Levels(in)[j + 1] = NextLevel(in, Levels(in)[j])
      BY <3>1, LevelsUnfold
    <3> QED
      BY <3>2, <3>3 DEF NextLevel
  <2> QED
    BY <2>1, <2>2
<1> HIDE DEF G
<1>5. G = Nat
  BY <1>2, <1>3, <1>4, NatSet
<1>6. ASSUME NEW j \in k .. 2 * N PROVE n \in Levels(in)[j].visited
  BY <1>1, <1>5 DEF G
<1>7. \A j \in k .. 2 * N : LevelInv(in, Levels(in)[j])
  BY <1>1, LevelsKeep
<1> QED
  BY <1>6, <1>7 DEF LevelInv

(* Every node has a level that is its last, on which its inputs have been visited. *)
LEMMA LastLevelOf ==
  ASSUME NEW in, Ordered(in), NEW n \in Node
  PROVE  \E k \in 0 .. 2 * N :
           /\ n \in Levels(in)[k].level /\ in[n] \subseteq Levels(in)[k].visited
           /\ \A j \in (k + 1) .. 2 * N : n \notin Levels(in)[j].level
<1> DEFINE B == {k \in Nat : k <= 2 * N /\ n \in Levels(in)[k].visited}
<1>1. B \in SUBSET Nat /\ B # {}
  <2>1. n \in 0 .. 2 * N /\ n <= n
    BY Assumptions DEF Node
  <2> QED
    BY <2>1, LevelsKeep
<1> HIDE DEF B
<1>2. PICK b \in B : \A k \in B : b <= k
  BY <1>1, LeastNat
<1>3. b \in Nat /\ b <= 2 * N /\ n \in Levels(in)[b].visited /\ 2 * N \in Nat
  BY Assumptions DEF B
<1>4. b # 0
  <2>1. Levels(in)[0] = [level |-> EntryNodes(in), visited |-> {}]
    BY LevelsUnfold
  <2> QED
    BY <1>3, <2>1
<1> DEFINE k == b - 1
<1>5. k \in Nat /\ k + 1 = b /\ k <= 2 * N /\ ~ (b <= k)
  BY <1>3, <1>4
<1> HIDE DEF k
<1>6. n \notin Levels(in)[k].visited
  BY <1>2, <1>5 DEF B
<1>7. Levels(in)[b] = NextLevel(in, Levels(in)[k])
  BY <1>3, <1>5, LevelsUnfold
<1>8. n \in Levels(in)[k].level /\ in[n] \subseteq Levels(in)[k].visited
  BY <1>3, <1>6, <1>7 DEF NextLevel
<1>9. \A j \in b .. 2 * N : n \notin Levels(in)[j].level
  BY <1>3, VisitedStay
<1> QED
  BY <1>3, <1>5, <1>8, <1>9

(* The order lists every node once, after its inputs; here with a set of   *)
(* nodes taken out, as a view does.                                        *)
LEMMA OrderOfAPart ==
  ASSUME NEW in, Ordered(in), NEW R \in SUBSET Node
  PROVE  IsExecutionOrder([n \in R |-> in[n] \cap R],
           [k \in DOMAIN ExecutionOrder(in) |-> ExecutionOrder(in)[k] \cap R])
<1> DEFINE order == [k \in DOMAIN ExecutionOrder(in) |-> ExecutionOrder(in)[k] \cap R]
           at(n) == {k \in DOMAIN order : n \in order[k]}
           part == [n \in R |-> in[n] \cap R]
<1>1. DOMAIN Levels(in) = 0 .. 2 * N /\ 2 * N \in Nat
  BY LevelsAreDefined, Assumptions
<1>2. /\ DOMAIN order = 0 .. 2 * N
      /\ \A n : \A k \in 0 .. 2 * N :
           n \in order[k] <=> /\ n \in R /\ n \in Levels(in)[k].level
                              /\ \A j \in 0 .. 2 * N : j > k => n \notin Levels(in)[j].level
  BY <1>1 DEF ExecutionOrder
<1> HIDE DEF order
<1>3. ASSUME NEW n \in R
      PROVE  /\ Cardinality(at(n)) = 1
             /\ \A i \in in[n] \cap R : \A k \in at(n), j \in DOMAIN order : i \in order[j] => j < k
  <2>1. PICK k \in 0 .. 2 * N :
           /\ n \in Levels(in)[k].level /\ in[n] \subseteq Levels(in)[k].visited
           /\ \A j \in (k + 1) .. 2 * N : n \notin Levels(in)[j].level
    BY LastLevelOf
  <2>2. \A j \in 0 .. 2 * N : j > k => n \notin Levels(in)[j].level
    BY <1>1, <2>1
  <2>3. n \in order[k]
    BY <1>2, <2>1, <2>2
  <2>4. ASSUME NEW j \in 0 .. 2 * N, n \in order[j] PROVE j = k
    <3>1. ~ (j > k) /\ ~ (k > j)
      BY <1>2, <2>1, <2>2, <2>4
    <3> QED
      BY <1>1, <3>1
  <2>5. at(n) = {k}
    BY <1>2, <2>3, <2>4
  <2>6. ASSUME NEW i \in in[n], NEW j \in 0 .. 2 * N, i \in order[j] PROVE j < k
    <3>1. \A l \in k .. 2 * N : i \notin Levels(in)[l].level
      BY <2>1, VisitedStay
    <3>2. i \in Levels(in)[j].level
      BY <1>2, <2>6
    <3>3. ~ (k <= j)
      BY <1>1, <3>1, <3>2
    <3> QED
      BY <1>1, <3>3
  <2>7. Cardinality(at(n)) = 1
    BY <2>5, FS_Singleton
  <2> HIDE DEF at
  <2> QED
    BY <1>2, <2>5, <2>6, <2>7
<1>4. DOMAIN part = R /\ \A n \in R : part[n] = in[n] \cap R
  OBVIOUS
<1> HIDE DEF part
<1> QED
  BY <1>3, <1>4 DEF IsExecutionOrder, order

-----------------------------------------------------------------------------
(* The cone of a node is the node and the cones of its inputs. *)
LEMMA ConeUnfolds ==
  ASSUME NEW in, NEW n \in DOMAIN in
  PROVE  Cone(in, n) = {n} \cup UNION {Cone(in, i) : i \in in[n] \cap DOMAIN in}
<1> DEFINE T == {n} \cup UNION {Cone(in, i) : i \in in[n] \cap DOMAIN in}
<1>1. T \in SUBSET (DOMAIN in) /\ n \in T
  BY DEF Cone
<1>2. SelfFed(in, T)
  <2> SUFFICES ASSUME NEW m \in T, NEW j \in in[m] \cap DOMAIN in PROVE j \in T
    BY DEF SelfFed
  <2>1. CASE m = n
    BY <2>1 DEF Cone
  <2>2. ASSUME NEW i \in in[n] \cap DOMAIN in, m \in Cone(in, i) PROVE j \in Cone(in, i)
    BY <2>2 DEF Cone, SelfFed
  <2> QED
    BY <2>1, <2>2
<1>3. ASSUME NEW m \in T, NEW S \in SUBSET (DOMAIN in), n \in S, SelfFed(in, S) PROVE m \in S
  <2>1. \A i \in in[n] \cap DOMAIN in : i \in S
    BY <1>3 DEF SelfFed
  <2> QED
    BY <1>3, <2>1 DEF Cone
<1> HIDE DEF T
<1>4. Cone(in, n) \subseteq T
  BY <1>1, <1>2 DEF Cone
<1>5. T \subseteq Cone(in, n)
  BY <1>1, <1>3 DEF Cone
<1> QED
  BY <1>4, <1>5 DEF T

(* What is in the cone of a node has its cone in there too. *)
LEMMA ConeIsTransitive ==
  ASSUME NEW in, NEW n, NEW m \in Cone(in, n)
  PROVE  Cone(in, m) \subseteq Cone(in, n)
BY DEF Cone

(* What is in the cone of another node is an input of something in there. *)
LEMMA ConeHasOutput ==
  ASSUME NEW in, NEW t \in DOMAIN in, NEW m \in Cone(in, t), m # t
  PROVE  \E x \in Cone(in, t) : m \in in[x]
<1> SUFFICES ASSUME \A x \in Cone(in, t) : m \notin in[x] PROVE FALSE
  OBVIOUS
<1> DEFINE S == Cone(in, t) \ {m}
<1>1. S \in SUBSET (DOMAIN in) /\ t \in S
  BY DEF Cone
<1>2. SelfFed(in, S)
  <2>1. \A x \in Cone(in, t) : \A j \in in[x] \cap DOMAIN in : j \in Cone(in, t)
    BY DEF Cone, SelfFed
  <2> QED
    BY <2>1 DEF SelfFed
<1>3. m \in S
  BY <1>1, <1>2 DEF Cone
<1> QED
  BY <1>3

-----------------------------------------------------------------------------
(***************************************************************************)
(* The view.  Kept are the edges that neither touch a pruned node nor lead *)
(* into a node of from, live is a node that needs one of from.             *)
(***************************************************************************)
Kept(v) == [n \in Node \ v.prune |-> IF n \in v.from THEN {} ELSE v.in[n] \ v.prune]

Live(v) == {n \in Node \ v.prune : Cone(Kept(v), n) \cap v.from # {}}

(* A node is live when it is one of from or has a live input. *)
LEMMA LiveUnfolds ==
  ASSUME NEW v, IsView(v)
  PROVE  \A n \in Node \ v.prune :
           /\ n \in v.from => Kept(v)[n] = {}
           /\ n \notin v.from => Kept(v)[n] = v.in[n] \ v.prune
           /\ n \in Cone(Kept(v), n)
           /\ Cone(Kept(v), n) = {n} \cup UNION {Cone(Kept(v), i) : i \in Kept(v)[n]}
           /\ \A i \in Kept(v)[n] : i \in Node \ v.prune /\ Cone(Kept(v), i) \subseteq Cone(Kept(v), n)
           /\ n \in Live(v) <=> (n \in v.from \/ \E i \in Kept(v)[n] : i \in Live(v))
<1> SUFFICES ASSUME NEW n \in Node \ v.prune
             PROVE  /\ n \in v.from => Kept(v)[n] = {}
                    /\ n \notin v.from => Kept(v)[n] = v.in[n] \ v.prune
                    /\ n \in Cone(Kept(v), n)
                    /\ Cone(Kept(v), n) = {n} \cup UNION {Cone(Kept(v), i) : i \in Kept(v)[n]}
                    /\ \A i \in Kept(v)[n] : /\ i \in Node \ v.prune
                                             /\ Cone(Kept(v), i) \subseteq Cone(Kept(v), n)
                    /\ n \in Live(v) <=> (n \in v.from \/ \E i \in Kept(v)[n] : i \in Live(v))
  OBVIOUS
<1>1. DOMAIN Kept(v) = Node \ v.prune /\ Kept(v)[n] = (IF n \in v.from THEN {} ELSE v.in[n] \ v.prune)
  BY DEF Kept
<1>2. Kept(v)[n] \subseteq Node \ v.prune
  BY <1>1 DEF IsView
<1>3. Cone(Kept(v), n) = {n} \cup UNION {Cone(Kept(v), i) : i \in Kept(v)[n]}
  <2>1. Kept(v)[n] \cap DOMAIN Kept(v) = Kept(v)[n]
    BY <1>1, <1>2
  <2> QED
    BY <1>1, <2>1, ConeUnfolds
<1>4. n \in Live(v) <=> n \in v.from \/ \E i \in Kept(v)[n] : Cone(Kept(v), i) \cap v.from # {}
  BY <1>3 DEF Live
<1>5. n \in Live(v) <=> (n \in v.from \/ \E i \in Kept(v)[n] : i \in Live(v))
  BY <1>2, <1>4 DEF Live
<1>6. \A i \in Kept(v)[n] : Cone(Kept(v), i) \subseteq Cone(Kept(v), n)
  BY <1>3
<1> QED
  BY <1>1, <1>2, <1>3, <1>5, <1>6

(* A walk back collects the live nodes a node needs. *)
LEMMA WalkBackIsLive ==
  ASSUME NEW v, IsView(v)
  PROVE  \A n \in Node : WalkBack(v, v.from)[n] =
           IF n \in v.prune THEN {} ELSE Cone(Kept(v), n) \cap Live(v)
<1> DEFINE walk == WalkBack(v, v.from)
           Right(n) == walk[n] = IF n \in v.prune THEN {} ELSE Cone(Kept(v), n) \cap Live(v)
           G == {n \in Node : Right(n)}
<1>1. ASSUME NEW n \in Node, \A m \in Node : m < n => m \in G PROVE n \in G
  <2>1. walk[n] = WalkBackAt(v, v.from, walk, n)
    BY WalkBackUnfolds
  <2> HIDE DEF walk
  <2>2. CASE n \in v.prune
    BY <2>1, <2>2 DEF WalkBackAt
  <2>3. CASE n \in v.from /\ n \notin v.prune
    <3>1. n \in Live(v) /\ Kept(v)[n] = {} /\ Cone(Kept(v), n) = {n} \cup UNION {Cone(Kept(v), i) : i \in Kept(v)[n]}
      BY <2>3, LiveUnfolds
    <3>2. walk[n] = {n} /\ Cone(Kept(v), n) = {n}
      BY <2>1, <2>3, <3>1 DEF WalkBackAt
    <3> QED
      BY <2>3, <3>1, <3>2
  <2>4. CASE n \notin v.from /\ n \notin v.prune
    <3> DEFINE paths == UNION {walk[i] : i \in v.in[n]}
               cones == UNION {Cone(Kept(v), i) : i \in Kept(v)[n]}
    <3>1. walk[n] = IF paths = {} THEN {} ELSE {n} \cup paths
      BY <2>1, <2>4 DEF WalkBackAt
    <3>2. \A i \in v.in[n] : i \in Node /\ Right(i)
      <4>1. n \in Nat /\ \A i \in v.in[n] : i \in Node /\ i < n
        BY Assumptions DEF IsView, Node
      <4> QED
        BY <1>1, <4>1
    <3>3. Kept(v)[n] = v.in[n] \ v.prune /\ Cone(Kept(v), n) = {n} \cup cones
      BY <2>4, LiveUnfolds
    <3>4. paths = cones \cap Live(v)
      <4>1. \A m : m \in paths <=> \E i \in v.in[n] : i \notin v.prune /\ m \in Cone(Kept(v), i) /\ m \in Live(v)
        BY <3>2
      <4> QED
        BY <3>3, <4>1
    <3>5. n \in Live(v) <=> \E i \in Kept(v)[n] : i \in Live(v)
      BY <2>4, LiveUnfolds
    <3>6. (\E i \in Kept(v)[n] : i \in Live(v)) <=> cones \cap Live(v) # {}
      <4>1. \A i \in Kept(v)[n] : i \in Node \ v.prune
        BY <2>4, LiveUnfolds
      <4>2. \A i \in Kept(v)[n] : i \in Cone(Kept(v), i)
        BY <4>1, LiveUnfolds
      <4>3. ASSUME NEW i \in Kept(v)[n], NEW m \in Cone(Kept(v), i), m \in Live(v)
            PROVE  i \in Live(v)
        <5>1. Cone(Kept(v), m) \subseteq Cone(Kept(v), i)
          BY ConeIsTransitive
        <5> QED
          BY <4>1, <4>3, <5>1 DEF Live
      <4> QED
        BY <4>2, <4>3
    <3> HIDE DEF paths, cones
    <3>7. walk[n] = Cone(Kept(v), n) \cap Live(v)
      BY <3>1, <3>3, <3>4, <3>5, <3>6
    <3> QED
      BY <2>4, <3>7
  <2> QED
    BY <2>2, <2>3, <2>4
<1>2. G \in SUBSET Nat
  BY Assumptions DEF Node
<1> HIDE DEF G
<1>3. Node \subseteq G
  BY <1>1, <1>2, NodesUp
<1> QED
  BY <1>3 DEF G

(* The nodes of the view. *)
LEMMA NodesOfTheView ==
  ASSUME NEW v, IsView(v)
  PROVE  /\ RuntimeNodes(v) = {n \in Live(v) : \E t \in v.to : n \in Cone(Kept(v), t)}
         /\ RuntimeNodes(v) \subseteq Node \ v.prune
<1>1. \A t \in v.to : WalkBack(v, v.from)[t] = Cone(Kept(v), t) \cap Live(v)
  BY WalkBackIsLive DEF IsView
<1> QED
  BY <1>1 DEF RuntimeNodes, Live

(* It begins and ends at nodes of from and to. *)
LEMMA EndsOfTheView ==
  ASSUME NEW v, IsView(v)
  PROVE  LET R == RuntimeNodes(v)
         IN  /\ RuntimeEntry(v) = {n \in R : v.in[n] \cap R = {}}
             /\ RuntimeExit(v) = {n \in R : \A m \in R : n \notin v.in[m]}
             /\ \A n \in R : n \in v.from \/ \E i \in Kept(v)[n] : i \in R
<1> DEFINE R == RuntimeNodes(v)
<1>1. R = {n \in Live(v) : \E t \in v.to : n \in Cone(Kept(v), t)} /\ R \subseteq Node \ v.prune
  BY NodesOfTheView
<1>2. \A t \in v.to : t \in DOMAIN Kept(v)
  BY DEF IsView, Kept
<1> HIDE DEF R
<1>3. ASSUME NEW n \in R, n \notin v.from PROVE \E i \in Kept(v)[n] : i \in R
  <2>1. PICK t \in v.to : n \in Cone(Kept(v), t)
    BY <1>1
  <2>2. PICK i \in Kept(v)[n] : i \in Live(v)
    BY <1>1, <1>3, LiveUnfolds
  <2>3. i \in Cone(Kept(v), i) /\ Cone(Kept(v), i) \subseteq Cone(Kept(v), n)
    BY <1>1, LiveUnfolds
  <2>4. Cone(Kept(v), n) \subseteq Cone(Kept(v), t)
    BY <2>1, ConeIsTransitive
  <2> QED
    BY <1>1, <2>2, <2>3, <2>4
<1>4. ASSUME NEW n \in R, n \notin v.to PROVE \E m \in R : n \in v.in[m]
  <2>1. PICK t \in v.to : n \in Cone(Kept(v), t)
    BY <1>1
  <2>2. PICK x \in Cone(Kept(v), t) : n \in Kept(v)[x]
    BY <1>2, <1>4, <2>1, ConeHasOutput
  <2>3. x \in Node \ v.prune
    BY <2>2 DEF Cone, Kept
  <2>4. x \in Live(v) /\ n \in v.in[x]
    BY <1>1, <2>2, <2>3, LiveUnfolds
  <2> QED
    BY <1>1, <2>2, <2>4
<1>5. \A n \in R : n \notin v.from => \E i \in v.in[n] : i \in R
  BY <1>1, <1>3, LiveUnfolds
<1>6. \A n \in R : NodeOutputs(v.in)[n] = {m \in Node : n \in v.in[m]}
  BY <1>1 DEF NodeOutputs, IsView
<1>7. RuntimeEntry(v) = {n \in R : v.in[n] \cap R = {}}
  BY <1>5 DEF RuntimeEntry, R
<1>8. RuntimeExit(v) = {n \in R : \A m \in R : n \notin v.in[m]}
  BY <1>1, <1>4, <1>6 DEF RuntimeExit, R
<1> QED
  BY <1>3, <1>7, <1>8 DEF R

(* A run does not change its view. *)
LEMMA ViewStays == Spec => [](view \in Views /\ IsView(view))
<1>1. Init => view \in Views
  BY DEF Init
<1>2. view \in Views /\ [Next]_vars => (view \in Views)'
  BY DEF Next, Settle, vars
<1>3. view \in Views => view \in Views /\ IsView(view)
  BY ViewAssumptions
<1> QED
  BY <1>1, <1>2, <1>3, PTL DEF Spec

(***************************************************************************)
(* Whatever the flow and the options, the view is what lies between from   *)
(* and to, in an order it can be executed in, and begins and ends where it *)
(* says.                                                                   *)
(***************************************************************************)
THEOREM ViewsAreBetween == Spec => []ViewIsBetween
<1>1. ASSUME IsView(view) PROVE ViewIsBetween
  <2>1. /\ Runtime = {n \in Live(view) : \E t \in view.to : n \in Cone(Kept(view), t)}
        /\ Runtime \subseteq Node \ view.prune
    BY <1>1, NodesOfTheView DEF Runtime
  <2>2. Runtime = {n \in DOMAIN Kept(view) : /\ \E t \in view.to : n \in Cone(Kept(view), t)
                                             /\ Cone(Kept(view), n) \cap view.from # {}}
    BY <2>1 DEF Live, Kept
  <2>3. IsExecutionOrder(Inside, RuntimeOrder(view))
    <3>1. Ordered(view.in) /\ Runtime \in SUBSET Node
      BY <1>1, <2>1 DEF Ordered, IsView
    <3> QED
      BY <3>1, OrderOfAPart DEF Inside, RuntimeOrder, Runtime
  <2>4. DOMAIN Inside = Runtime /\ \A n \in Runtime : Inside[n] = view.in[n] \cap Runtime
    BY DEF Inside
  <2>5. RuntimeEntry(view) = EntryNodes(Inside)
    BY <1>1, <2>4, EndsOfTheView DEF EntryNodes, Runtime
  <2>6. RuntimeExit(view) = ExitNodes(Inside)
    BY <1>1, <2>4, EndsOfTheView DEF ExitNodes, Runtime
  <2> QED
    BY <2>2, <2>3, <2>5, <2>6 DEF ViewIsBetween, Kept
<1> QED
  BY <1>1, ViewStays, PTL

-----------------------------------------------------------------------------
(* A walk forward from a node: nothing, or the node and what its outputs find. *)
LEMMA StartingAtUnfolds ==
  ASSUME NEW v, IsView(v)
  PROVE  \A n \in Node :
           /\ n \in RuntimeExit(v) /\ n \notin v.prune => StartingAt(v, n) = {n}
           /\ n \in v.prune => StartingAt(v, n) = {}
           /\ n \notin RuntimeExit(v) =>
                \A m \in StartingAt(v, n) :
                  m = n \/ \E x \in Node : n \in v.in[x] /\ m \in StartingAt(v, x)
           /\ n \notin RuntimeExit(v) =>
                \A m \in StartingAt(v, n) : \E x \in Node : n \in v.in[x] /\ StartingAt(v, x) # {}
           /\ n \notin RuntimeExit(v) /\ n \notin v.prune =>
                \A x \in Node : n \in v.in[x] /\ StartingAt(v, x) # {} =>
                  n \in StartingAt(v, n) /\ StartingAt(v, x) \subseteq StartingAt(v, n)
           /\ \A m \in StartingAt(v, n) : n \in StartingAt(v, n)
<1> SUFFICES ASSUME NEW n \in Node
             PROVE  /\ n \in RuntimeExit(v) /\ n \notin v.prune => StartingAt(v, n) = {n}
                    /\ n \in v.prune => StartingAt(v, n) = {}
                    /\ n \notin RuntimeExit(v) =>
                         \A m \in StartingAt(v, n) :
                           m = n \/ \E x \in Node : n \in v.in[x] /\ m \in StartingAt(v, x)
                    /\ n \notin RuntimeExit(v) =>
                         \A m \in StartingAt(v, n) :
                           \E x \in Node : n \in v.in[x] /\ StartingAt(v, x) # {}
                    /\ n \notin RuntimeExit(v) /\ n \notin v.prune =>
                         \A x \in Node : n \in v.in[x] /\ StartingAt(v, x) # {} =>
                           n \in StartingAt(v, n) /\ StartingAt(v, x) \subseteq StartingAt(v, n)
                    /\ \A m \in StartingAt(v, n) : n \in StartingAt(v, n)
  OBVIOUS
<1> DEFINE walk == WalkForward(v, RuntimeExit(v))
           paths == UNION {walk[x] : x \in NodeOutputs(v.in)[n]}
<1>1. walk[n] = IF n \in v.prune THEN {}
                ELSE IF n \in RuntimeExit(v) THEN {n}
                ELSE IF paths = {} THEN {} ELSE {n} \cup paths
  <2>1. walk[n] = WalkForwardAt(v, RuntimeExit(v), walk, n)
    BY WalkForwardUnfolds
  <2> HIDE DEF walk
  <2> QED
    BY <2>1 DEF WalkForwardAt
<1>2. NodeOutputs(v.in)[n] = {x \in Node : n \in v.in[x]}
  BY DEF NodeOutputs, IsView
<1>3. \A x : StartingAt(v, x) = walk[x]
  BY DEF StartingAt
<1> HIDE DEF walk
<1>4. \A m : m \in paths <=> \E x \in Node : n \in v.in[x] /\ m \in StartingAt(v, x)
  BY <1>2, <1>3
<1> HIDE DEF paths
<1>5. StartingAt(v, n) = IF n \in v.prune THEN {}
                         ELSE IF n \in RuntimeExit(v) THEN {n}
                         ELSE IF paths = {} THEN {} ELSE {n} \cup paths
  BY <1>1, <1>3
<1>6. \A x \in Node : n \in v.in[x] => StartingAt(v, x) \subseteq paths
  BY <1>4
<1>7. paths # {} => \E x \in Node : n \in v.in[x] /\ StartingAt(v, x) # {}
  BY <1>4
<1>8. \A x \in Node : n \in v.in[x] /\ StartingAt(v, x) # {} => paths # {}
  BY <1>6
<1> QED
  BY <1>4, <1>5, <1>6, <1>7, <1>8

(* A node of the view finds itself, and what its outputs in the view find. *)
LEMMA StartingAtGrows ==
  ASSUME NEW v, IsView(v)
  PROVE  \A n \in RuntimeNodes(v) :
           /\ n \in StartingAt(v, n)
           /\ \A m \in RuntimeNodes(v) : n \in v.in[m] => StartingAt(v, m) \subseteq StartingAt(v, n)
<1> DEFINE R == RuntimeNodes(v)
           G == {n \in Node : n \in R => n \in StartingAt(v, n)}
<1>1. R \subseteq Node \ v.prune /\ RuntimeExit(v) = {n \in R : \A m \in R : n \notin v.in[m]}
  BY NodesOfTheView, EndsOfTheView
<1> HIDE DEF R
<1>2. ASSUME NEW n \in Node, \A m \in Node : m > n => m \in G PROVE n \in G
  <2> SUFFICES ASSUME n \in R PROVE n \in StartingAt(v, n)
    OBVIOUS
  <2>1. CASE n \in RuntimeExit(v)
    BY <1>1, <2>1, StartingAtUnfolds
  <2>2. CASE n \notin RuntimeExit(v)
    <3>1. PICK m \in R : n \in v.in[m]
      BY <1>1, <2>2
    <3>2. m \in Node /\ m > n
      BY <1>1, <3>1, Assumptions DEF IsView, Node
    <3>3. m \in StartingAt(v, m)
      BY <1>2, <3>1, <3>2
    <3> QED
      BY <1>1, <2>2, <3>1, <3>2, <3>3, StartingAtUnfolds
  <2> QED
    BY <2>1, <2>2
<1>3. G \in SUBSET Nat
  BY Assumptions DEF Node
<1> HIDE DEF G
<1>4. \A n \in R : n \in StartingAt(v, n)
  BY <1>1, <1>2, <1>3, NodesDown DEF G
<1>5. ASSUME NEW n \in R, NEW m \in R, n \in v.in[m]
      PROVE  StartingAt(v, m) \subseteq StartingAt(v, n)
  <2>1. n \notin RuntimeExit(v) /\ n \in Node /\ n \notin v.prune /\ m \in Node
    BY <1>1, <1>5
  <2>2. StartingAt(v, m) # {}
    BY <1>4
  <2> QED
    BY <1>5, <2>1, <2>2, StartingAtUnfolds
<1> QED
  BY <1>4, <1>5 DEF R

(* The cone of a node in the view is in its cone in the flow, which has no *)
(* larger node.                                                            *)
LEMMA ConesOfTheFlow ==
  ASSUME NEW v, IsView(v), NEW n \in Node \ v.prune
  PROVE  /\ Cone(Kept(v), n) \subseteq Cone(v.in, n)
         /\ \A m \in Cone(v.in, n) : m <= n
<1>1. ASSUME NEW m \in Cone(Kept(v), n) PROVE m \in Cone(v.in, n)
  <2> SUFFICES ASSUME NEW S \in SUBSET Node, n \in S, SelfFed(v.in, S) PROVE m \in S
    BY DEF Cone, Kept, IsView
  <2> DEFINE T == S \ v.prune
  <2>1. SelfFed(Kept(v), T)
    BY DEF SelfFed, Kept, IsView
  <2>2. T \in SUBSET (DOMAIN Kept(v)) /\ n \in T
    BY DEF Kept
  <2> HIDE DEF T
  <2>3. m \in T
    BY <2>1, <2>2 DEF Cone
  <2> QED
    BY <2>3 DEF T
<1>2. ASSUME NEW m \in Cone(v.in, n) PROVE m <= n
  <2> DEFINE S == {x \in Node : x <= n}
  <2>1. DOMAIN v.in = Node /\ n \in Nat
    BY Assumptions DEF IsView, Node
  <2>2. S \in SUBSET Node /\ n \in S
    BY <2>1
  <2>3. ASSUME NEW x \in S, NEW i \in v.in[x] PROVE i \in S
    <3>1. i \in Node /\ i < x
      BY <2>1, Assumptions DEF IsView, Node
    <3> QED
      BY <2>1, <3>1, Assumptions DEF Node
  <2>4. SelfFed(v.in, S)
    BY <2>3 DEF SelfFed
  <2> HIDE DEF S
  <2>5. m \in S
    BY <2>1, <2>2, <2>4 DEF Cone
  <2> QED
    BY <2>5 DEF S
<1> QED
  BY <1>1, <1>2

(* When no node of from depends on another, a walk from a live node does   *)
(* not leave the view.                                                     *)
LEMMA StartingAtStaysInside ==
  ASSUME NEW v, IsView(v), \A f \in v.from : Cone(v.in, f) \cap v.from = {f}
  PROVE  \A n \in Live(v) : StartingAt(v, n) \subseteq RuntimeNodes(v)
<1> DEFINE R == RuntimeNodes(v)
           G == {n \in Node : n \in Live(v) => StartingAt(v, n) \subseteq R}
<1>1. /\ R = {n \in Live(v) : \E t \in v.to : n \in Cone(Kept(v), t)}
      /\ RuntimeExit(v) \subseteq R /\ Live(v) \subseteq Node \ v.prune
  BY NodesOfTheView, EndsOfTheView DEF Live
<1> HIDE DEF R
<1>2. ASSUME NEW n \in Node, \A m \in Node : m > n => m \in G PROVE n \in G
  <2> SUFFICES ASSUME n \in Live(v), NEW m \in StartingAt(v, n) PROVE m \in R
    OBVIOUS
  <2>1. CASE n \in RuntimeExit(v)
    BY <1>1, <2>1, StartingAtUnfolds
  <2>2. CASE n \notin RuntimeExit(v)
    <3>1. ASSUME NEW x \in Node, n \in v.in[x], NEW y \in StartingAt(v, x)
          PROVE  x \in Live(v) /\ StartingAt(v, x) \subseteq R /\ x \in R
      <4>1. x \notin v.prune /\ x \in StartingAt(v, x)
        BY <3>1, StartingAtUnfolds
      <4>2. x \in Live(v)
        BY <1>1, <3>1, <4>1, LiveUnfolds
      <4>3. x > n
        BY <3>1, Assumptions DEF IsView, Node
      <4>4. StartingAt(v, x) \subseteq R
        BY <1>2, <4>2, <4>3
      <4> QED
        BY <4>1, <4>2, <4>4
    <3>2. ASSUME NEW x \in Node, n \in v.in[x], x \in R PROVE n \in R
      <4>1. x \notin v.from
        <5> SUFFICES ASSUME x \in v.from PROVE FALSE
          OBVIOUS
        <5>1. PICK f \in v.from : f \in Cone(Kept(v), n)
          BY DEF Live
        <5>2. f \in Cone(v.in, n) /\ f <= n
          BY <1>1, <5>1, ConesOfTheFlow
        <5>3. x \in DOMAIN v.in /\ n \in v.in[x] \cap DOMAIN v.in
          BY <3>2 DEF IsView
        <5>4. f \in Cone(v.in, x)
          BY <5>2, <5>3, ConeUnfolds
        <5>5. f # x
          <6>1. f \in Nat /\ n \in Nat /\ x \in Nat /\ n < x
            BY <3>2, <5>1, Assumptions DEF IsView, Node
          <6> QED
            BY <5>2, <6>1
        <5> QED
          BY <5>1, <5>4, <5>5
      <4>2. n \in Kept(v)[x]
        BY <1>1, <3>2, <4>1, LiveUnfolds
      <4>3. n \in Cone(Kept(v), n) /\ Cone(Kept(v), n) \subseteq Cone(Kept(v), x)
        BY <1>1, <3>2, <4>2, LiveUnfolds
      <4>4. PICK t \in v.to : x \in Cone(Kept(v), t)
        BY <1>1, <3>2
      <4>5. Cone(Kept(v), x) \subseteq Cone(Kept(v), t)
        BY <4>4, ConeIsTransitive
      <4> QED
        BY <1>1, <4>3, <4>5
    <3>3. CASE m = n
      <4>1. PICK x \in Node : n \in v.in[x] /\ StartingAt(v, x) # {}
        BY <2>2, StartingAtUnfolds
      <4> QED
        BY <3>1, <3>2, <3>3, <4>1
    <3>4. CASE m # n
      <4>1. PICK x \in Node : n \in v.in[x] /\ m \in StartingAt(v, x)
        BY <2>2, <3>4, StartingAtUnfolds
      <4> QED
        BY <3>1, <4>1
    <3> QED
      BY <3>3, <3>4
  <2> QED
    BY <2>1, <2>2
<1>3. G \in SUBSET Nat
  BY Assumptions DEF Node
<1> HIDE DEF G
<1>4. Node \subseteq G
  BY <1>2, <1>3, NodesDown
<1> QED
  BY <1>1, <1>4 DEF G, R

(***************************************************************************)
(* get_nodes_starting_at() finds all that depends on a node in the view,   *)
(* of any flow with any options, and nothing outside of the view when no   *)
(* node of from depends on another.                                        *)
(***************************************************************************)
THEOREM StartingAtFindsDownstream == Spec => []StartingAtIsDownstream
<1>1. ASSUME IsView(view), NEW n \in Runtime, NEW m \in Downstream(n)
      PROVE  m \in StartingAt(view, n)
  <2> DEFINE S == {x \in Runtime : m \in StartingAt(view, x)}
  <2>1. m \in Runtime /\ n \in Cone(Inside, m)
    BY DEF Downstream
  <2>2. DOMAIN Inside = Runtime /\ \A x \in Runtime : Inside[x] = view.in[x] \cap Runtime
    BY DEF Inside
  <2>3. S \in SUBSET (DOMAIN Inside) /\ m \in S
    BY <1>1, <2>1, <2>2, StartingAtGrows DEF Runtime
  <2>4. SelfFed(Inside, S)
    BY <1>1, <2>2, StartingAtGrows DEF SelfFed, Runtime
  <2> HIDE DEF S
  <2>5. n \in S
    BY <2>1, <2>3, <2>4 DEF Cone
  <2> QED
    BY <2>5 DEF S
<1>2. ASSUME IsView(view), NEW n \in Runtime, \A f \in view.from : Cone(view.in, f) \cap view.from = {f}
      PROVE  StartingAt(view, n) \subseteq Runtime
  <2>1. n \in Live(view)
    BY <1>2, NodesOfTheView DEF Runtime
  <2> QED
    BY <1>2, <2>1, StartingAtStaysInside DEF Runtime
<1>3. IsView(view) => StartingAtIsDownstream
  BY <1>1, <1>2 DEF StartingAtIsDownstream
<1> QED
  BY <1>3, ViewStays, PTL

-----------------------------------------------------------------------------
(* The view that is asked for inputs is a view of the same flow. *)
LEMMA InputViewIsView ==
  ASSUME NEW v, IsView(v)
  PROVE  IsView(InputView(v)) /\ InputView(v).in = v.in /\ InputView(v).prune = v.prune
BY DEF IsView, InputView, MakeView, EntryNodes, ExitNodes

(* The inputs that are found for a node, input by input. *)
LEMMA InputsUnfold ==
  ASSUME NEW v, IsView(v), NEW s
  PROVE  \A n \in Node : \A x :
           x \in NodeInputs(v, s)[n] <=>
             \E i \in v.in[n] \ v.prune :
               \/ s[i] # SKIPPED /\ x = i
               \/ s[i] = SKIPPED /\ i \in RuntimeNodes(v) /\ x \in NodeInputs(v, s)[i]
               \/ s[i] = SKIPPED /\ i \notin RuntimeNodes(v) /\ x \in v.in[i] \ v.prune
<1> SUFFICES ASSUME NEW n \in Node, NEW x
             PROVE  x \in NodeInputs(v, s)[n] <=>
                      \E i \in v.in[n] \ v.prune :
                        \/ s[i] # SKIPPED /\ x = i
                        \/ s[i] = SKIPPED /\ i \in RuntimeNodes(v) /\ x \in NodeInputs(v, s)[i]
                        \/ s[i] = SKIPPED /\ i \notin RuntimeNodes(v) /\ x \in v.in[i] \ v.prune
  OBVIOUS
<1> DEFINE inputs == NodeInputs(v, s)
           Of(i) == IF s[i] # SKIPPED THEN {i}
                    ELSE IF i \in RuntimeNodes(v) THEN inputs[i] ELSE v.in[i] \ v.prune
<1>1. inputs[n] = NodeInputsAt(v, s, inputs, n)
  BY NodeInputsUnfolds
<1> HIDE DEF inputs
<1>2. inputs[n] = UNION {Of(i) : i \in v.in[n] \ v.prune}
  BY <1>1 DEF NodeInputsAt
<1>3. \A i : x \in Of(i) <=>
         \/ s[i] # SKIPPED /\ x = i
         \/ s[i] = SKIPPED /\ i \in RuntimeNodes(v) /\ x \in inputs[i]
         \/ s[i] = SKIPPED /\ i \notin RuntimeNodes(v) /\ x \in v.in[i] \ v.prune
  OBVIOUS
<1> HIDE DEF Of
<1> QED
  BY <1>2, <1>3 DEF inputs

(* The nearest results: the inputs that were not skipped, and the nearest  *)
(* results above the others.                                               *)
LEMMA NearestUnfolds ==
  ASSUME IsView(view)
  PROVE  \A n \in Node : \A x :
           x \in Nearest(n) <=>
             \E i \in view.in[n] \ view.prune :
               \/ status[i] # SKIPPED /\ x = i
               \/ status[i] = SKIPPED /\ x \in Nearest(i)
<1> SUFFICES ASSUME NEW n \in Node, NEW x
             PROVE  x \in Nearest(n) <=>
                      \E i \in view.in[n] \ view.prune :
                        \/ status[i] # SKIPPED /\ x = i
                        \/ status[i] = SKIPPED /\ x \in Nearest(i)
  OBVIOUS
<1> DEFINE through == [m \in Node |-> {i \in view.in[m] \ view.prune : status[i] = SKIPPED}]
<1>1. /\ DOMAIN through = Node
      /\ \A m \in Node : through[m] = {i \in view.in[m] \ view.prune : status[i] = SKIPPED}
      /\ through[n] \cap Node = through[n]
  BY DEF IsView
<1>2. \A m : x \in Nearest(m) <=>
                \E k \in Cone(through, m) : x \in view.in[k] \ view.prune /\ status[x] # SKIPPED
  BY DEF Nearest
<1> HIDE DEF through
<1>3. Cone(through, n) = {n} \cup UNION {Cone(through, i) : i \in through[n]}
  BY <1>1, ConeUnfolds
<1> QED
  BY <1>1, <1>2, <1>3

(* What is found for a node are the nearest results. *)
LEMMA NearestAreFound ==
  ASSUME IsView(view), NoTwoInARow
  PROVE  \A n \in Node : Inputs[n] = Nearest(n)
<1> DEFINE G == {n \in Node : \A x : x \in Inputs[n] <=> x \in Nearest(n)}
           V == InputView(view)
<1>1. /\ IsView(V) /\ V.in = view.in /\ V.prune = view.prune
      /\ \A x \in Node : view.in[x] \subseteq Node
  BY InputViewIsView DEF IsView
<1> HIDE DEF V
<1>2. ASSUME NEW n \in Node, \A m \in Node : m < n => m \in G PROVE n \in G
  <2> SUFFICES ASSUME NEW x PROVE x \in Inputs[n] <=> x \in Nearest(n)
    OBVIOUS
  <2>1. ASSUME NEW i \in view.in[n] \ view.prune
        PROVE  i \in Node /\ \A y : y \in Inputs[i] <=> y \in Nearest(i)
    <3>1. i \in Node /\ i < n
      BY Assumptions DEF IsView, Node
    <3> QED
      BY <1>2, <3>1
  <2>2. ASSUME NEW i \in view.in[n] \ view.prune, status[i] = SKIPPED, i \notin RuntimeNodes(V)
        PROVE  \A y : y \in Nearest(i) <=> y \in view.in[i] \ view.prune
    <3>1. i \in Node /\ i \in Opaque
      BY <2>1, <2>2 DEF Opaque, V
    <3>2. \A j \in view.in[i] \ view.prune : status[j] # SKIPPED
      BY <3>1 DEF NoTwoInARow
    <3> QED
      BY <3>1, <3>2, NearestUnfolds
  <2>3. x \in Inputs[n] <=>
          \E i \in view.in[n] \ view.prune :
            \/ status[i] # SKIPPED /\ x = i
            \/ status[i] = SKIPPED /\ i \in RuntimeNodes(V) /\ x \in Inputs[i]
            \/ status[i] = SKIPPED /\ i \notin RuntimeNodes(V) /\ x \in view.in[i] \ view.prune
    BY <1>1, InputsUnfold DEF Inputs, V
  <2>4. x \in Nearest(n) <=>
          \E i \in view.in[n] \ view.prune :
            \/ status[i] # SKIPPED /\ x = i
            \/ status[i] = SKIPPED /\ x \in Nearest(i)
    BY NearestUnfolds
  <2> QED
    BY <2>1, <2>2, <2>3, <2>4
<1>3. G \in SUBSET Nat
  BY Assumptions DEF Node
<1> HIDE DEF G
<1>4. Node \subseteq G
  BY <1>2, <1>3, NodesUp
<1>5. ASSUME NEW n \in Node PROVE Inputs[n] = Nearest(n)
  <2>1. \A x : x \in Inputs[n] <=> x \in Nearest(n)
    BY <1>4 DEF G
  <2>2. Inputs[n] = NodeInputsAt(V, status, Inputs, n)
    BY <1>1, NodeInputsUnfolds DEF Inputs, V
  <2> QED
    BY <2>1
<1> QED
  BY <1>5

(***************************************************************************)
(* Whatever was skipped, in whatever flow and view: a node works on the    *)
(* nearest results above it, unless two nodes in a row that pruning has    *)
(* cut off were skipped.                                                   *)
(***************************************************************************)
THEOREM FoundInputsAreNearest == Spec => []InputsAreNearest
<1>1. IsView(view) => InputsAreNearest
  BY NearestAreFound, NodesOfTheView DEF InputsAreNearest, Known, Runtime
<1> QED
  BY <1>1, ViewStays, PTL

-----------------------------------------------------------------------------
(***************************************************************************)
(* What is known of a run: the scheduler planned with the statuses s, and  *)
(* since then a node has only settled, after its planned inputs.           *)
(***************************************************************************)
SettledSince(s) ==
  \A n \in Node : status[n] # s[n] =>
    s[n] = PENDING /\ n \in Known /\ IsDone(status[n]) /\ InputsSettled(n)

PlanInv ==
  /\ view \in Views
  /\ status \in [Node -> Status]
  /\ \E s : planned = NodeInputs(InputView(view), s) /\ SettledSince(s)

(* A node that settles keeps it. *)
LEMMA SettleKeepsPlan ==
  ASSUME PlanInv, NEW n \in Node, Settle(n)
  PROVE  PlanInv'
<1>1. PICK s : planned = NodeInputs(InputView(view), s) /\ SettledSince(s)
  BY DEF PlanInv
<1>2. PICK r \in Results : status' = [status EXCEPT ![n] = r]
  BY DEF Settle
<1>3. view' = view /\ planned' = planned /\ Known' = Known /\ n \in Known /\ status[n] = PENDING
  BY DEF Settle, Known, Runtime
<1>4. r \in Done /\ status' \in [Node -> Status]
  BY <1>2, ViewAssumptions DEF PlanInv, Status, Done, Failed
<1>5. /\ \A m \in Node : m # n => status'[m] = status[m]
      /\ status'[n] = r /\ IsDone(status'[n]) /\ ~ IsDone(status[n])
  BY <1>2, <1>3, <1>4 DEF PlanInv, IsDone, Done, Failed, PENDING, SUCCESS, ERROR, TIMEOUT, SKIPPED
<1>6. ASSUME NEW m, InputsSettled(m) PROVE InputsSettled(m)'
  <2>1. ASSUME NEW i \in planned[m], i # n PROVE status'[i] = status[i]
    BY <1>2, <2>1 DEF PlanInv
  <2> QED
    BY <1>3, <1>5, <1>6, <2>1 DEF InputsSettled
<1>7. ASSUME NEW m \in Node, status'[m] # s[m]
      PROVE  s[m] = PENDING /\ m \in Known' /\ IsDone(status'[m]) /\ InputsSettled(m)'
  <2>1. CASE m = n
    BY <1>1, <1>3, <1>5, <1>6, <2>1 DEF SettledSince, Settle
  <2>2. CASE m # n
    BY <1>1, <1>3, <1>5, <1>6, <1>7, <2>2 DEF SettledSince
  <2> QED
    BY <2>1, <2>2
<1>8. SettledSince(s)'
  BY <1>7 DEF SettledSince
<1> QED
  BY <1>1, <1>3, <1>4, <1>8 DEF PlanInv

(* It holds of every run. *)
LEMMA PlanInvariant == Spec => []PlanInv
<1>1. Init => PlanInv
  <2> SUFFICES ASSUME Init PROVE PlanInv
    OBVIOUS
  <2>1. status \in [Node -> Status]
    BY ViewAssumptions DEF Init, Status, PENDING, SKIPPED, Done, Failed
  <2>2. planned = NodeInputs(InputView(view), status)
    BY DEF Init
  <2>3. SettledSince(status)
    BY DEF SettledSince
  <2> QED
    BY <2>1, <2>2, <2>3 DEF PlanInv, Init
<1>2. PlanInv /\ [Next]_vars => PlanInv'
  <2>1. ASSUME PlanInv, Next PROVE PlanInv'
    BY <2>1, SettleKeepsPlan DEF Next
  <2>2. ASSUME PlanInv, UNCHANGED vars PROVE PlanInv'
    BY <2>2 DEF PlanInv, vars, SettledSince, InputsSettled, Known, Runtime
  <2> QED
    BY <2>1, <2>2
<1> QED
  BY <1>1, <1>2, PTL DEF Spec

(* The inputs that were planned having settled, so have those that are found. *)
LEMMA FoundAreSettled ==
  ASSUME PlanInv
  PROVE  \A n \in Node : InputsSettled(n) => \A i \in Inputs[n] : IsDone(status[i])
<1> DEFINE V == InputView(view)
           G == {n \in Node : InputsSettled(n) => \A i \in Inputs[n] : IsDone(status[i])}
<1>1. /\ IsView(V) /\ V.in = view.in /\ V.prune = view.prune
      /\ IsView(view) /\ \A m \in Node : view.in[m] \subseteq Node
  BY ViewAssumptions, InputViewIsView DEF PlanInv, IsView
<1> HIDE DEF V
<1>2. PICK s : planned = NodeInputs(V, s) /\ SettledSince(s)
  BY DEF PlanInv, V
<1>3. Inputs = NodeInputs(V, status) /\ Known \subseteq RuntimeNodes(V)
  BY DEF Inputs, Known, V
<1>4. ASSUME NEW n \in Node, \A m \in Node : m < n => m \in G PROVE n \in G
  <2> SUFFICES ASSUME InputsSettled(n), NEW x \in Inputs[n] PROVE IsDone(status[x])
    OBVIOUS
  <2>1. PICK i \in view.in[n] \ view.prune :
          \/ status[i] # SKIPPED /\ x = i
          \/ status[i] = SKIPPED /\ i \in RuntimeNodes(V) /\ x \in Inputs[i]
          \/ status[i] = SKIPPED /\ i \notin RuntimeNodes(V) /\ x \in view.in[i] \ view.prune
    BY <1>1, <1>3, InputsUnfold
  <2>2. i \in Node /\ i \in G
    <3>1. i \in Node /\ i < n
      BY <1>1, Assumptions DEF IsView, Node
    <3> QED
      BY <1>4, <3>1
  <2>3. \A y :
          \/ s[i] # SKIPPED /\ y = i
          \/ s[i] = SKIPPED /\ i \in RuntimeNodes(V) /\ y \in planned[i]
          \/ s[i] = SKIPPED /\ i \notin RuntimeNodes(V) /\ y \in view.in[i] \ view.prune
          => y \in planned[n]
    BY <1>1, <1>2, InputsUnfold
  <2>4. status[i] # s[i] => s[i] = PENDING /\ i \in RuntimeNodes(V) /\ InputsSettled(i)
    BY <1>2, <1>3, <2>2 DEF SettledSince
  <2>5. PENDING # SKIPPED
    BY DEF PENDING, SKIPPED
  <2>6. CASE status[i] # SKIPPED
    <3>1. x = i /\ s[i] # SKIPPED
      BY <2>1, <2>4, <2>5, <2>6
    <3> QED
      BY <2>3, <3>1 DEF InputsSettled
  <2>7. CASE status[i] = SKIPPED /\ s[i] = SKIPPED /\ i \notin RuntimeNodes(V)
    BY <2>1, <2>3, <2>7 DEF InputsSettled
  <2>8. CASE status[i] = SKIPPED /\ i \in RuntimeNodes(V)
    <3>1. InputsSettled(i)
      BY <2>3, <2>4, <2>8 DEF InputsSettled
    <3>2. x \in Inputs[i]
      BY <2>1, <2>8
    <3> QED
      BY <2>2, <3>1, <3>2
  <2> QED
    BY <2>4, <2>6, <2>7, <2>8
<1>5. G \in SUBSET Nat
  BY Assumptions DEF Node
<1> HIDE DEF G
<1>6. Node \subseteq G
  BY <1>4, <1>5, NodesUp
<1> QED
  BY <1>6 DEF G

(***************************************************************************)
(* The scheduler asks for the inputs of a node when a run begins, the node *)
(* when it runs: however many nodes have been skipped between, what the    *)
(* node finds has settled when what the scheduler waits for has.           *)
(***************************************************************************)
THEOREM FoundInputsHaveSettled == Spec => []FoundInputsSettled
<1>1. PlanInv => FoundInputsSettled
  <2> SUFFICES ASSUME PlanInv, NEW n \in Known, InputsSettled(n)
               PROVE  \A i \in Inputs[n] : IsDone(status[i])
    BY DEF FoundInputsSettled, InputsSettled
  <2>1. n \in Node
    BY NodesOfTheView, ViewAssumptions DEF PlanInv, Known, Runtime
  <2> QED
    BY <2>1, FoundAreSettled
<1> QED
  BY <1>1, PlanInvariant, PTL

-----------------------------------------------------------------------------
(***************************************************************************)
(* What IncrementalBuild assumes of the options of its runs, for the views *)
(* that are computed here.                                                 *)
(***************************************************************************)
Apart(v) == \A f \in v.from : Cone(v.in, f) \cap v.from = {f}

(* Downstream sets are closed, and every node in one but the first has an  *)
(* input there.                                                            *)
LEMMA StartingAtIsConnected ==
  ASSUME NEW v, IsView(v), Apart(v)
  PROVE  \A n \in RuntimeNodes(v) : \A m \in StartingAt(v, n) :
           /\ StartingAt(v, m) \subseteq StartingAt(v, n)
           /\ m # n => \E i \in StartingAt(v, n) : i \in v.in[m]
<1> DEFINE R == RuntimeNodes(v)
           Good(n) == \A m \in StartingAt(v, n) :
                        /\ StartingAt(v, m) \subseteq StartingAt(v, n)
                        /\ m # n => \E i \in StartingAt(v, n) : i \in v.in[m]
           G == {n \in Node : n \in R => Good(n)}
<1>1. R \subseteq Live(v) /\ Live(v) \subseteq Node \ v.prune
  BY NodesOfTheView DEF Live
<1>2. \A n \in R : StartingAt(v, n) \subseteq R
  BY <1>1, StartingAtStaysInside DEF Apart
<1>3. RuntimeExit(v) = {n \in R : \A m \in R : n \notin v.in[m]}
  BY EndsOfTheView
<1>4. \A n \in R : n \in StartingAt(v, n)
  BY StartingAtGrows
<1>5. \A n, x \in R : n \in v.in[x] => StartingAt(v, x) \subseteq StartingAt(v, n)
  BY StartingAtGrows
<1> HIDE DEF R
<1>6. ASSUME NEW n \in Node, \A m \in Node : m > n => m \in G PROVE n \in G
  <2> SUFFICES ASSUME n \in R, NEW m \in StartingAt(v, n)
               PROVE  /\ StartingAt(v, m) \subseteq StartingAt(v, n)
                      /\ m # n => \E i \in StartingAt(v, n) : i \in v.in[m]
    OBVIOUS
  <2>1. CASE m = n
    BY <2>1
  <2>2. CASE m # n
    <3>1. n \notin RuntimeExit(v)
      BY <1>1, <2>2, StartingAtUnfolds
    <3>2. PICK x \in Node : n \in v.in[x] /\ m \in StartingAt(v, x)
      BY <2>2, <3>1, StartingAtUnfolds
    <3>3. x \in StartingAt(v, x) /\ x \in StartingAt(v, n)
      <4>1. x \in StartingAt(v, x)
        BY <3>2, StartingAtUnfolds
      <4> QED
        BY <1>1, <3>1, <3>2, <4>1, StartingAtUnfolds
    <3>4. x \in R /\ x > n
      BY <1>2, <3>2, <3>3, Assumptions DEF IsView, Node
    <3>5. Good(x) /\ StartingAt(v, x) \subseteq StartingAt(v, n)
      BY <1>5, <1>6, <3>2, <3>4
    <3>6. n \in StartingAt(v, n)
      BY <1>4
    <3> QED
      BY <3>2, <3>5, <3>6
  <2> QED
    BY <2>1, <2>2
<1>7. G \in SUBSET Nat
  BY Assumptions DEF Node
<1> HIDE DEF G
<1>8. Node \subseteq G
  BY <1>6, <1>7, NodesDown
<1> QED
  BY <1>1, <1>8 DEF G, R

(***************************************************************************)
(* What the options from, to and prune make of any flow, as long as no     *)
(* node of from depends on another, is what IncrementalBuild assumes: its  *)
(* theorems hold of the runs of every flow.                                *)
(***************************************************************************)
THEOREM ViewsSuitIncrementalBuilds ==
  ASSUME NEW v, IsView(v), Apart(v)
  PROVE  LET runtime  == RuntimeNodes(v)
             after(n) == StartingAt(v, n)
         IN  /\ RuntimeEntry(v) \subseteq runtime
             /\ \A n \in runtime : n \in after(n) /\ after(n) \subseteq runtime
             /\ \A n \in runtime : \A m \in after(n) : after(m) \subseteq after(n)
             /\ \A n \in runtime : \A T \in SUBSET (after(n) \ {n}) :
                  T # {} => \E m \in T : \E i \in v.in[m] : i \in after(n) \ T
<1> DEFINE runtime == RuntimeNodes(v)
           after(n) == StartingAt(v, n)
<1>1. runtime \subseteq Live(v) /\ Live(v) \subseteq Node
  BY NodesOfTheView DEF Live
<1>2. RuntimeEntry(v) \subseteq runtime
  BY DEF RuntimeEntry
<1>3. \A n \in runtime : n \in after(n) /\ after(n) \subseteq runtime
  BY <1>1, StartingAtGrows, StartingAtStaysInside DEF Apart
<1>4. \A n \in runtime : \A m \in after(n) : after(m) \subseteq after(n)
  BY StartingAtIsConnected
<1>5. ASSUME NEW n \in runtime, NEW T \in SUBSET (after(n) \ {n}), T # {}
      PROVE  \E m \in T : \E i \in v.in[m] : i \in after(n) \ T
  <2>1. T \in SUBSET Nat /\ T \subseteq Node
    BY <1>1, <1>3, Assumptions DEF Node
  <2>2. PICK m \in T : \A k \in T : m <= k
    BY <1>5, <2>1, LeastNat
  <2>3. PICK i \in after(n) : i \in v.in[m]
    BY StartingAtIsConnected
  <2>4. i \in Nat /\ m \in Nat /\ i < m
    BY <2>1, <2>3, Assumptions DEF IsView, Node
  <2>5. i \notin T
    BY <2>2, <2>4
  <2> QED
    BY <2>3, <2>5
<1> HIDE DEF runtime, after
<1> QED
  BY <1>2, <1>3, <1>4, <1>5 DEF runtime, after

(***************************************************************************)
(* A run that is given neither to nor prune goes on to the end of the      *)
(* flow: what takes a result of a node below some node of it is below too. *)
(***************************************************************************)
THEOREM OpenRunsReachDown ==
  ASSUME NEW v, IsView(v), Apart(v), v.prune = {}, v.to = ExitNodes(v.in)
  PROVE  \A n \in RuntimeNodes(v) : \A m \in Node :
           v.in[m] \cap StartingAt(v, n) # {} => m \in StartingAt(v, n)
<1> DEFINE R == RuntimeNodes(v)
           G == {n \in Node : n \in Live(v) => n \in R}
<1>1. R = {n \in Live(v) : \E t \in v.to : n \in Cone(Kept(v), t)} /\ Live(v) \subseteq Node \ v.prune
  BY NodesOfTheView DEF Live
<1> HIDE DEF R
<1>2. ASSUME NEW i \in Live(v), NEW x \in Node, i \in v.in[x]
      PROVE  x \in Live(v) /\ x \notin v.from /\ i \in Kept(v)[x]
  <2>1. x \notin v.from
    <3> SUFFICES ASSUME x \in v.from PROVE FALSE
      OBVIOUS
    <3>1. PICK f \in v.from : f \in Cone(Kept(v), i)
      BY DEF Live
    <3>2. f \in Cone(v.in, i) /\ f <= i
      BY <1>1, <3>1, ConesOfTheFlow
    <3>3. x \in DOMAIN v.in /\ i \in v.in[x] \cap DOMAIN v.in
      BY <1>2 DEF IsView
    <3>4. f \in Cone(v.in, x)
      BY <3>2, <3>3, ConeUnfolds
    <3>5. f \in Nat /\ i \in Nat /\ x \in Nat /\ i < x
      BY <1>2, <3>1, Assumptions DEF IsView, Node
    <3>6. f # x
      BY <3>2, <3>5
    <3> QED
      BY <3>1, <3>4, <3>6 DEF Apart
  <2> QED
    BY <1>1, <1>2, <2>1, LiveUnfolds
<1>3. ASSUME NEW n \in Node, \A m \in Node : m > n => m \in G PROVE n \in G
  <2> SUFFICES ASSUME n \in Live(v) PROVE n \in R
    OBVIOUS
  <2>1. n \in Cone(Kept(v), n)
    BY <1>1, LiveUnfolds
  <2>2. CASE n \in v.to
    BY <1>1, <2>1, <2>2
  <2>3. CASE n \notin v.to
    <3>1. PICK x \in Node : n \in v.in[x]
      BY <2>3 DEF ExitNodes, IsView
    <3>2. x \in Live(v) /\ n \in Kept(v)[x]
      BY <1>2, <3>1
    <3>3. x > n
      BY <3>1, Assumptions DEF IsView, Node
    <3>4. x \in R
      BY <1>3, <3>2, <3>3
    <3>5. PICK t \in v.to : x \in Cone(Kept(v), t)
      BY <1>1, <3>4
    <3>6. n \in Cone(Kept(v), x)
      BY <1>1, <2>1, <3>2, LiveUnfolds
    <3>7. n \in Cone(Kept(v), t)
      BY <3>5, <3>6, ConeIsTransitive
    <3> QED
      BY <1>1, <3>7
  <2> QED
    BY <2>2, <2>3
<1>4. G \in SUBSET Nat
  BY Assumptions DEF Node
<1> HIDE DEF G
<1>5. Live(v) \subseteq R
  BY <1>1, <1>3, <1>4, NodesDown DEF G
<1>6. ASSUME NEW n \in R, NEW m \in Node, NEW i \in StartingAt(v, n), i \in v.in[m]
      PROVE  m \in StartingAt(v, n)
  <2>1. i \in R
    BY <1>1, StartingAtStaysInside DEF Apart, R
  <2>2. m \in R
    BY <1>1, <1>2, <1>5, <1>6, <2>1
  <2>3. m \in StartingAt(v, m) /\ StartingAt(v, m) \subseteq StartingAt(v, i)
    BY <1>6, <2>1, <2>2, StartingAtGrows DEF R
  <2>4. StartingAt(v, i) \subseteq StartingAt(v, n)
    BY StartingAtIsConnected DEF R
  <2> QED
    BY <2>3, <2>4
<1> QED
  BY <1>6 DEF R

=============================================================================

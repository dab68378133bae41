-------------------------- MODULE FlowgraphProofs ---------------------------
(***************************************************************************)
(* Proofs about Flowgraph: any names, any number of nodes, any edits.      *)
(***************************************************************************)
EXTENDS FiniteSetTheorems, WellFoundedInduction, TLAPS, Flowgraph

(* Well-foundedness and induction, for sets in place of predicates. *)
LEMMA LeastNat ==
  ASSUME NEW B \in SUBSET Nat, B # {}
  PROVE  \E k \in B : \A m \in B : k <= m
<1> DEFINE R == OpToRel(<, Nat)
<1>1. \E k \in B : \A m \in B : ~ (<<m, k>> \in R)
  BY NatLessThanWellFounded, WFMin
<1>2. \A k, m \in B : m < k => <<m, k>> \in R
  BY DEF OpToRel
<1> HIDE DEF R
<1>3. PICK k \in B : \A m \in B : ~ (<<m, k>> \in R)
  BY <1>1
<1>4. \A m \in B : k \in Nat /\ m \in Nat /\ ~ (m < k)
  BY <1>2, <1>3
<1> QED
  BY <1>4

(* Induction over the natural numbers, with a set in place of a predicate. *)
LEMMA NatSet ==
  ASSUME NEW G \in SUBSET Nat, 0 \in G, \A k \in G : k + 1 \in G
  PROVE  G = Nat
<1> DEFINE B == Nat \ G
<1> SUFFICES ASSUME B # {} PROVE FALSE
  OBVIOUS
<1>1. B \in SUBSET Nat
  OBVIOUS
<1>2. PICK k \in B : \A m \in B : k <= m
  BY <1>1, LeastNat
<1>3. k \in Nat /\ k # 0 /\ k - 1 \in Nat /\ k - 1 + 1 = k /\ ~ (k <= k - 1)
  BY <1>2
<1>4. k - 1 \in G
  BY <1>2, <1>3
<1> QED
  BY <1>2, <1>3, <1>4

(* Among subsets of a finite set there is a smallest one. *)
LEMMA LeastSet ==
  ASSUME NEW S, IsFiniteSet(S), NEW B \in SUBSET (SUBSET S), B # {}
  PROVE  \E T \in B : \A U \in B : Cardinality(T) <= Cardinality(U)
<1> DEFINE C == {Cardinality(T) : T \in B}
<1>1. C \in SUBSET Nat /\ C # {}
  BY FS_Subset, FS_CardinalityType
<1> HIDE DEF C
<1>2. PICK k \in C : \A m \in C : k <= m
  BY <1>1, LeastNat
<1> QED
  BY <1>2 DEF C

-----------------------------------------------------------------------------
(* A node depends on what every set holds that holds its inputs and theirs.*)
LEMMA DependsIff ==
  ASSUME NEW in, NEW x \in DOMAIN in, NEW y \in DOMAIN in
  PROVE  DependsOn(in, x, y) <=>
           \A S \in SUBSET (DOMAIN in) :
             in[x] \cap DOMAIN in \subseteq S /\ SelfFed(in, S) => y \in S
<1> DEFINE D == DOMAIN in
<1>1. ASSUME DependsOn(in, x, y), NEW S \in SUBSET D, in[x] \cap D \subseteq S, SelfFed(in, S)
      PROVE  y \in S
  BY <1>1 DEF DependsOn, Cone
<1>2. ASSUME \A S \in SUBSET D : in[x] \cap D \subseteq S /\ SelfFed(in, S) => y \in S
      PROVE  DependsOn(in, x, y)
  <2> DEFINE S == UNION {Cone(in, i) : i \in in[x] \cap D}
  <2>1. S \in SUBSET D
    BY DEF Cone
  <2>2. in[x] \cap D \subseteq S
    BY DEF Cone
  <2>3. SelfFed(in, S)
    BY DEF SelfFed, Cone
  <2>4. y \in S
    <3> HIDE DEF S
    <3> QED
      BY <1>2, <2>1, <2>2, <2>3
  <2> QED
    BY <2>4 DEF DependsOn
<1> QED
  BY <1>1, <1>2

(* Nodes beside a flow whose edges are defined do not concern it. *)
LEMMA ExtensionKeeps ==
  ASSUME NEW in, NEW new, EdgesDefined(in),
         DOMAIN in \subseteq DOMAIN new, \A n \in DOMAIN in : new[n] = in[n],
         NEW x \in DOMAIN in, NEW y \in DOMAIN in
  PROVE  DependsOn(new, x, y) <=> DependsOn(in, x, y)
<1>1. ASSUME NEW S \in SUBSET (DOMAIN in), in[x] \cap DOMAIN in \subseteq S, SelfFed(in, S),
             DependsOn(new, x, y)
      PROVE  y \in S
  <2>1. S \in SUBSET (DOMAIN new) /\ new[x] \cap DOMAIN new \subseteq S /\ SelfFed(new, S)
    BY <1>1 DEF SelfFed, EdgesDefined
  <2> QED
    BY <1>1, <2>1, DependsIff
<1>2. ASSUME NEW S \in SUBSET (DOMAIN new), new[x] \cap DOMAIN new \subseteq S, SelfFed(new, S),
             DependsOn(in, x, y)
      PROVE  y \in S
  <2> DEFINE T == S \cap DOMAIN in
  <2>1. T \in SUBSET (DOMAIN in) /\ in[x] \cap DOMAIN in \subseteq T /\ SelfFed(in, T)
    BY <1>2 DEF SelfFed
  <2> HIDE DEF T
  <2>2. y \in T
    BY <1>2, <2>1, DependsIff
  <2> QED
    BY <2>2 DEF T
<1> QED
  BY <1>1, <1>2, DependsIff

(* Removing a node and connecting its outputs to its inputs. *)
Bypassed(in, n) ==
  [m \in DOMAIN in \ {n} |-> IF n \in in[m] THEN (in[m] \ {n}) \cup in[n] ELSE in[m]]

(* It keeps who depends on whom among the others. *)
LEMMA BypassKeeps ==
  ASSUME NEW in, EdgesDefined(in), NEW n \in DOMAIN in, n \notin in[n],
         NEW x \in DOMAIN in \ {n}, NEW y \in DOMAIN in \ {n}
  PROVE  DependsOn(Bypassed(in, n), x, y) <=> DependsOn(in, x, y)
<1> DEFINE new == Bypassed(in, n)
<1>1. DOMAIN new = DOMAIN in \ {n}
  BY DEF Bypassed
<1>2. \A m \in DOMAIN in \ {n} :
        /\ n \in in[m] => new[m] = (in[m] \ {n}) \cup in[n]
        /\ n \notin in[m] => new[m] = in[m]
  BY DEF Bypassed
<1>3. \A m \in DOMAIN in : in[m] \subseteq DOMAIN in
  BY DEF EdgesDefined
<1> HIDE DEF new
<1>4. ASSUME NEW S \in SUBSET (DOMAIN in), in[x] \cap DOMAIN in \subseteq S, SelfFed(in, S),
             DependsOn(new, x, y)
      PROVE  y \in S
  <2> DEFINE T == S \ {n}
  <2>1. T \in SUBSET (DOMAIN new)
    BY <1>1
  <2>2. ASSUME NEW m \in DOMAIN in \ {n}, in[m] \subseteq S PROVE new[m] \subseteq T
    BY <1>2, <1>3, <1>4, <2>2 DEF SelfFed
  <2>3. new[x] \cap DOMAIN new \subseteq T /\ SelfFed(new, T)
    BY <1>3, <1>4, <2>2 DEF SelfFed
  <2> HIDE DEF T
  <2>4. y \in T
    BY <1>1, <1>4, <2>1, <2>3, DependsIff
  <2> QED
    BY <2>4 DEF T
<1>5. ASSUME NEW S \in SUBSET (DOMAIN new), new[x] \cap DOMAIN new \subseteq S, SelfFed(new, S),
             DependsOn(in, x, y)
      PROVE  y \in S
  <2> DEFINE T == S \cup {m \in {n} : in[n] \subseteq S}
  <2>1. T \in SUBSET (DOMAIN in)
    BY <1>1
  <2>2. ASSUME NEW m \in DOMAIN in \ {n}, new[m] \cap DOMAIN new \subseteq S PROVE in[m] \subseteq T
    BY <1>1, <1>2, <1>3, <2>2
  <2>3. in[x] \cap DOMAIN in \subseteq T /\ SelfFed(in, T)
    BY <1>1, <1>5, <2>2 DEF SelfFed
  <2> HIDE DEF T
  <2>4. y \in T
    BY <1>5, <2>1, <2>3, DependsIff
  <2> QED
    BY <2>4 DEF T
<1> QED
  BY <1>1, <1>4, <1>5, DependsIff DEF new

(* A new node that takes over outputs of another one. *)
Inserts(in, new, n, before) ==
  /\ n \notin DOMAIN in /\ before \in DOMAIN in
  /\ DOMAIN new = DOMAIN in \cup {n}
  /\ new[n] = {before}
  /\ \A m \in DOMAIN in :
       /\ new[m] \subseteq in[m] \cup {n}
       /\ in[m] \ {before} \subseteq new[m]
       /\ n \in new[m] <=> before \in in[m]

(* A node between another and what takes from it keeps what the others depend on. *)
LEMMA InsertKeeps ==
  ASSUME NEW in, NEW new, NEW n, NEW before, EdgesDefined(in), Inserts(in, new, n, before),
         NEW x \in DOMAIN in, NEW y \in DOMAIN in
  PROVE  DependsOn(new, x, y) <=> DependsOn(in, x, y)
<1> USE DEF Inserts
<1>1. \A m \in DOMAIN in : in[m] \subseteq DOMAIN in
  BY DEF EdgesDefined
<1>2. ASSUME NEW S \in SUBSET (DOMAIN in), in[x] \cap DOMAIN in \subseteq S, SelfFed(in, S),
             DependsOn(new, x, y)
      PROVE  y \in S
  <2> DEFINE T == S \cup {m \in {n} : before \in S}
  <2>1. T \in SUBSET (DOMAIN new)
    OBVIOUS
  <2>2. ASSUME NEW m \in DOMAIN in, in[m] \subseteq S PROVE new[m] \subseteq T
    BY <2>2
  <2>3. new[x] \cap DOMAIN new \subseteq T /\ SelfFed(new, T)
    BY <1>1, <1>2, <2>2 DEF SelfFed
  <2> HIDE DEF T
  <2>4. y \in T
    BY <1>2, <2>1, <2>3, DependsIff
  <2> QED
    BY <2>4 DEF T
<1>3. ASSUME NEW S \in SUBSET (DOMAIN new), new[x] \cap DOMAIN new \subseteq S, SelfFed(new, S),
             DependsOn(in, x, y)
      PROVE  y \in S
  <2> DEFINE T == S \ {n}
  <2>1. T \in SUBSET (DOMAIN in)
    OBVIOUS
  <2>2. ASSUME NEW m \in DOMAIN in, new[m] \cap DOMAIN new \subseteq S PROVE in[m] \subseteq T
    BY <1>1, <1>3, <2>2 DEF SelfFed
  <2>3. in[x] \cap DOMAIN in \subseteq T /\ SelfFed(in, T)
    BY <1>3, <2>2 DEF SelfFed
  <2> HIDE DEF T
  <2>4. y \in T
    BY <1>3, <2>1, <2>3, DependsIff
  <2> QED
    BY <2>4 DEF T
<1> QED
  BY <1>2, <1>3, DependsIff

(* The new node is on no loop: what it depends on does not depend on it. *)
LEMMA InsertIsDag ==
  ASSUME NEW in, NEW new, NEW n, NEW before, EdgesDefined(in), IsDag(in), Inserts(in, new, n, before)
  PROVE  EdgesDefined(new) /\ IsDag(new)
<1> USE DEF Inserts
<1>1. \A m \in DOMAIN in : in[m] \subseteq DOMAIN in
  BY DEF EdgesDefined
<1>2. EdgesDefined(new)
  BY <1>1 DEF EdgesDefined
<1>3. \A m \in DOMAIN in : ~ DependsOn(new, m, m)
  BY InsertKeeps DEF IsDag
<1>4. ~ DependsOn(new, n, n)
  <2> SUFFICES ASSUME DependsOn(new, n, n) PROVE FALSE
    OBVIOUS
  <2> DEFINE S == Cone(in, before)
  <2>1. S \in SUBSET (DOMAIN new) /\ new[n] \subseteq S /\ n \notin S
    BY DEF Cone
  <2>2. ASSUME NEW s \in S PROVE before \notin in[s]
    <3>1. s \in DOMAIN in /\ s \in Cone(in, before)
      BY DEF Cone
    <3>2. CASE before \in in[s]
      <4>1. DependsOn(in, s, s)
        BY <3>1, <3>2 DEF DependsOn
      <4> QED
        BY <3>1, <4>1 DEF IsDag
    <3> QED
      BY <3>2
  <2>3. ASSUME NEW s \in S, NEW i \in in[s] PROVE i \in S
    BY <1>1, <2>3 DEF Cone, SelfFed
  <2>4. SelfFed(new, S)
    <3>1. \A s \in S : s \in DOMAIN in
      BY DEF Cone
    <3> HIDE DEF S
    <3> QED
      BY <2>2, <2>3, <3>1 DEF SelfFed
  <2> QED
    BY <2>1, <2>4, DependsIff
<1> QED
  BY <1>2, <1>3, <1>4 DEF IsDag

(* Giving the nodes of a flow other names. *)
LEMMA RenamingKeeps ==
  ASSUME NEW in, NEW new, EdgesDefined(in),
         NEW was \in [DOMAIN new -> DOMAIN in],
         \A m \in DOMAIN in : \E x \in DOMAIN new : was[x] = m,
         \A x, y \in DOMAIN new : was[x] = was[y] => x = y,
         \A x \in DOMAIN new : new[x] \subseteq DOMAIN new,
         \A x, i \in DOMAIN new : i \in new[x] <=> was[i] \in in[was[x]],
         NEW a \in DOMAIN new, NEW b \in DOMAIN new
  PROVE  DependsOn(new, a, b) <=> DependsOn(in, was[a], was[b])
<1>1. ASSUME NEW S \in SUBSET (DOMAIN in), in[was[a]] \cap DOMAIN in \subseteq S, SelfFed(in, S),
             DependsOn(new, a, b)
      PROVE  was[b] \in S
  <2> DEFINE T == {x \in DOMAIN new : was[x] \in S}
  <2>1. T \in SUBSET (DOMAIN new)
    OBVIOUS
  <2>2. ASSUME NEW x \in DOMAIN new, in[was[x]] \cap DOMAIN in \subseteq S PROVE new[x] \subseteq T
    BY <2>2
  <2>3. new[a] \cap DOMAIN new \subseteq T /\ SelfFed(new, T)
    BY <1>1, <2>2 DEF SelfFed
  <2> HIDE DEF T
  <2>4. b \in T
    BY <1>1, <2>1, <2>3, DependsIff
  <2> QED
    BY <2>4 DEF T
<1>2. ASSUME NEW S \in SUBSET (DOMAIN new), new[a] \cap DOMAIN new \subseteq S, SelfFed(new, S),
             DependsOn(in, was[a], was[b])
      PROVE  b \in S
  <2> DEFINE T == {was[x] : x \in S}
  <2>1. T \in SUBSET (DOMAIN in)
    OBVIOUS
  <2>2. ASSUME NEW x \in DOMAIN new, new[x] \cap DOMAIN new \subseteq S
        PROVE  in[was[x]] \cap DOMAIN in \subseteq T
    BY <2>2
  <2>3. in[was[a]] \cap DOMAIN in \subseteq T
    BY <1>2, <2>2
  <2>4. SelfFed(in, T)
    BY <1>2, <2>2 DEF SelfFed
  <2>5. was[a] \in DOMAIN in /\ was[b] \in DOMAIN in
    OBVIOUS
  <2> HIDE DEF T
  <2>6. was[b] \in T
    BY <1>2, <2>1, <2>3, <2>4, <2>5, DependsIff
  <2> QED
    BY <2>6 DEF T
<1>3. was[a] \in DOMAIN in /\ was[b] \in DOMAIN in
  OBVIOUS
<1> QED
  BY <1>1, <1>2, <1>3, DependsIff

-----------------------------------------------------------------------------
KeepsDependencies(f, g) ==
  \A n, m \in DOMAIN f \cap DOMAIN g : DependsOn(Wiring(g), n, m) <=> DependsOn(Wiring(f), n, m)

\* g is as sound as f, and has its dependencies.
Keeps(f, g) == Sound(f) => Sound(g) /\ KeepsDependencies(f, g)

(* A wiring has the nodes of the flow, and as inputs those that are named at least once. *)
LEMMA WiringFacts ==
  ASSUME NEW f
  PROVE  DOMAIN Wiring(f) = DOMAIN f /\ \A n \in DOMAIN f : Wiring(f)[n] = DOMAIN f[n]
BY DEF Wiring, BagToSet

(* node() *)
LEMMA DefineKeeps ==
  ASSUME NEW n \in Name, Define(n)
  PROVE  Keeps(flow, flow')
<1>1. /\ DOMAIN flow' = DOMAIN flow \cup {n}
      /\ \A m \in DOMAIN flow : flow'[m] = flow[m]
      /\ n \notin DOMAIN flow => DOMAIN flow'[n] = {}
  BY DEF Define, Update, WithNode, EmptyBag, SetToBag
<1> DEFINE in == Wiring(flow)
           new == Wiring(flow')
<1>2. /\ DOMAIN in = DOMAIN flow /\ DOMAIN new = DOMAIN in \cup {n}
      /\ \A m \in DOMAIN in : new[m] = in[m]
      /\ n \notin DOMAIN in => new[n] = {}
  BY <1>1 DEF Wiring, BagToSet
<1> HIDE DEF in, new
<1>3. ASSUME EdgesDefined(in), IsDag(in) PROVE EdgesDefined(new) /\ IsDag(new)
  <2>1. EdgesDefined(new)
    BY <1>2, <1>3 DEF EdgesDefined
  <2>2. \A m \in DOMAIN in : ~ DependsOn(new, m, m)
    BY <1>2, <1>3, ExtensionKeeps DEF IsDag
  <2>3. n \notin DOMAIN in => ~ DependsOn(new, n, n)
    BY <1>2 DEF DependsOn
  <2> QED
    BY <1>2, <2>1, <2>2, <2>3 DEF IsDag
<1>4. ASSUME EdgesDefined(in), NEW x \in DOMAIN in, NEW y \in DOMAIN in
      PROVE  DependsOn(new, x, y) <=> DependsOn(in, x, y)
  BY <1>2, <1>4, ExtensionKeeps
<1> QED
  BY <1>2, <1>3, <1>4 DEF Keeps, Sound, KeepsDependencies, in, new

(* One step of remove_node(). *)
LEMMA WithoutNodeKeeps ==
  ASSUME NEW f, NEW n \in DOMAIN f
  PROVE  DOMAIN WithoutNode(f, n) = DOMAIN f \ {n} /\ Keeps(f, WithoutNode(f, n))
<1> DEFINE in == Wiring(f)
           new == Wiring(WithoutNode(f, n))
<1>1. DOMAIN WithoutNode(f, n) = DOMAIN f \ {n}
  BY DEF WithoutNode
<1>2. \A m \in DOMAIN f \ {n} :
        DOMAIN WithoutNode(f, n)[m] = IF n \in DOMAIN f[m] THEN (DOMAIN f[m] \ {n}) \cup DOMAIN f[n]
                                      ELSE DOMAIN f[m]
  BY DEF WithoutNode, BagIn, BagToSet, SetToBag
<1>3. DOMAIN in = DOMAIN f /\ new = Bypassed(in, n)
  BY <1>1, <1>2, WiringFacts DEF Bypassed, Wiring, BagToSet
<1> HIDE DEF in, new
<1>4. ASSUME EdgesDefined(in), IsDag(in)
      PROVE  /\ EdgesDefined(new) /\ IsDag(new)
             /\ \A x, y \in DOMAIN new : DependsOn(new, x, y) <=> DependsOn(in, x, y)
  <2>1. n \notin in[n]
    BY <1>3, <1>4 DEF IsDag, DependsOn, Cone
  <2>2. \A x, y \in DOMAIN new : DependsOn(new, x, y) <=> DependsOn(in, x, y)
    BY <1>3, <1>4, <2>1, BypassKeeps DEF Bypassed
  <2>3. EdgesDefined(new)
    BY <1>3, <1>4, <2>1 DEF EdgesDefined, Bypassed
  <2>4. IsDag(new)
    BY <1>3, <1>4, <2>2 DEF IsDag, Bypassed
  <2> QED
    BY <2>2, <2>3, <2>4
<1>5. DOMAIN new = DOMAIN f \ {n}
  BY <1>3 DEF Bypassed
<1> QED
  BY <1>1, <1>4, <1>5 DEF Keeps, Sound, KeepsDependencies, in, new

(* insert_node() with a new name. *)
LEMMA InsertNodeKeeps ==
  ASSUME NEW n \in Name \ Nodes, NEW before \in Nodes, InsertNode(n, before)
  PROVE  Keeps(flow, flow')
<1> DEFINE in == Wiring(flow)
           new == Wiring(flow')
           g == WithNode(flow, n)
<1>1. DOMAIN g = DOMAIN flow \cup {n} /\ \A m \in DOMAIN flow : g[m] = flow[m]
  BY DEF WithNode
<1>2. /\ DOMAIN flow' = DOMAIN flow \cup {n}
      /\ DOMAIN flow'[n] = {before}
      /\ \A m \in DOMAIN flow :
           flow'[m] = IF before \in DOMAIN flow[m] THEN BE!BagAdd(BE!BagRemove(flow[m], before), n) ELSE flow[m]
  BY <1>1 DEF InsertNode, Update, WithInserted, BagIn, BagToSet, SetToBag, Nodes
<1>3. ASSUME NEW m \in DOMAIN flow, before \in DOMAIN flow[m]
      PROVE  /\ DOMAIN flow'[m] \subseteq DOMAIN flow[m] \cup {n}
             /\ DOMAIN flow[m] \ {before} \subseteq DOMAIN flow'[m]
             /\ n \in DOMAIN flow'[m]
  <2>1. DOMAIN BE!BagRemove(flow[m], before) \in {DOMAIN flow[m], DOMAIN flow[m] \ {before}}
    BY <1>3 DEF BE!BagRemove
  <2>2. \A B : DOMAIN BE!BagAdd(B, n) = DOMAIN B \cup {n}
    BY DEF BE!BagAdd
  <2>3. flow'[m] = BE!BagAdd(BE!BagRemove(flow[m], before), n)
    BY <1>2, <1>3
  <2>4. DOMAIN flow'[m] = DOMAIN BE!BagRemove(flow[m], before) \cup {n}
    BY <2>2, <2>3
  <2> QED
    BY <2>1, <2>4
<1>4. EdgesDefined(in) => Inserts(in, new, n, before)
  <2>1. /\ DOMAIN in = DOMAIN flow /\ DOMAIN new = DOMAIN flow \cup {n}
        /\ new[n] = {before}
        /\ \A m \in DOMAIN flow : in[m] = DOMAIN flow[m] /\ new[m] = DOMAIN flow'[m]
    BY <1>2 DEF Wiring, BagToSet
  <2>2. \A m \in DOMAIN flow : before \notin DOMAIN flow[m] => new[m] = in[m]
    BY <1>2, <2>1
  <2> HIDE DEF in, new
  <2> QED
    BY <1>3, <2>1, <2>2 DEF Inserts, EdgesDefined, Nodes
<1>5. DOMAIN in = DOMAIN flow /\ DOMAIN new = DOMAIN flow'
  BY WiringFacts
<1> HIDE DEF in, new
<1>6. Sound(flow) => EdgesDefined(new) /\ IsDag(new)
  BY <1>4, InsertIsDag DEF Sound, in
<1>7. Sound(flow) => \A x, y \in DOMAIN in : DependsOn(new, x, y) <=> DependsOn(in, x, y)
  BY <1>4, InsertKeeps DEF Sound, in
<1> QED
  BY <1>5, <1>6, <1>7 DEF Keeps, Sound, KeepsDependencies, in, new

(* graph() of a flow whose steps are new. *)
LEMMA InstantiateKeeps ==
  ASSUME NEW sub \in Subflows, Sound(sub), Steps(sub) \cap Steps(flow) = {}, Instantiate(sub)
  PROVE  Keeps(flow, flow')
<1>1. /\ DOMAIN flow' = DOMAIN flow \cup DOMAIN sub
      /\ \A n \in DOMAIN flow' : flow'[n] = IF n \in DOMAIN sub THEN sub[n] ELSE flow[n]
  <2>1. {n \in DOMAIN sub : n[1] \in Steps(sub)} = DOMAIN sub
    BY DEF Steps
  <2> QED
    BY <2>1 DEF Instantiate, Update, Nodes
<1>2. DOMAIN flow \cap DOMAIN sub = {}
  BY DEF Steps
<1> DEFINE in == Wiring(flow)
           new == Wiring(flow')
           part == Wiring(sub)
<1>3. /\ DOMAIN in = DOMAIN flow /\ DOMAIN new = DOMAIN in \cup DOMAIN part
      /\ \A n \in DOMAIN in : new[n] = in[n]
      /\ \A n \in DOMAIN part : new[n] = part[n]
  <2>1. /\ DOMAIN in = DOMAIN flow /\ DOMAIN part = DOMAIN sub /\ DOMAIN new = DOMAIN flow'
        /\ \A n \in DOMAIN flow : in[n] = DOMAIN flow[n]
        /\ \A n \in DOMAIN sub : part[n] = DOMAIN sub[n]
        /\ \A n \in DOMAIN flow' : new[n] = DOMAIN flow'[n]
    BY DEF Wiring, BagToSet
  <2> HIDE DEF in, new, part
  <2> QED
    BY <1>1, <1>2, <2>1
<1> HIDE DEF in, new, part
<1>4. EdgesDefined(part) /\ IsDag(part)
  BY DEF Sound, part
<1>5. ASSUME EdgesDefined(in), IsDag(in)
      PROVE  /\ EdgesDefined(new) /\ IsDag(new)
             /\ \A x, y \in DOMAIN in : DependsOn(new, x, y) <=> DependsOn(in, x, y)
  <2>1. \A x, y \in DOMAIN in : DependsOn(new, x, y) <=> DependsOn(in, x, y)
    BY <1>3, <1>5, ExtensionKeeps
  <2>2. \A x, y \in DOMAIN part : DependsOn(new, x, y) <=> DependsOn(part, x, y)
    BY <1>3, <1>4, ExtensionKeeps
  <2>3. EdgesDefined(new)
    BY <1>3, <1>4, <1>5 DEF EdgesDefined
  <2>4. IsDag(new)
    BY <1>3, <1>4, <1>5, <2>1, <2>2 DEF IsDag
  <2> QED
    BY <2>1, <2>3, <2>4
<1> QED
  BY <1>3, <1>5 DEF Keeps, Sound, KeepsDependencies, in, new

-----------------------------------------------------------------------------
\* remove_node() of the nodes in s, in the order in which CHOOSE takes them.
Picked(s) == CHOOSE n \in s : TRUE
Removal(g, s) == IF s = {} THEN flow ELSE WithoutNode(g[s \ {Picked(s)}], Picked(s))

(* The fold of RemoveStep is defined for every set of nodes. *)
LEMMA RemovalIsDefined ==
  ASSUME NEW S, IsFiniteSet(S)
  PROVE  \E g : /\ \A s \in SUBSET S : g[s] = Removal(g, s)
                /\ FoldSet(LAMBDA n, f : WithoutNode(f, n), flow, S) = g[S]
<1> DEFINE Up(k)   == {s \in SUBSET S : Cardinality(s) <= k}
           Good(k) == \E g : g = [s \in Up(k) |-> Removal(g, s)]
<1>1. \A s \in SUBSET S : IsFiniteSet(s) /\ Cardinality(s) \in Nat /\ Cardinality(s) <= Cardinality(S)
  BY FS_Subset, FS_CardinalityType
<1>2. ASSUME NEW s \in SUBSET S, s # {}
      PROVE  s \ {Picked(s)} \in SUBSET S /\ Cardinality(s \ {Picked(s)}) = Cardinality(s) - 1
  BY <1>1, <1>2, FS_RemoveElement DEF Picked
<1>3. Good(0)
  <2>1. \A s \in Up(0) : s = {}
    <3>1. \A s \in Up(0) : s # {} => Cardinality(s) - 1 \in Nat
      BY <1>1, <1>2
    <3> QED
      BY <1>1, <3>1
  <2>2. [s \in Up(0) |-> flow] = [s \in Up(0) |-> Removal([t \in Up(0) |-> flow], s)]
    BY <2>1 DEF Removal
  <2> QED
    BY <2>2
<1>4. ASSUME NEW k \in Nat, Good(k) PROVE Good(k + 1)
  <2>1. PICK g : g = [s \in Up(k) |-> Removal(g, s)]
    BY <1>4
  <2> DEFINE h == [s \in Up(k + 1) |-> Removal(g, s)]
  <2>2. \A s \in Up(k + 1) : s # {} => s \ {Picked(s)} \in Up(k)
    BY <1>1, <1>2
  <2>3. \A s \in Up(k) : s \in Up(k + 1)
    BY <1>1
  <2>4. \A s \in Up(k) : h[s] = g[s]
    <3> HIDE DEF Up
    <3> QED
      BY <2>1, <2>3
  <2>5. ASSUME NEW s \in Up(k + 1) PROVE Removal(h, s) = Removal(g, s)
    <3> DEFINE rest == s \ {Picked(s)}
    <3>1. s # {} => h[rest] = g[rest]
      BY <2>2, <2>4
    <3> HIDE DEF h
    <3> QED
      BY <3>1 DEF Removal
  <2>6. h = [s \in Up(k + 1) |-> Removal(h, s)]
    <3> HIDE DEF Up
    <3> QED
      BY <2>5
  <2> QED
    BY <2>6
<1>5. \A k \in Nat : Good(k)
  <2> DEFINE G == {k \in Nat : Good(k)}
  <2> HIDE DEF Good
  <2>1. G \in SUBSET Nat /\ 0 \in G /\ \A k \in G : k + 1 \in G
    BY <1>3, <1>4
  <2> HIDE DEF G
  <2>2. G = Nat
    BY <2>1, NatSet
  <2> QED
    BY <2>2 DEF G
<1>6. \E g : g = [s \in SUBSET S |-> Removal(g, s)]
  <2>1. Cardinality(S) \in Nat /\ Up(Cardinality(S)) = SUBSET S
    BY <1>1
  <2>2. Good(Cardinality(S))
    BY <1>5, <2>1
  <2> QED
    BY <2>1, <2>2
<1> DEFINE iter == CHOOSE g : g = [s \in SUBSET S |-> Removal(g, s)]
<1>7. FoldSet(LAMBDA n, f : WithoutNode(f, n), flow, S) = iter[S]
  BY Zenon DEF FoldSet, MapThenFoldSet, Removal, Picked
<1>8. iter = [s \in SUBSET S |-> Removal(iter, s)]
  BY <1>6
<1>9. \A s \in SUBSET S : iter[s] = Removal(iter, s)
  <2> HIDE DEF iter
  <2>1. \A s \in SUBSET S : [u \in SUBSET S |-> Removal(iter, u)][s] = Removal(iter, s)
    OBVIOUS
  <2> QED
    BY <1>8, <2>1
<1> QED
  BY <1>7, <1>9

(* Keeps composes over flows that lose nodes. *)
LEMMA KeepsTwice ==
  ASSUME NEW f, NEW g, NEW h, DOMAIN h \subseteq DOMAIN g, DOMAIN g \subseteq DOMAIN f,
         Keeps(f, g), Keeps(g, h)
  PROVE  Keeps(f, h)
BY DEF Keeps, KeepsDependencies

(* remove_node() of a step. *)
LEMMA RemoveStepKeeps ==
  ASSUME NEW s, IsFiniteSet(DOMAIN flow), RemoveStep(s)
  PROVE  Keeps(flow, flow') /\ DOMAIN flow' \subseteq DOMAIN flow
<1> DEFINE S == {n \in Nodes : n[1] = s}
<1>1. S \subseteq DOMAIN flow /\ IsFiniteSet(S)
  BY FS_Subset DEF Nodes
<1>2. flow' = FoldSet(LAMBDA n, f : WithoutNode(f, n), flow, S)
  BY Zenon DEF RemoveStep, Update
<1> HIDE DEF S
<1>3. PICK g : /\ \A T \in SUBSET S : g[T] = Removal(g, T)
               /\ flow' = g[S]
  BY <1>1, <1>2, RemovalIsDefined
<1> DEFINE Good(T) == DOMAIN g[T] = DOMAIN flow \ T /\ Keeps(flow, g[T])
           Bad == {T \in SUBSET S : ~ Good(T)}
<1>4. Bad = {}
  <2> SUFFICES ASSUME Bad # {} PROVE FALSE
    OBVIOUS
  <2>1. PICK T \in Bad : \A U \in Bad : Cardinality(T) <= Cardinality(U)
    BY <1>1, LeastSet
  <2>2. T # {}
    BY <1>3, <2>1 DEF Removal, Keeps, KeepsDependencies
  <2> DEFINE n == Picked(T)
             U == T \ {n}
  <2>3. n \in T /\ U \in SUBSET S
    BY <2>2 DEF Picked
  <2>4. g[T] = WithoutNode(g[U], n)
    BY <1>3, <2>2 DEF Removal
  <2> HIDE DEF n
  <2>5. Cardinality(U) < Cardinality(T) /\ Cardinality(U) \in Nat /\ Cardinality(T) \in Nat
    BY <1>1, <2>3, FS_Subset, FS_RemoveElement, FS_CardinalityType
  <2>6. Good(U)
    <3> HIDE DEF Good, U
    <3> QED
      BY <2>1, <2>3, <2>5
  <2>7. n \in DOMAIN g[U]
    BY <1>1, <2>3, <2>6
  <2>8. DOMAIN g[T] = DOMAIN g[U] \ {n} /\ Keeps(g[U], g[T])
    BY <2>4, <2>7, WithoutNodeKeeps
  <2>9. Keeps(flow, g[T])
    BY <2>6, <2>8, KeepsTwice
  <2>10. DOMAIN g[T] = DOMAIN flow \ T
    BY <2>3, <2>6, <2>8
  <2> QED
    BY <2>1, <2>9, <2>10
<1>5. Good(S)
  <2> HIDE DEF Good
  <2> QED
    BY <1>4
<1> QED
  BY <1>3, <1>5

(* remove_node() of a node. *)
LEMMA RemoveNodeKeeps ==
  ASSUME NEW n, RemoveNode(n)
  PROVE  Keeps(flow, flow') /\ DOMAIN flow' \subseteq DOMAIN flow
BY WithoutNodeKeeps DEF RemoveNode, Update, Nodes

(* rename_node(): the new name of a node, and its old one. *)
Renames(s, t, n) == IF n[1] = s THEN <<t, n[2]>> ELSE n
RenamedFrom(s, t, n) == IF n[1] = t THEN <<s, n[2]>> ELSE n

IsRenamed(g, f, s, t) ==
  /\ DOMAIN g = {Renames(s, t, m) : m \in DOMAIN f}
  /\ \A m \in DOMAIN f : RenamedFrom(s, t, Renames(s, t, m)) = m
  /\ \A m \in DOMAIN f : DOMAIN g[Renames(s, t, m)] = {Renames(s, t, i) : i \in DOMAIN f[m]}

(* rename() gives every node and every input its new name. *)
LEMMA RenameFacts ==
  ASSUME NEW s, NEW t, RenameStep(s, t), DOMAIN flow \subseteq Name
  PROVE  IsRenamed(flow', flow, s, t)
<1>1. \A B : DOMAIN BagOfAll(LAMBDA n : Renames(s, t, n), B) = {Renames(s, t, i) : i \in DOMAIN B}
  BY DEF BagOfAll, BagToSet
<1>2. flow' = [n \in {Renames(s, t, m) : m \in DOMAIN flow} |->
                 BagOfAll(LAMBDA m : Renames(s, t, m), flow[RenamedFrom(s, t, n)])]
  BY Zenon DEF RenameStep, Update, Renamed, Renames, RenamedFrom
<1>3. ASSUME NEW m \in DOMAIN flow
      PROVE  RenamedFrom(s, t, Renames(s, t, m)) = m
  <2>1. m = <<m[1], m[2]>> /\ m[1] # t
    BY <1>3, Assumptions DEF RenameStep, Steps
  <2> QED
    BY <2>1 DEF Renames, RenamedFrom
<1>4. ASSUME NEW m \in DOMAIN flow
      PROVE  DOMAIN flow'[Renames(s, t, m)] = {Renames(s, t, i) : i \in DOMAIN flow[m]}
  <2>1. flow'[Renames(s, t, m)] = BagOfAll(LAMBDA n : Renames(s, t, n), flow[m])
    BY <1>2, <1>3
  <2> QED
    BY <1>1, <2>1
<1> QED
  BY <1>2, <1>3, <1>4 DEF IsRenamed

(* A renamed flow is as sound as before, and has the same dependencies. *)
LEMMA RenameKeeps ==
  ASSUME NEW s, NEW t, RenameStep(s, t), DOMAIN flow \subseteq Name, Sound(flow)
  PROVE  Sound(flow') /\ SameUnderRename(s, t)
<1> DEFINE in  == Wiring(flow)
           new == Wiring(flow')
           was == [x \in DOMAIN new |-> RenamedFrom(s, t, x)]
<1>1. DOMAIN in = DOMAIN flow /\ DOMAIN new = DOMAIN flow'
  BY WiringFacts
<1> IsRenamed(flow', flow, s, t)
  BY RenameFacts
<1>2. /\ \A x \in DOMAIN new : \E m \in DOMAIN in : x = Renames(s, t, m)
      /\ \A m \in DOMAIN in : Renames(s, t, m) \in DOMAIN new
      /\ \A m \in DOMAIN in : was[Renames(s, t, m)] = m
  BY <1>1 DEF IsRenamed
<1>3. \A m \in DOMAIN in : new[Renames(s, t, m)] = {Renames(s, t, i) : i \in in[m]}
  BY <1>1, <1>2, WiringFacts DEF IsRenamed
<1>4. EdgesDefined(in) /\ IsDag(in)
  BY DEF Sound
<1>5. \A x \in DOMAIN new : was[x] = RenamedFrom(s, t, x)
  OBVIOUS
<1>6. \A x \in DOMAIN new : was[x] \in DOMAIN in
  <2> HIDE DEF in, new, was
  <2> QED
    BY <1>2
<1>7. was \in [DOMAIN new -> DOMAIN in]
  BY <1>5, <1>6
<1> HIDE DEF in, new, was
<1>8. \A x \in DOMAIN new : new[x] \subseteq DOMAIN new
  BY <1>2, <1>3, <1>4 DEF EdgesDefined
<1>9. ASSUME NEW x \in DOMAIN new, NEW i \in DOMAIN new
      PROVE  i \in new[x] <=> was[i] \in in[was[x]]
  <2>1. PICK m \in DOMAIN in : x = Renames(s, t, m)
    BY <1>2
  <2>2. PICK j \in DOMAIN in : i = Renames(s, t, j)
    BY <1>2
  <2>3. was[x] = m /\ was[i] = j /\ \A k \in in[m] : k \in DOMAIN in
    BY <1>2, <1>4, <2>1, <2>2 DEF EdgesDefined
  <2>4. i \in new[x] <=> \E k \in in[m] : i = Renames(s, t, k)
    BY <1>3, <2>1
  <2> QED
    BY <1>2, <2>2, <2>3, <2>4
<1>10. /\ \A m \in DOMAIN in : \E x \in DOMAIN new : was[x] = m
       /\ \A x, y \in DOMAIN new : was[x] = was[y] => x = y
  BY <1>2
<1>11. \A a, b \in DOMAIN new : DependsOn(new, a, b) <=> DependsOn(in, was[a], was[b])
  BY <1>4, <1>7, <1>8, <1>9, <1>10, RenamingKeeps
<1>12. Sound(flow')
  BY <1>4, <1>7, <1>8, <1>11 DEF Sound, EdgesDefined, IsDag, new
<1>13. SameUnderRename(s, t)
  BY <1>1, <1>5, <1>11 DEF SameUnderRename, RenamedFrom, In, in, new
<1> QED
  BY <1>12, <1>13

-----------------------------------------------------------------------------
Invariant == DOMAIN flow \subseteq Name /\ IsFiniteSet(DOMAIN flow)

(* A step leaves finitely many nodes behind. *)
LEMMA InvariantStep ==
  ASSUME Invariant, [Next]_flow
  PROVE  Invariant'
<1>1. CASE UNCHANGED flow
  BY <1>1 DEF Invariant
<1>2. CASE \E n \in Name : Define(n)
  <2>1. \E n \in Name : DOMAIN flow' = DOMAIN flow \cup {n}
    BY <1>2 DEF Define, Update, WithNode
  <2> QED
    BY <2>1, FS_AddElement DEF Invariant
<1>3. CASE \E n \in Name : RemoveNode(n)
  BY <1>3, RemoveNodeKeeps, FS_Subset DEF Invariant
<1>4. CASE \E n, m \in Name : Edge(n, m)
  <2>1. DOMAIN flow' = DOMAIN flow
    BY <1>4 DEF Edge, Update
  <2> QED
    BY <2>1 DEF Invariant
<1>5. CASE \E n, m \in Name : InsertNode(n, m)
  <2>1. \E n \in Name : DOMAIN flow' = DOMAIN flow \cup {n}
    BY <1>5 DEF InsertNode, Update, WithInserted, WithNode
  <2> QED
    BY <2>1, FS_AddElement DEF Invariant
<1>6. CASE \E s \in Steps(flow) : RemoveStep(s)
  BY <1>6, RemoveStepKeeps, FS_Subset DEF Invariant
<1>7. CASE \E s \in Steps(flow), t \in {n[1] : n \in Name} : RenameStep(s, t)
  <2>1. PICK s, t : RenameStep(s, t)
    BY <1>7
  <2>2. IsRenamed(flow', flow, s, t)
    BY <2>1, RenameFacts DEF Invariant
  <2> DEFINE new == [m \in DOMAIN flow |-> Renames(s, t, m)]
  <2>3. IsFiniteSet(DOMAIN flow')
    <3>1. new \in Surjection(DOMAIN flow, DOMAIN flow')
      BY <2>2 DEF IsRenamed, Surjection
    <3> QED
      BY <3>1, FS_Surjection DEF Invariant
  <2>4. DOMAIN flow' \subseteq Name
    BY <2>1 DEF RenameStep, Update, Bounded
  <2> QED
    BY <2>3, <2>4 DEF Invariant
<1>8. CASE \E sub \in Subflows : Instantiate(sub)
  <2> DEFINE Grows(new) == DOMAIN flow' = DOMAIN flow \cup new
  <2>1. PICK sub \in Subflows : \E new \in SUBSET (DOMAIN sub) : Grows(new)
    BY <1>8 DEF Instantiate, Update, Nodes
  <2> QED
    BY <2>1, FS_Subset, FS_Union, Assumptions DEF Invariant
<1> QED
  BY <1>1, <1>2, <1>3, <1>4, <1>5, <1>6, <1>7, <1>8 DEF Next

(* Flows are finite, in every reachable state. *)
LEMMA AlwaysInvariant == Spec => []Invariant
<1>1. Init => Invariant
  <2>1. DOMAIN <<>> = {}
    OBVIOUS
  <2> QED
    BY <2>1, FS_EmptySet DEF Init, Invariant
<1> QED
  BY <1>1, InvariantStep, PTL DEF Spec

(* What a call that is not meant to add a dependency leaves alone. *)
LEMMA RestructureKeeps ==
  ASSUME Invariant, Restructure
  PROVE  Keeps(flow, flow')
BY DefineKeeps, RemoveNodeKeeps, InsertNodeKeeps, RemoveStepKeeps, InstantiateKeeps
   DEF Invariant, Restructure

(***************************************************************************)
(* Whatever the flow and the edits made to it: only edge(), insert_node()  *)
(* with a name in use, and a graph() that raised make a flow unsound.      *)
(***************************************************************************)
THEOREM EditsAreSound == Spec => EditsKeepSoundness
<1> DEFINE Kept == /\ Sound(flow)
                   /\ Restructure \/ \E s \in Steps(flow), t \in Steps(flow') : RenameStep(s, t)
                   => Sound(flow')
<1>1. ASSUME Invariant, [Next]_flow PROVE Kept
  BY <1>1, RestructureKeeps, RenameKeeps DEF Keeps, Invariant
<1>2. Kept => [Kept]_flow
  OBVIOUS
<1> QED
  BY <1>1, <1>2, AlwaysInvariant, PTL DEF Spec, EditsKeepSoundness

(***************************************************************************)
(* Removing, inserting and renaming nodes, and instantiating a flow beside *)
(* them, leave every other dependency of the flow as it was.               *)
(***************************************************************************)
THEOREM EditsAreFaithful == Spec => EditsKeepDependencies
<1> DEFINE Kept == Sound(flow) =>
              /\ Restructure =>
                   \A n, m \in Nodes \cap DOMAIN flow' :
                     DependsOn(Wiring(flow'), n, m) <=> DependsOn(In, n, m)
              /\ \A s \in Steps(flow), t \in Steps(flow') \ Steps(flow) :
                   RenameStep(s, t) => SameUnderRename(s, t)
<1>1. ASSUME Invariant, [Next]_flow PROVE Kept
  BY <1>1, RestructureKeeps, RenameKeeps DEF Keeps, KeepsDependencies, Invariant, Nodes, In
<1>2. Kept => [Kept]_flow
  OBVIOUS
<1> QED
  BY <1>1, <1>2, AlwaysInvariant, PTL DEF Spec, EditsKeepDependencies

-----------------------------------------------------------------------------
(* get_execution_order().  First: the recursion of Levels is a function.   *)
LastLevel(in) == 2 * Cardinality(DOMAIN in)

LevelsFrom(in, g, k) ==
  IF k = 0 THEN [level |-> EntryNodes(in), visited |-> {}] ELSE NextLevel(in, g[k - 1])

(* Every level is computed from the one before. *)
LEMMA LevelsAreDefined ==
  ASSUME NEW in, IsFiniteSet(DOMAIN in)
  PROVE  /\ LastLevel(in) \in Nat
         /\ DOMAIN Levels(in) = 0 .. LastLevel(in)
         /\ \A k \in 0 .. LastLevel(in) : Levels(in)[k] = LevelsFrom(in, Levels(in), k)
<1> DEFINE Good(k) == \E g : g = [j \in 0 .. k |-> LevelsFrom(in, g, j)]
           N == LastLevel(in)
<1>1. N \in Nat
  BY FS_CardinalityType DEF LastLevel
<1>2. Good(0)
  <2> DEFINE g == [j \in 0 .. 0 |-> [level |-> EntryNodes(in), visited |-> {}]]
  <2>1. g = [j \in 0 .. 0 |-> LevelsFrom(in, g, j)]
    BY DEF LevelsFrom
  <2> QED
    BY <2>1
<1>3. ASSUME NEW k \in Nat, Good(k) PROVE Good(k + 1)
  <2>1. PICK g : g = [j \in 0 .. k |-> LevelsFrom(in, g, j)]
    BY <1>3
  <2> DEFINE h == [j \in 0 .. (k + 1) |-> LevelsFrom(in, g, j)]
  <2>2. \A j \in 0 .. k : h[j] = g[j]
    BY <2>1
  <2>3. ASSUME NEW j \in 0 .. (k + 1) PROVE LevelsFrom(in, h, j) = LevelsFrom(in, g, j)
    <3>1. j # 0 => h[j - 1] = g[j - 1]
      BY <2>2
    <3> HIDE DEF h
    <3> QED
      BY <3>1 DEF LevelsFrom
  <2>4. h = [j \in 0 .. (k + 1) |-> LevelsFrom(in, h, j)]
    BY <2>3
  <2> QED
    BY <2>4
<1>4. \A k \in Nat : Good(k)
  <2> DEFINE G == {k \in Nat : Good(k)}
  <2> HIDE DEF Good
  <2>1. G \in SUBSET Nat /\ 0 \in G /\ \A k \in G : k + 1 \in G
    BY <1>2, <1>3
  <2> HIDE DEF G
  <2>2. G = Nat
    BY <2>1, NatSet
  <2> QED
    BY <2>2 DEF G
<1>5. \E g : g = [k \in 0 .. N |-> LevelsFrom(in, g, k)]
  BY <1>1, <1>4
<1> DEFINE levels == CHOOSE g : g = [k \in 0 .. N |-> LevelsFrom(in, g, k)]
<1>6. Levels(in) = levels
  BY Zenon DEF Levels, LevelsFrom, LastLevel
<1>7. levels = [k \in 0 .. N |-> LevelsFrom(in, levels, k)]
  BY <1>5
<1> HIDE DEF levels
<1>8. DOMAIN levels = 0 .. N /\ \A k \in 0 .. N : levels[k] = LevelsFrom(in, levels, k)
  <2>1. \A k \in 0 .. N : [j \in 0 .. N |-> LevelsFrom(in, levels, j)][k] = LevelsFrom(in, levels, k)
    OBVIOUS
  <2> QED
    BY <1>7, <2>1
<1> QED
  BY <1>1, <1>6, <1>8

(* The same, without the case distinction. *)
LEMMA LevelsUnfold ==
  ASSUME NEW in, IsFiniteSet(DOMAIN in)
  PROVE  /\ Levels(in)[0] = [level |-> EntryNodes(in), visited |-> {}]
         /\ \A k \in Nat : k + 1 <= LastLevel(in) =>
              Levels(in)[k + 1] = NextLevel(in, Levels(in)[k])
<1>1. 0 \in 0 .. LastLevel(in)
  BY LevelsAreDefined
<1>2. ASSUME NEW k \in Nat, k + 1 <= LastLevel(in)
      PROVE  k + 1 \in 0 .. LastLevel(in) /\ k + 1 # 0 /\ (k + 1) - 1 = k
  BY <1>2, LevelsAreDefined
<1>3. /\ LevelsFrom(in, Levels(in), 0) = [level |-> EntryNodes(in), visited |-> {}]
      /\ \A k \in Nat : k + 1 # 0 /\ (k + 1) - 1 = k =>
           LevelsFrom(in, Levels(in), k + 1) = NextLevel(in, Levels(in)[k])
  BY DEF LevelsFrom
<1>4. \A k \in 0 .. LastLevel(in) : Levels(in)[k] = LevelsFrom(in, Levels(in), k)
  BY LevelsAreDefined
<1> QED
  BY <1>1, <1>2, <1>3, <1>4

(* A flow without loops has a node, among those not visited, all of whose  *)
(* inputs have been.                                                       *)
LEMMA SomeNodeIsReady ==
  ASSUME NEW in, IsFiniteSet(DOMAIN in), EdgesDefined(in), IsDag(in),
         NEW V \in SUBSET (DOMAIN in), V # DOMAIN in
  PROVE  \E n \in DOMAIN in \ V : in[n] \subseteq V
<1> DEFINE Below(n) == {m \in DOMAIN in : DependsOn(in, n, m)}
           B == {Below(n) : n \in DOMAIN in \ V}
<1>1. B \in SUBSET (SUBSET (DOMAIN in)) /\ B # {}
  OBVIOUS
<1> HIDE DEF B
<1>2. PICK T \in B : \A U \in B : Cardinality(T) <= Cardinality(U)
  BY <1>1, LeastSet
<1>3. PICK n \in DOMAIN in \ V : T = Below(n)
  BY <1>2 DEF B
<1> SUFFICES ASSUME NEW i \in in[n], i \notin V PROVE FALSE
  BY <1>3
<1>4. i \in DOMAIN in \ V
  BY <1>3 DEF EdgesDefined
<1>5. i \in Below(n) /\ i \notin Below(i)
  BY <1>3, <1>4 DEF DependsOn, Cone, IsDag
<1>6. Below(i) \subseteq Below(n)
  <2> SUFFICES ASSUME NEW m \in DOMAIN in, DependsOn(in, i, m) PROVE DependsOn(in, n, m)
    OBVIOUS
  <2>1. ASSUME NEW S \in SUBSET (DOMAIN in), in[n] \cap DOMAIN in \subseteq S, SelfFed(in, S)
        PROVE  m \in S
    <3>1. i \in S /\ in[i] \cap DOMAIN in \subseteq S
      BY <1>4, <2>1 DEF SelfFed
    <3> QED
      BY <1>4, <2>1, <3>1, DependsIff
  <2> QED
    BY <1>3, <2>1, DependsIff
<1>7. Cardinality(Below(i)) < Cardinality(Below(n))
  <2>1. IsFiniteSet(Below(n)) /\ Below(i) # Below(n)
    BY <1>5, FS_Subset
  <2> HIDE DEF Below
  <2> QED
    BY <1>6, <2>1, FS_Subset, FS_CardinalityType
<1>8. Cardinality(Below(i)) \in Nat /\ Cardinality(Below(n)) \in Nat
  <2>1. IsFiniteSet(Below(n)) /\ IsFiniteSet(Below(i))
    BY FS_Subset
  <2> HIDE DEF Below
  <2> QED
    BY <2>1, FS_CardinalityType
<1>9. Below(i) \in B
  BY <1>4 DEF B
<1> HIDE DEF Below
<1> QED
  BY <1>2, <1>3, <1>7, <1>8, <1>9

(***************************************************************************)
(* What the loop of get_execution_order() keeps: a node waits on a level   *)
(* from the first visit of one of its inputs to its own, which comes when  *)
(* all of them have been visited.                                          *)
(***************************************************************************)
LevelInv(in, at) ==
  /\ at.level \subseteq DOMAIN in /\ at.visited \subseteq DOMAIN in
  /\ at.level \cap at.visited = {}
  /\ \A n \in at.visited : in[n] \subseteq at.visited
  /\ \A n \in DOMAIN in \ at.visited :
       in[n] = {} \/ in[n] \cap at.visited # {} => n \in at.level

(* One level keeps it. *)
LEMMA NextLevelInv ==
  ASSUME NEW in, NEW at, LevelInv(in, at), EdgesDefined(in)
  PROVE  LevelInv(in, NextLevel(in, at))
<1> DEFINE valid == {n \in at.level : in[n] \subseteq at.visited}
           L == (at.level \ valid) \cup UNION {NodeOutputs(in)[n] : n \in valid \ at.visited}
           V == at.visited \cup valid
<1>1. NextLevel(in, at) = [level |-> L, visited |-> V]
  BY DEF NextLevel
<1>2. \A m : m \in L <=> \/ m \in at.level /\ m \notin valid
                         \/ m \in DOMAIN in /\ \E n \in valid : n \in in[m]
  <2>1. valid \ at.visited = valid /\ valid \subseteq DOMAIN in
    BY DEF LevelInv
  <2>2. \A n \in valid : NodeOutputs(in)[n] = {m \in DOMAIN in : n \in in[m]}
    BY <2>1 DEF NodeOutputs
  <2> HIDE DEF valid
  <2> QED
    BY <2>1, <2>2
<1>3. L \subseteq DOMAIN in /\ V \subseteq DOMAIN in
  BY <1>2 DEF LevelInv
<1>4. L \cap V = {}
  BY <1>2 DEF LevelInv
<1>5. \A n \in V : in[n] \subseteq V
  BY DEF LevelInv
<1>6. \A n \in DOMAIN in \ V : in[n] = {} \/ in[n] \cap V # {} => n \in L
  BY <1>2 DEF LevelInv
<1> HIDE DEF L, V
<1> QED
  BY <1>1, <1>3, <1>4, <1>5, <1>6 DEF LevelInv

(* So all levels do. *)
LEMMA LevelsKeep ==
  ASSUME NEW in, IsFiniteSet(DOMAIN in), EdgesDefined(in)
  PROVE  \A k \in 0 .. LastLevel(in) : LevelInv(in, Levels(in)[k])
<1> DEFINE G == {k \in Nat : k <= LastLevel(in) => LevelInv(in, Levels(in)[k])}
<1>1. G \in SUBSET Nat
  OBVIOUS
<1>2. 0 \in G
  <2>1. LevelInv(in, [level |-> EntryNodes(in), visited |-> {}])
    BY DEF LevelInv, EntryNodes
  <2> QED
    BY <2>1, LevelsUnfold
<1>3. ASSUME NEW k \in G PROVE k + 1 \in G
  <2> SUFFICES ASSUME k + 1 <= LastLevel(in) PROVE LevelInv(in, Levels(in)[k + 1])
    OBVIOUS
  <2>1. LastLevel(in) \in Nat /\ k \in Nat /\ k <= LastLevel(in)
    BY LevelsAreDefined
  <2>2. Levels(in)[k + 1] = NextLevel(in, Levels(in)[k])
    BY <2>1, LevelsUnfold
  <2> QED
    BY <1>3, <2>1, <2>2, NextLevelInv
<1> HIDE DEF G
<1>4. G = Nat
  BY <1>1, <1>2, <1>3, NatSet
<1> QED
  BY <1>4, LevelsAreDefined DEF G

(* Every level visits another node, until all have been visited. *)
LEMMA LevelsVisit ==
  ASSUME NEW in, IsFiniteSet(DOMAIN in), EdgesDefined(in), IsDag(in)
  PROVE  /\ Cardinality(DOMAIN in) \in 0 .. LastLevel(in)
         /\ Levels(in)[Cardinality(DOMAIN in)].visited = DOMAIN in
<1> DEFINE D == DOMAIN in
           Vis(k) == Levels(in)[k].visited
           Good(k) == k <= Cardinality(D) => Vis(k) = D \/ Cardinality(Vis(k)) >= k
           G == {k \in Nat : Good(k)}
<1>1. Cardinality(D) \in Nat /\ Cardinality(D) <= LastLevel(in) /\ LastLevel(in) \in Nat
  BY FS_CardinalityType DEF LastLevel
<1>2. \A k \in Nat : k <= Cardinality(D) => LevelInv(in, Levels(in)[k])
  BY <1>1, LevelsKeep
<1>3. 0 \in G
  <2>1. Levels(in)[0] = [level |-> EntryNodes(in), visited |-> {}]
    BY LevelsUnfold
  <2>2. Cardinality(Vis(0)) = 0
    BY <2>1, FS_EmptySet
  <2> HIDE DEF Vis
  <2> QED
    BY <2>2
<1>4. ASSUME NEW k \in G PROVE k + 1 \in G
  <2> SUFFICES ASSUME k + 1 <= Cardinality(D)
               PROVE  Vis(k + 1) = D \/ Cardinality(Vis(k + 1)) >= k + 1
    OBVIOUS
  <2>1. k \in Nat /\ k <= Cardinality(D) /\ k + 1 <= LastLevel(in)
    BY <1>1
  <2>2. LevelInv(in, Levels(in)[k]) /\ LevelInv(in, Levels(in)[k + 1])
    BY <1>2, <2>1
  <2>3. Levels(in)[k + 1] = NextLevel(in, Levels(in)[k])
    BY <2>1, LevelsUnfold
  <2>4. Vis(k + 1) = Vis(k) \cup {n \in Levels(in)[k].level : in[n] \subseteq Vis(k)}
    BY <2>3 DEF NextLevel
  <2>5. Vis(k) \subseteq D /\ Vis(k + 1) \subseteq D
    BY <2>2 DEF LevelInv
  <2>6. CASE Vis(k) = D
    BY <2>4, <2>5, <2>6
  <2>7. CASE Vis(k) # D
    <3>1. PICK n \in D \ Vis(k) : in[n] \subseteq Vis(k)
      BY <2>5, <2>7, SomeNodeIsReady
    <3>2. n \in Levels(in)[k].level
      BY <2>2, <3>1 DEF LevelInv
    <3>3. n \in Vis(k + 1)
      BY <2>4, <3>1, <3>2
    <3>4. /\ IsFiniteSet(Vis(k + 1)) /\ IsFiniteSet(Vis(k))
          /\ Vis(k) \subseteq Vis(k + 1) /\ Vis(k) # Vis(k + 1)
      BY <2>4, <2>5, <3>1, <3>3, FS_Subset
    <3> HIDE DEF Vis
    <3>5. Cardinality(Vis(k)) < Cardinality(Vis(k + 1))
      BY <3>4, FS_Subset, FS_CardinalityType
    <3>6. Cardinality(Vis(k)) \in Nat /\ Cardinality(Vis(k + 1)) \in Nat
      BY <3>4, FS_CardinalityType
    <3>7. Cardinality(Vis(k)) >= k
      BY <2>1, <2>7
    <3> QED
      BY <2>1, <3>5, <3>6, <3>7
  <2> QED
    BY <2>6, <2>7
<1> HIDE DEF Good
<1>5. G = Nat
  <2>1. G \in SUBSET Nat
    OBVIOUS
  <2> HIDE DEF G
  <2> QED
    BY <1>3, <1>4, <2>1, NatSet
<1>6. Good(Cardinality(D))
  BY <1>1, <1>5
<1>7. Vis(Cardinality(D)) = D \/ Cardinality(Vis(Cardinality(D))) >= Cardinality(D)
  BY <1>1, <1>6 DEF Good
<1>8. Vis(Cardinality(D)) \subseteq D
  BY <1>1, <1>2 DEF LevelInv
<1> HIDE DEF Vis
<1>9. Vis(Cardinality(D)) = D
  <2>1. Cardinality(Vis(Cardinality(D))) \in Nat /\ Cardinality(Vis(Cardinality(D))) <= Cardinality(D)
    BY <1>8, FS_Subset, FS_CardinalityType
  <2>2. Cardinality(Vis(Cardinality(D))) >= Cardinality(D) => Vis(Cardinality(D)) = D
    BY <1>1, <1>8, <2>1, FS_Subset
  <2> QED
    BY <1>7, <2>2
<1> QED
  BY <1>1, <1>9 DEF Vis

(* A node that has been visited is on no later level. *)
LEMMA VisitedStay ==
  ASSUME NEW in, IsFiniteSet(DOMAIN in), EdgesDefined(in),
         NEW k \in 0 .. LastLevel(in), NEW n \in Levels(in)[k].visited
  PROVE  \A j \in k .. LastLevel(in) : n \in Levels(in)[j].visited /\ n \notin Levels(in)[j].level
<1> DEFINE G == {j \in Nat : k <= j /\ j <= LastLevel(in) => n \in Levels(in)[j].visited}
<1>1. k \in Nat /\ LastLevel(in) \in Nat
  BY LevelsAreDefined
<1>2. G \in SUBSET Nat
  OBVIOUS
<1>3. 0 \in G
  BY <1>1
<1>4. ASSUME NEW j \in G PROVE j + 1 \in G
  <2> SUFFICES ASSUME k <= j, j + 1 <= LastLevel(in) PROVE n \in Levels(in)[j + 1].visited
    BY <1>1
  <2>1. n \in Levels(in)[j].visited
    BY <1>1
  <2>2. Levels(in)[j + 1] = NextLevel(in, Levels(in)[j])
    BY LevelsUnfold
  <2> QED
    BY <2>1, <2>2 DEF NextLevel
<1> HIDE DEF G
<1>5. G = Nat
  BY <1>2, <1>3, <1>4, NatSet
<1>6. ASSUME NEW j \in k .. LastLevel(in) PROVE n \in Levels(in)[j].visited
  BY <1>1, <1>5 DEF G
<1>7. \A j \in k .. LastLevel(in) : LevelInv(in, Levels(in)[j])
  BY <1>1, LevelsKeep
<1> QED
  BY <1>6, <1>7 DEF LevelInv

(* Every node has a level that is its last, on which its inputs have been visited. *)
LEMMA LastLevelOf ==
  ASSUME NEW in, IsFiniteSet(DOMAIN in), EdgesDefined(in), IsDag(in), NEW n \in DOMAIN in
  PROVE  \E k \in 0 .. LastLevel(in) :
           /\ n \in Levels(in)[k].level /\ in[n] \subseteq Levels(in)[k].visited
           /\ \A j \in (k + 1) .. LastLevel(in) : n \notin Levels(in)[j].level
<1> DEFINE B == {k \in Nat : k <= LastLevel(in) /\ n \in Levels(in)[k].visited}
<1>1. B \in SUBSET Nat /\ B # {}
  BY LevelsVisit, LevelsAreDefined
<1> HIDE DEF B
<1>2. PICK b \in B : \A k \in B : b <= k
  BY <1>1, LeastNat
<1>3. b \in Nat /\ b <= LastLevel(in) /\ n \in Levels(in)[b].visited /\ LastLevel(in) \in Nat
  BY LevelsAreDefined DEF B
<1>4. b # 0
  <2>1. Levels(in)[0] = [level |-> EntryNodes(in), visited |-> {}]
    BY LevelsUnfold
  <2> QED
    BY <1>3, <2>1
<1> DEFINE k == b - 1
<1>5. k \in Nat /\ k + 1 = b /\ k <= LastLevel(in) /\ ~ (b <= k)
  BY <1>3, <1>4
<1> HIDE DEF k
<1>6. n \notin Levels(in)[k].visited
  BY <1>2, <1>5 DEF B
<1>7. Levels(in)[b] = NextLevel(in, Levels(in)[k])
  BY <1>3, <1>5, LevelsUnfold
<1>8. n \in Levels(in)[k].level /\ in[n] \subseteq Levels(in)[k].visited
  BY <1>3, <1>6, <1>7 DEF NextLevel
<1>9. \A j \in b .. LastLevel(in) : n \notin Levels(in)[j].level
  BY <1>3, VisitedStay
<1> QED
  BY <1>3, <1>5, <1>8, <1>9

(***************************************************************************)
(* get_execution_order() of any finite flow without loops ends, and lists  *)
(* every node once and after its inputs.                                   *)
(***************************************************************************)
LEMMA OrderOfADag ==
  ASSUME NEW in, IsFiniteSet(DOMAIN in), EdgesDefined(in), IsDag(in)
  PROVE  OrderEnds(in) /\ IsExecutionOrder(in, ExecutionOrder(in))
<1> DEFINE N == Cardinality(DOMAIN in)
           order == ExecutionOrder(in)
           at(n) == {k \in DOMAIN order : n \in order[k]}
<1>1. OrderEnds(in)
  <2>1. N \in DOMAIN Levels(in) /\ LevelInv(in, Levels(in)[N])
    BY LevelsVisit, LevelsAreDefined, LevelsKeep
  <2>2. Levels(in)[N].level = {}
    BY <2>1, LevelsVisit DEF LevelInv
  <2> QED
    BY <2>1, <2>2 DEF OrderEnds
<1>2. DOMAIN Levels(in) = 0 .. LastLevel(in) /\ LastLevel(in) \in Nat
  BY LevelsAreDefined
<1>3. /\ DOMAIN order = 0 .. LastLevel(in)
      /\ \A n : \A k \in 0 .. LastLevel(in) :
           n \in order[k] <=> /\ n \in Levels(in)[k].level
                             /\ \A j \in 0 .. LastLevel(in) : j > k => n \notin Levels(in)[j].level
  BY <1>2 DEF ExecutionOrder
<1> HIDE DEF order
<1>4. ASSUME NEW n \in DOMAIN in
      PROVE  /\ Cardinality(at(n)) = 1
             /\ \A i \in in[n], k \in at(n), j \in DOMAIN order : i \in order[j] => j < k
  <2>1. PICK k \in 0 .. LastLevel(in) :
           /\ n \in Levels(in)[k].level /\ in[n] \subseteq Levels(in)[k].visited
           /\ \A j \in (k + 1) .. LastLevel(in) : n \notin Levels(in)[j].level
    BY LastLevelOf
  <2>2. \A j \in 0 .. LastLevel(in) : j > k => n \notin Levels(in)[j].level
    BY <1>2, <2>1
  <2>3. n \in order[k]
    BY <1>3, <2>1, <2>2
  <2>4. ASSUME NEW j \in 0 .. LastLevel(in), n \in order[j] PROVE j = k
    <3>1. ~ (j > k) /\ ~ (k > j)
      BY <1>3, <2>1, <2>2, <2>4
    <3> QED
      BY <1>2, <3>1
  <2>5. at(n) = {k}
    BY <1>3, <2>3, <2>4
  <2>6. ASSUME NEW i \in in[n], NEW j \in 0 .. LastLevel(in), i \in order[j] PROVE j < k
    <3>1. \A l \in k .. LastLevel(in) : i \notin Levels(in)[l].level
      BY <2>1, VisitedStay
    <3>2. i \in Levels(in)[j].level
      BY <1>3, <2>6
    <3>3. ~ (k <= j)
      BY <1>2, <3>1, <3>2
    <3> QED
      BY <1>2, <3>3
  <2>7. Cardinality(at(n)) = 1
    BY <2>5, FS_Singleton
  <2> HIDE DEF at
  <2> QED
    BY <1>3, <2>5, <2>6, <2>7
<1> QED
  BY <1>1, <1>4 DEF IsExecutionOrder, order

(***************************************************************************)
(* Whatever flow the editing methods build: without loops and edges to     *)
(* nodes that are not defined, its execution order is a topological order. *)
(***************************************************************************)
THEOREM OrdersAreTopological == Spec => []OrderIsTopological
<1>1. Invariant => OrderIsTopological
  BY OrderOfADag, WiringFacts DEF Invariant, OrderIsTopological, Sound, In
<1> QED
  BY <1>1, AlwaysInvariant, PTL

=============================================================================

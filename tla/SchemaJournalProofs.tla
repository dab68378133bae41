------------------------ MODULE SchemaJournalProofs -------------------------
(***************************************************************************)
(* Proofs about SchemaJournal: any flow, any items, any number of calls    *)
(* and of runs.                                                            *)
(***************************************************************************)
EXTENDS SchemaJournal, WellFoundedInduction, TLAPS

(* Induction, for a set in place of a predicate. *)
LEMMA NatSet ==
  ASSUME NEW G \in SUBSET Nat, 0 \in G, \A k \in G : k + 1 \in G
  PROVE  G = Nat
<1> DEFINE B == Nat \ G
           R == OpToRel(<, Nat)
<1> SUFFICES ASSUME B # {} PROVE FALSE
  OBVIOUS
<1>1. \E k \in B : \A m \in B : ~ (<<m, k>> \in R)
  BY NatLessThanWellFounded, WFMin
<1>2. \A k, m \in Nat : m < k => <<m, k>> \in R
  BY DEF OpToRel
<1> HIDE DEF R
<1>3. PICK k \in B : \A m \in B : ~ (<<m, k>> \in R)
  BY <1>1
<1>4. k \in Nat /\ k # 0 /\ k - 1 \in Nat /\ k - 1 < k /\ k - 1 + 1 = k
  BY <1>3
<1>5. k - 1 \in G
  BY <1>2, <1>3, <1>4
<1> QED
  BY <1>3, <1>4, <1>5

-----------------------------------------------------------------------------
(***************************************************************************)
(* Journal.replay(), entry by entry: the fold takes the largest index of a *)
(* set of indices off.                                                     *)
(***************************************************************************)
ReplayTo(g, p, j, s) == IF s = {} THEN p ELSE Replay1(g[s \ {Max(s)}], j[Max(s)])

(* The last entry of a set of entries, and what is before it. *)
LEMMA MaxFacts ==
  ASSUME NEW k \in Nat
  PROVE  /\ \A s \in SUBSET (1 .. (k + 1)) : k + 1 \in s => Max(s) = k + 1
         /\ \A s \in SUBSET (1 .. (k + 1)) : k + 1 \notin s => s \in SUBSET (1 .. k)
<1>1. ASSUME NEW s \in SUBSET (1 .. (k + 1)), k + 1 \in s
      PROVE  Max(s) = k + 1
  <2>1. \A x \in s : (\A y \in s : x >= y) <=> x = k + 1
    BY <1>1
  <2> QED
    BY <1>1, <2>1 DEF Max
<1>2. ASSUME NEW s \in SUBSET (1 .. (k + 1)), k + 1 \notin s
      PROVE  s \in SUBSET (1 .. k)
  BY <1>2
<1> QED
  BY <1>1, <1>2

\* g holds what the first entries of a journal of n have made of a parameter.
Steps(g, p, j, n) ==
  /\ g[0] = p /\ Replay(p, j) = g[n]
  /\ \A k \in 1 .. n : g[k] = Replay1(g[k - 1], j[k])

(* A replay is a sequence of steps, one for each entry. *)
LEMMA ReplayIsDefined ==
  ASSUME NEW p, NEW j, NEW n \in Nat, DOMAIN j = 1 .. n
  PROVE  \E g : Steps(g, p, j, n)
<1> DEFINE Good(k) == \E g : g = [s \in SUBSET (1 .. k) |-> ReplayTo(g, p, j, s)]
<1>1. Good(0)
  <2> DEFINE g == [s \in SUBSET (1 .. 0) |-> p]
  <2>1. \A s \in SUBSET (1 .. 0) : s = {}
    OBVIOUS
  <2>2. g = [s \in SUBSET (1 .. 0) |-> ReplayTo(g, p, j, s)]
    BY <2>1 DEF ReplayTo
  <2> QED
    BY <2>2
<1>2. ASSUME NEW k \in Nat, Good(k) PROVE Good(k + 1)
  <2>1. PICK g : g = [s \in SUBSET (1 .. k) |-> ReplayTo(g, p, j, s)]
    BY <1>2
  <2> DEFINE h == [s \in SUBSET (1 .. (k + 1)) |-> ReplayTo(g, p, j, s)]
  <2>2. \A s \in SUBSET (1 .. k) : h[s] = g[s]
    <3>1. \A s \in SUBSET (1 .. k) : s \in SUBSET (1 .. (k + 1)) /\ g[s] = ReplayTo(g, p, j, s)
      BY <2>1
    <3> QED
      BY <3>1
  <2>3. ASSUME NEW s \in SUBSET (1 .. (k + 1)) PROVE ReplayTo(h, p, j, s) = ReplayTo(g, p, j, s)
    <3>1. s \ {Max(s)} \in SUBSET (1 .. k)
      BY <2>3, MaxFacts
    <3>2. h[s \ {Max(s)}] = g[s \ {Max(s)}]
      BY <2>2, <3>1
    <3> HIDE DEF h
    <3> QED
      BY <3>2 DEF ReplayTo
  <2>4. h = [s \in SUBSET (1 .. (k + 1)) |-> ReplayTo(h, p, j, s)]
    BY <2>3
  <2> QED
    BY <2>4
<1>3. Good(n)
  <2> DEFINE G == {k \in Nat : Good(k)}
  <2> HIDE DEF Good
  <2>1. G \in SUBSET Nat /\ 0 \in G /\ \A k \in G : k + 1 \in G
    BY <1>1, <1>2
  <2> HIDE DEF G
  <2>2. G = Nat
    BY <2>1, NatSet
  <2> QED
    BY <2>2 DEF G
<1> DEFINE iter == CHOOSE g : g = [s \in SUBSET (DOMAIN j) |-> ReplayTo(g, p, j, s)]
<1>4. Replay(p, j) = iter[DOMAIN j]
  BY Zenon DEF Replay, FoldLeft, MapThenFoldSet, ReplayTo
<1>5. iter = [s \in SUBSET (DOMAIN j) |-> ReplayTo(iter, p, j, s)]
  BY <1>3
<1> HIDE DEF iter
<1>6. \A s \in SUBSET (1 .. n) : iter[s] = ReplayTo(iter, p, j, s)
  <2>1. \A s \in SUBSET (1 .. n) : [t \in SUBSET (1 .. n) |-> ReplayTo(iter, p, j, t)][s] = ReplayTo(iter, p, j, s)
    OBVIOUS
  <2> QED
    BY <1>5, <2>1
<1> DEFINE g == [k \in 0 .. n |-> iter[1 .. k]]
<1>7. g[0] = p
  <2>1. 1 .. 0 = {} /\ 1 .. 0 \in SUBSET (1 .. n)
    OBVIOUS
  <2>2. iter[1 .. 0] = p
    BY <1>6, <2>1 DEF ReplayTo
  <2> QED
    BY <2>2
<1>8. ASSUME NEW k \in 1 .. n PROVE g[k] = Replay1(g[k - 1], j[k])
  <2>1. k - 1 \in Nat /\ k = (k - 1) + 1 /\ k - 1 \in 0 .. n /\ k \in 0 .. n
    OBVIOUS
  <2>2. Max(1 .. k) = k
    <3>1. \A x \in 1 .. k : (\A y \in 1 .. k : x >= y) <=> x = k
      OBVIOUS
    <3>2. k \in 1 .. k
      OBVIOUS
    <3> QED
      BY <3>1, <3>2 DEF Max
  <2>3. (1 .. k) \ {k} = 1 .. (k - 1) /\ 1 .. k # {} /\ 1 .. k \in SUBSET (1 .. n)
    <3>1. \A x : x \in (1 .. k) \ {k} <=> x \in 1 .. (k - 1)
      OBVIOUS
    <3>2. k \in 1 .. k /\ \A x \in 1 .. k : x \in 1 .. n
      OBVIOUS
    <3> QED
      BY <3>1, <3>2
  <2>4. iter[1 .. k] = Replay1(iter[1 .. (k - 1)], j[k])
    BY <1>6, <2>2, <2>3 DEF ReplayTo
  <2> QED
    BY <2>1, <2>4
<1>9. Replay(p, j) = g[n]
  BY <1>4
<1> HIDE DEF g
<1> QED
  BY <1>7, <1>8, <1>9 DEF Steps

(* The journals of nodes, node by node. *)
Then(q, S, n) == IF n \in S THEN Replay(q, journal[n]) ELSE q

ReplayAllTo(g, p, S, s) == IF s = {} THEN p ELSE Then(g[s \ {Max(s)}], S, Order[Max(s)])

(* Replaying several journals is a sequence of replays, in execution order. *)
LEMMA ReplayAllIsDefined ==
  ASSUME NEW p, NEW S, NEW n \in Nat, DOMAIN Order = 1 .. n
  PROVE  \E g : /\ g[0] = p /\ ReplayAll(p, S) = g[n]
                /\ \A k \in 1 .. n : g[k] = Then(g[k - 1], S, Order[k])
<1> DEFINE Good(k) == \E g : g = [s \in SUBSET (1 .. k) |-> ReplayAllTo(g, p, S, s)]
<1>1. Good(0)
  <2> DEFINE g == [s \in SUBSET (1 .. 0) |-> p]
  <2>1. \A s \in SUBSET (1 .. 0) : s = {}
    OBVIOUS
  <2>2. g = [s \in SUBSET (1 .. 0) |-> ReplayAllTo(g, p, S, s)]
    BY <2>1 DEF ReplayAllTo
  <2> QED
    BY <2>2
<1>2. ASSUME NEW k \in Nat, Good(k) PROVE Good(k + 1)
  <2>1. PICK g : g = [s \in SUBSET (1 .. k) |-> ReplayAllTo(g, p, S, s)]
    BY <1>2
  <2> DEFINE h == [s \in SUBSET (1 .. (k + 1)) |-> ReplayAllTo(g, p, S, s)]
  <2>2. \A s \in SUBSET (1 .. k) : h[s] = g[s]
    <3>1. \A s \in SUBSET (1 .. k) : s \in SUBSET (1 .. (k + 1)) /\ g[s] = ReplayAllTo(g, p, S, s)
      BY <2>1
    <3> QED
      BY <3>1
  <2>3. ASSUME NEW s \in SUBSET (1 .. (k + 1)) PROVE ReplayAllTo(h, p, S, s) = ReplayAllTo(g, p, S, s)
    <3>1. s \ {Max(s)} \in SUBSET (1 .. k)
      BY <2>3, MaxFacts
    <3>2. h[s \ {Max(s)}] = g[s \ {Max(s)}]
      BY <2>2, <3>1
    <3> HIDE DEF h
    <3> QED
      BY <3>2 DEF ReplayAllTo
  <2>4. h = [s \in SUBSET (1 .. (k + 1)) |-> ReplayAllTo(h, p, S, s)]
    BY <2>3
  <2> QED
    BY <2>4
<1>3. Good(n)
  <2> DEFINE G == {k \in Nat : Good(k)}
  <2> HIDE DEF Good
  <2>1. G \in SUBSET Nat /\ 0 \in G /\ \A k \in G : k + 1 \in G
    BY <1>1, <1>2
  <2> HIDE DEF G
  <2>2. G = Nat
    BY <2>1, NatSet
  <2> QED
    BY <2>2 DEF G
<1> DEFINE iter == CHOOSE g : g = [s \in SUBSET (DOMAIN Order) |-> ReplayAllTo(g, p, S, s)]
<1>4. ReplayAll(p, S) = iter[DOMAIN Order]
  BY Zenon DEF ReplayAll, FoldLeft, MapThenFoldSet, ReplayAllTo, Then
<1>5. iter = [s \in SUBSET (DOMAIN Order) |-> ReplayAllTo(iter, p, S, s)]
  BY <1>3
<1> HIDE DEF iter
<1>6. \A s \in SUBSET (1 .. n) : iter[s] = ReplayAllTo(iter, p, S, s)
  <2>1. \A s \in SUBSET (1 .. n) : [t \in SUBSET (1 .. n) |-> ReplayAllTo(iter, p, S, t)][s] = ReplayAllTo(iter, p, S, s)
    OBVIOUS
  <2> QED
    BY <1>5, <2>1
<1> DEFINE g == [k \in 0 .. n |-> iter[1 .. k]]
<1>7. g[0] = p
  <2>1. 1 .. 0 = {} /\ 1 .. 0 \in SUBSET (1 .. n)
    OBVIOUS
  <2>2. iter[1 .. 0] = p
    BY <1>6, <2>1 DEF ReplayAllTo
  <2> QED
    BY <2>2
<1>8. ASSUME NEW k \in 1 .. n PROVE g[k] = Then(g[k - 1], S, Order[k])
  <2>1. k - 1 \in Nat /\ k = (k - 1) + 1 /\ k - 1 \in 0 .. n /\ k \in 0 .. n
    OBVIOUS
  <2>2. Max(1 .. k) = k
    <3>1. \A x \in 1 .. k : (\A y \in 1 .. k : x >= y) <=> x = k
      OBVIOUS
    <3>2. k \in 1 .. k
      OBVIOUS
    <3> QED
      BY <3>1, <3>2 DEF Max
  <2>3. (1 .. k) \ {k} = 1 .. (k - 1) /\ 1 .. k # {} /\ 1 .. k \in SUBSET (1 .. n)
    <3>1. \A x : x \in (1 .. k) \ {k} <=> x \in 1 .. (k - 1)
      OBVIOUS
    <3>2. k \in 1 .. k /\ \A x \in 1 .. k : x \in 1 .. n
      OBVIOUS
    <3> QED
      BY <3>1, <3>2
  <2>4. iter[1 .. k] = Then(iter[1 .. (k - 1)], S, Order[k])
    BY <1>6, <2>2, <2>3 DEF ReplayAllTo
  <2> QED
    BY <2>1, <2>4
<1>9. ReplayAll(p, S) = g[n]
  BY <1>4
<1> HIDE DEF g
<1> QED
  BY <1>7, <1>8, <1>9

-----------------------------------------------------------------------------
(* What an entry can be. *)
LEMMA EntryFacts ==
  ASSUME NEW n, NEW e \in Entries(n)
  PROVE  /\ e.type \in {"set", "add", "unset", "lock", "beside", "remove"}
         /\ e.slot \in {n, Global}
         /\ e.type \in {"set", "add"} => e.value \in Seq(Items)
         /\ e.type \in {"lock", "beside"} => e.value \in BOOLEAN
<1>1. \A v \in Args : v \in Seq(Items)
  <2>1. <<>> \in Seq(Items) /\ \A i \in Items : <<i>> \in Seq(Items)
    OBVIOUS
  <2> QED
    BY <2>1 DEF Args
<1>2. CASE e \in [type : {"set", "add"}, slot : {n, Global}, value : Args]
  BY <1>1, <1>2
<1>3. CASE e \in [type : {"unset"}, slot : {n, Global}, value : {<<>>}]
  BY <1>3
<1>4. CASE e \in [type : {"lock", "beside"}, slot : {Global}, value : BOOLEAN]
  BY <1>4
<1>5. CASE e \in [type : {"remove"}, slot : {Global}, value : {<<>>}]
  BY <1>5
<1> QED
  BY <1>2, <1>3, <1>4, <1>5 DEF Entries

(* The call each kind of entry repeats. *)
LEMMA ReplayCases ==
  ASSUME NEW p, NEW e
  PROVE  /\ e.type = "set"    => Replay1(p, e) = ParamSet(p, e.slot, e.value)
         /\ e.type = "add"    => Replay1(p, e) = ParamAdd(p, e.slot, e.value)
         /\ e.type = "unset"  => Replay1(p, e) = ParamUnset(p, e.slot)
         /\ e.type = "lock"   => Replay1(p, e) = SetLock(p, e.value)
         /\ e.type = "beside" => Replay1(p, e) = LockBeside(p, e.value)
         /\ e.type = "remove" => Replay1(p, e) = Removed(p)
BY DEF Replay1

(* What the calls do to the slots of a parameter, to its lock, and its type. *)
LEMMA HoldingType ==
  ASSUME Assumptions, setup \in Setups, NEW p, IsParameter(p), NEW s \in Slots, NEW v \in Seq(Items)
  PROVE  /\ Holding(p, s) \in Seq(Items) /\ New(p, s, v) \in Seq(Items)
         /\ Holding(p, s) \o New(p, s, v) \in Seq(Items)
         /\ ToSet(Holding(p, s)) \cup ToSet(v) \subseteq ToSet(Holding(p, s) \o New(p, s, v))
<1>1. Holding(p, s) \in Seq(Items)
  BY DEF Holding, Assumptions, IsSetup, IsParameter
<1>2. New(p, s, v) \in {<<>>, v} /\ (New(p, s, v) = <<>> => ToSet(v) \subseteq ToSet(Holding(p, s)))
  <2>1. ToSet(<<>>) = {}
    BY DEF ToSet
  <2>2. CASE setup.unique /\ ToSet(v) \subseteq ToSet(Holding(p, s))
    BY <2>2 DEF New
  <2>3. CASE ~ (setup.unique /\ ToSet(v) \subseteq ToSet(Holding(p, s)))
    BY <2>1, <2>3 DEF New
  <2> QED
    BY <2>2, <2>3
<1>3. ASSUME NEW a \in Seq(Items), NEW b \in Seq(Items)
      PROVE  a \o b \in Seq(Items) /\ ToSet(a \o b) = ToSet(a) \cup ToSet(b)
  <2>1. a \o b \in Seq(Items) /\ DOMAIN a = 1 .. Len(a) /\ DOMAIN b = 1 .. Len(b)
        /\ DOMAIN (a \o b) = 1 .. (Len(a) + Len(b)) /\ Len(a) \in Nat /\ Len(b) \in Nat
    OBVIOUS
  <2>2. \A i \in DOMAIN a : i \in DOMAIN (a \o b) /\ (a \o b)[i] = a[i]
    BY <2>1
  <2>3. \A i \in DOMAIN b : Len(a) + i \in DOMAIN (a \o b) /\ (a \o b)[Len(a) + i] = b[i]
    BY <2>1
  <2>4. \A i \in DOMAIN (a \o b) : i \in DOMAIN a \/ \E k \in DOMAIN b : i = Len(a) + k
    <3>1. ASSUME NEW i \in 1 .. (Len(a) + Len(b)), ~ (i \in 1 .. Len(a))
          PROVE  i - Len(a) \in 1 .. Len(b) /\ i = Len(a) + (i - Len(a))
      BY <2>1, <3>1
    <3> QED
      BY <2>1, <3>1
  <2>5. ASSUME NEW x PROVE x \in ToSet(a \o b) <=> x \in ToSet(a) \/ x \in ToSet(b)
    <3>1. ASSUME NEW i \in DOMAIN (a \o b)
          PROVE  (a \o b)[i] \in ToSet(a) \/ (a \o b)[i] \in ToSet(b)
      <4>1. CASE i \in DOMAIN a
        BY <2>2, <4>1 DEF ToSet
      <4>2. CASE \E k \in DOMAIN b : i = Len(a) + k
        <5>1. PICK k \in DOMAIN b : i = Len(a) + k
          BY <4>2
        <5>2. (a \o b)[i] = b[k]
          BY <5>1, <2>3
        <5> QED
          BY <5>2 DEF ToSet
      <4> QED
        BY <2>4, <4>1, <4>2
    <3>2. \A i \in DOMAIN a : a[i] \in ToSet(a \o b)
      BY <2>2 DEF ToSet
    <3>3. \A i \in DOMAIN b : b[i] \in ToSet(a \o b)
      BY <2>3 DEF ToSet
    <3>4. x \in ToSet(a \o b) => x \in ToSet(a) \/ x \in ToSet(b)
      BY <3>1 DEF ToSet
    <3> QED
      BY <3>2, <3>3, <3>4 DEF ToSet
  <2> QED
    BY <2>1, <2>5
<1>4. New(p, s, v) \in Seq(Items)
  <2>1. <<>> \in Seq(Items)
    OBVIOUS
  <2> QED
    BY <1>2, <2>1
<1>5. ToSet(v) \subseteq ToSet(Holding(p, s)) \cup ToSet(New(p, s, v))
  BY <1>2
<1> QED
  BY <1>1, <1>3, <1>4, <1>5

Writes(q, p, s, v) ==
  /\ IsParameter(q) /\ q.lock = p.lock /\ q.beside = p.beside
  /\ \A t \in Slots : q.node[t] = IF t = s THEN v ELSE p.node[t]

(* Changing one slot gives a parameter that differs there only. *)
LEMMA SlotFacts ==
  ASSUME NEW p, IsParameter(p), NEW s \in Slots, NEW v \in Seq(Items) \cup {Unset}
  PROVE  Writes([p EXCEPT !.node[s] = v], p, s, v) /\ Writes(Put(p, s, v), p, s, v)
BY DEF IsParameter, Put, Writes

(* Locking changes a lock alone. *)
LEMMA LockFacts ==
  ASSUME NEW p, IsParameter(p), NEW b \in BOOLEAN
  PROVE  /\ IsParameter(SetLock(p, b)) /\ SetLock(p, b).lock = b
         /\ SetLock(p, b).node = p.node /\ SetLock(p, b).beside = p.beside
         /\ IsParameter(LockBeside(p, b)) /\ LockBeside(p, b).beside = b
         /\ LockBeside(p, b).node = p.node /\ LockBeside(p, b).lock = p.lock
BY DEF IsParameter, SetLock, LockBeside

(* The parameter without values. *)
LEMMA BlankFacts ==
  /\ IsParameter(Blank) /\ Blank.lock = FALSE /\ Blank.beside = FALSE
  /\ \A s \in Slots : Blank.node[s] = Unset
BY DEF IsParameter, Blank

(* What an entry leaves in its slot, when nothing is locked. *)
Written(p, e) ==
  CASE e.type = "set" -> e.value
    [] e.type = "add" -> Holding(p, e.slot) \o New(p, e.slot, e.value)
    [] e.type = "unset" -> Unset

(* What replaying an entry does to the locks and to each slot. *)
LEMMA ReplayEffect ==
  ASSUME Assumptions, setup \in Setups, NEW n \in Nodes, NEW e \in Entries(n),
         NEW p, IsParameter(p)
  PROVE  /\ IsParameter(Replay1(p, e))
         /\ p.lock /\ e.type \notin {"lock", "beside"} => Replay1(p, e) = p
         /\ p.beside /\ e.type = "remove" => Replay1(p, e) = p
         /\ ~ p.lock /\ e.type \in {"set", "add", "unset"} =>
              /\ ~ Replay1(p, e).lock /\ Replay1(p, e).beside = p.beside
              /\ \A t \in Slots :
                   Replay1(p, e).node[t] = IF t = e.slot THEN Written(p, e) ELSE p.node[t]
         /\ ~ p.lock /\ ~ p.beside /\ e.type = "remove" =>
              /\ ~ Replay1(p, e).lock /\ ~ Replay1(p, e).beside
              /\ \A t \in Slots : Replay1(p, e).node[t] = Unset
         /\ e.type = "lock" =>
              /\ Replay1(p, e).lock = e.value /\ Replay1(p, e).beside = p.beside
              /\ Replay1(p, e).node = p.node
         /\ e.type = "beside" =>
              /\ Replay1(p, e).beside = e.value /\ Replay1(p, e).lock = p.lock
              /\ Replay1(p, e).node = p.node
<1>1. /\ e.type \in {"set", "add", "unset", "lock", "beside", "remove"} /\ e.slot \in Slots
      /\ e.type \in {"set", "add"} => e.value \in Seq(Items)
      /\ e.type \in {"lock", "beside"} => e.value \in BOOLEAN
  BY EntryFacts DEF Slots
<1>2. CASE e.type = "set"
  <2>1. Replay1(p, e) = IF p.lock THEN p ELSE Put(p, e.slot, e.value)
    BY <1>2, ReplayCases DEF ParamSet
  <2>2. Written(p, e) = e.value
    BY <1>2 DEF Written
  <2>3. Writes(Put(p, e.slot, e.value), p, e.slot, e.value)
    BY <1>1, <1>2, SlotFacts
  <2> QED
    BY <1>1, <1>2, <2>1, <2>2, <2>3 DEF Writes
<1>3. CASE e.type = "add"
  <2> DEFINE v == Holding(p, e.slot) \o New(p, e.slot, e.value)
  <2>1. Replay1(p, e) = IF p.lock THEN p ELSE Put(p, e.slot, v)
    BY <1>3, ReplayCases DEF ParamAdd
  <2>2. Written(p, e) = v
    BY <1>3 DEF Written
  <2>3. v \in Seq(Items)
    BY <1>1, <1>3, HoldingType
  <2> HIDE DEF v
  <2>4. Writes(Put(p, e.slot, v), p, e.slot, v)
    BY <1>1, <2>3, SlotFacts
  <2> QED
    BY <1>1, <1>3, <2>1, <2>2, <2>4 DEF Writes
<1>4. CASE e.type = "unset"
  <2>1. Replay1(p, e) = IF p.lock THEN p ELSE [p EXCEPT !.node[e.slot] = Unset]
    BY <1>4, ReplayCases DEF ParamUnset
  <2>2. Written(p, e) = Unset
    BY <1>4 DEF Written
  <2>3. Writes([p EXCEPT !.node[e.slot] = Unset], p, e.slot, Unset)
    BY <1>1, SlotFacts
  <2> QED
    BY <1>1, <1>4, <2>1, <2>2, <2>3 DEF Writes
<1>5. CASE e.type = "lock"
  <2>1. Replay1(p, e) = SetLock(p, e.value)
    BY <1>5, ReplayCases
  <2> QED
    BY <1>1, <1>5, <2>1, LockFacts
<1>6. CASE e.type = "remove"
  <2>1. Replay1(p, e) = IF p.lock \/ p.beside THEN p ELSE Blank
    BY <1>6, ReplayCases DEF Removed
  <2> QED
    BY <1>6, <2>1, BlankFacts
<1>7. CASE e.type = "beside"
  <2>1. Replay1(p, e) = LockBeside(p, e.value)
    BY <1>7, ReplayCases
  <2> QED
    BY <1>1, <1>7, <2>1, LockFacts
<1> QED
  BY <1>1, <1>2, <1>3, <1>4, <1>5, <1>6, <1>7

-----------------------------------------------------------------------------
(* Two parameters in which node n finds the same. *)
SameOwn(p, q, n) == p.lock = q.lock /\ p.beside = q.beside /\ p.node[n] = q.node[n]

(* What it writes into a slot of a node depends on that slot alone. *)
LEMMA SameWritten ==
  ASSUME NEW p, NEW q, NEW n, NEW e, SameOwn(p, q, n), e.slot = n,
         e.type \in {"set", "add", "unset"}
  PROVE  Written(p, e) = Written(q, e)
BY DEF SameOwn, Written, Holding, New

(* Replayed on parameters that agree on a slot of a node, it leaves them agreeing. *)
LEMMA ReplaySame ==
  ASSUME Assumptions, setup \in Setups, NEW n \in Nodes, NEW e \in Entries(n),
         NEW p, NEW q, IsParameter(p), IsParameter(q), SameOwn(p, q, n)
  PROVE  SameOwn(Replay1(p, e), Replay1(q, e), n)
<1>1. e.type \in {"set", "add", "unset", "lock", "beside", "remove"} /\ e.slot \in {n, Global} /\ n \in Slots
  BY EntryFacts DEF Slots
<1>2. /\ p.lock \in BOOLEAN /\ p.beside \in BOOLEAN
      /\ q.lock = p.lock /\ q.beside = p.beside /\ p.node[n] = q.node[n]
  BY DEF IsParameter, SameOwn
<1>3. CASE e.type \in {"lock", "beside"}
  BY <1>2, <1>3, ReplayEffect DEF SameOwn
<1>4. CASE e.type \notin {"lock", "beside"} /\ p.lock
  <2>1. Replay1(p, e) = p
    BY <1>4, ReplayEffect
  <2>2. q.lock
    BY <1>2, <1>4
  <2>3. Replay1(q, e) = q
    BY <1>4, <2>2, ReplayEffect
  <2> QED
    BY <2>1, <2>3
<1>5. CASE e.type = "remove" /\ ~ p.lock /\ ~ p.beside
  <2>1. /\ ~ Replay1(p, e).lock /\ ~ Replay1(q, e).lock
        /\ ~ Replay1(p, e).beside /\ ~ Replay1(q, e).beside
        /\ Replay1(p, e).node[n] = Unset /\ Replay1(q, e).node[n] = Unset
        /\ IsParameter(Replay1(p, e)) /\ IsParameter(Replay1(q, e))
    BY <1>1, <1>2, <1>5, ReplayEffect
  <2> QED
    BY <2>1 DEF SameOwn, IsParameter
<1>6. CASE e.type = "remove" /\ ~ p.lock /\ p.beside
  <2>1. Replay1(p, e) = p /\ Replay1(q, e) = q
    BY <1>2, <1>6, ReplayEffect
  <2> QED
    BY <2>1
<1>7. CASE e.type \in {"set", "add", "unset"} /\ ~ p.lock
  <2>1. /\ ~ Replay1(p, e).lock /\ ~ Replay1(q, e).lock
        /\ Replay1(p, e).beside = p.beside /\ Replay1(q, e).beside = q.beside
        /\ Replay1(p, e).node[n] = IF n = e.slot THEN Written(p, e) ELSE p.node[n]
        /\ Replay1(q, e).node[n] = IF n = e.slot THEN Written(q, e) ELSE q.node[n]
        /\ IsParameter(Replay1(p, e)) /\ IsParameter(Replay1(q, e))
    BY <1>1, <1>2, <1>7, ReplayEffect
  <2>2. n = e.slot => Written(p, e) = Written(q, e)
    BY <1>7, SameWritten
  <2> QED
    BY <1>2, <2>1, <2>2 DEF SameOwn, IsParameter
<1> QED
  BY <1>1, <1>2, <1>3, <1>4, <1>5, <1>6, <1>7

(* What other nodes record does not concern a node, but for the whole keypath. *)
LEMMA ReplayOther ==
  ASSUME Assumptions, setup \in Setups, NEW n \in Nodes, NEW m \in Nodes, m # n,
         NEW e \in Entries(n), e.type \notin {"lock", "beside", "remove"}, NEW p, IsParameter(p)
  PROVE  SameOwn(Replay1(p, e), p, m)
<1>1. e.type \in {"set", "add", "unset"} /\ e.slot # m /\ m \in Slots
  BY EntryFacts DEF Slots, Assumptions
<1>2. p.lock \in BOOLEAN /\ IsParameter(Replay1(p, e))
  BY ReplayEffect DEF IsParameter
<1>3. CASE p.lock
  BY <1>1, <1>3, ReplayEffect DEF SameOwn
<1>4. CASE ~ p.lock
  <2>1. /\ ~ Replay1(p, e).lock /\ Replay1(p, e).beside = p.beside
        /\ Replay1(p, e).node[m] = p.node[m]
    BY <1>1, <1>4, ReplayEffect
  <2> QED
    BY <1>2, <1>4, <2>1 DEF SameOwn, IsParameter
<1> QED
  BY <1>2, <1>3, <1>4

(* The common slot holds the items of v. *)
Holds(p, v) == p.node[Global] # Unset /\ ToSet(v) \subseteq ToSet(p.node[Global])

Grows(p, q) == p.node[Global] # Unset => Holds(q, p.node[Global])

(* A call that overwrites nothing shared loses nothing shared. *)
LEMMA ReplayAdds ==
  ASSUME Assumptions, setup \in Setups, NEW n \in Nodes, NEW e \in Entries(n), ~ Overwrites(e),
         NEW p, IsParameter(p), ~ p.lock
  PROVE  /\ ~ Replay1(p, e).lock /\ Grows(p, Replay1(p, e))
         /\ e.type = "add" /\ e.slot = Global => Holds(Replay1(p, e), e.value)
<1>1. /\ e.type \in {"set", "add", "unset", "beside"} /\ e.slot \in Slots /\ Global \in Slots
      /\ e.type = "add" => e.value \in Seq(Items)
      /\ e.slot = Global => e.type \in {"add", "beside"}
  BY EntryFacts DEF Slots, Overwrites
<1>2. CASE e.type = "beside"
  BY <1>2, ReplayEffect DEF Grows, Holds, IsParameter
<1> SUFFICES ASSUME e.type # "beside"
             PROVE  /\ ~ Replay1(p, e).lock /\ Grows(p, Replay1(p, e))
                    /\ e.type = "add" /\ e.slot = Global => Holds(Replay1(p, e), e.value)
  BY <1>2
<1>3. /\ ~ Replay1(p, e).lock
      /\ Replay1(p, e).node[Global] = IF Global = e.slot THEN Written(p, e) ELSE p.node[Global]
  BY <1>1, ReplayEffect
<1>4. CASE e.slot # Global
  BY <1>3, <1>4 DEF Grows, Holds
<1>5. CASE e.slot = Global
  <2> DEFINE w == Holding(p, Global) \o New(p, Global, e.value)
  <2>1. Replay1(p, e).node[Global] = w
    BY <1>1, <1>3, <1>5 DEF Written
  <2>2. w \in Seq(Items) /\ ToSet(Holding(p, Global)) \cup ToSet(e.value) \subseteq ToSet(w)
    BY <1>1, <1>5, HoldingType
  <2>3. w # Unset /\ (p.node[Global] # Unset => Holding(p, Global) = p.node[Global])
    BY <2>2 DEF Assumptions, Holding
  <2> HIDE DEF w
  <2> QED
    BY <1>3, <2>1, <2>2, <2>3 DEF Grows, Holds
<1> QED
  BY <1>4, <1>5

-----------------------------------------------------------------------------
(* The same of whole journals.                                             *)
IsReplay(g, p, j) == Steps(g, p, j, Len(j))

(* The steps of the replay of a journal. *)
LEMMA ReplaySteps ==
  ASSUME NEW X, NEW j \in Seq(X), NEW p
  PROVE  \E g : IsReplay(g, p, j)
<1>1. Len(j) \in Nat /\ DOMAIN j = 1 .. Len(j)
  OBVIOUS
<1> QED
  BY <1>1, ReplayIsDefined DEF IsReplay

(* An empty journal changes nothing. *)
LEMMA ReplayEmpty ==
  ASSUME NEW p
  PROVE  Replay(p, <<>>) = p
<1>1. DOMAIN <<>> = 1 .. 0 /\ 0 \in Nat
  OBVIOUS
<1> QED
  BY <1>1, ReplayIsDefined DEF Steps

(* The last entry is replayed last. *)
LEMMA ReplayAppend ==
  ASSUME NEW X, NEW j \in Seq(X), NEW e \in X, NEW p
  PROVE  Replay(p, Append(j, e)) = Replay1(Replay(p, j), e)
<1> DEFINE n == Len(j)
           i == Append(j, e)
<1>1. n \in Nat /\ DOMAIN j = 1 .. n /\ DOMAIN i = 1 .. (n + 1) /\ n + 1 \in Nat
  OBVIOUS
<1>2. i[n + 1] = e /\ \A k \in 1 .. n : i[k] = j[k]
  OBVIOUS
<1>3. PICK g : /\ g[0] = p /\ Replay(p, j) = g[n]
               /\ \A k \in 1 .. n : g[k] = Replay1(g[k - 1], j[k])
  BY ReplaySteps DEF IsReplay, Steps
<1>4. PICK h : /\ h[0] = p /\ Replay(p, i) = h[n + 1]
               /\ \A k \in 1 .. (n + 1) : h[k] = Replay1(h[k - 1], i[k])
  <2>1. i \in Seq(X) /\ Len(i) = n + 1
    OBVIOUS
  <2> HIDE DEF i
  <2>2. \E h : IsReplay(h, p, i)
    BY <2>1, ReplaySteps
  <2> QED
    BY <2>1, <2>2 DEF IsReplay, Steps
<1> HIDE DEF n, i
<1> DEFINE G == {k \in Nat : k <= n => h[k] = g[k]}
<1>5. G \in SUBSET Nat /\ 0 \in G
  BY <1>3, <1>4
<1>6. ASSUME NEW k \in G PROVE k + 1 \in G
  <2> SUFFICES ASSUME k + 1 <= n PROVE h[k + 1] = g[k + 1]
    OBVIOUS
  <2>1. k \in Nat /\ k + 1 \in 1 .. n /\ k + 1 \in 1 .. (n + 1) /\ (k + 1) - 1 = k /\ k <= n
    BY <1>1
  <2>2. h[k] = g[k]
    BY <2>1
  <2>3. h[k + 1] = Replay1(h[(k + 1) - 1], i[k + 1]) /\ g[k + 1] = Replay1(g[(k + 1) - 1], j[k + 1])
    BY <1>3, <1>4, <2>1
  <2> QED
    BY <1>2, <2>1, <2>2, <2>3
<1> HIDE DEF G
<1>7. G = Nat
  BY <1>5, <1>6, NatSet
<1>8. h[n] = g[n]
  BY <1>1, <1>7 DEF G
<1>9. n + 1 \in 1 .. (n + 1) /\ (n + 1) - 1 = n
  BY <1>1
<1>10. h[n + 1] = Replay1(h[(n + 1) - 1], i[n + 1])
  BY <1>4, <1>9
<1> QED
  BY <1>2, <1>3, <1>4, <1>8, <1>9, <1>10 DEF i

(* A replayed journal leaves a parameter. *)
LEMMA ReplaysKeepType ==
  ASSUME Assumptions, setup \in Setups, NEW n \in Nodes, NEW j \in Seq(Entries(n)),
         NEW p, IsParameter(p)
  PROVE  IsParameter(Replay(p, j))
<1>1. Len(j) \in Nat /\ DOMAIN j = 1 .. Len(j) /\ \A k \in 1 .. Len(j) : j[k] \in Entries(n)
  OBVIOUS
<1>2. PICK g : /\ g[0] = p /\ Replay(p, j) = g[Len(j)]
               /\ \A k \in 1 .. Len(j) : g[k] = Replay1(g[k - 1], j[k])
  BY ReplaySteps DEF IsReplay, Steps
<1> DEFINE G == {k \in Nat : k <= Len(j) => IsParameter(g[k])}
<1>3. G \in SUBSET Nat /\ 0 \in G
  BY <1>2
<1>4. ASSUME NEW k \in G PROVE k + 1 \in G
  <2> SUFFICES ASSUME k + 1 <= Len(j) PROVE IsParameter(g[k + 1])
    OBVIOUS
  <2>1. k \in Nat /\ k + 1 \in 1 .. Len(j) /\ (k + 1) - 1 = k /\ k <= Len(j)
    BY <1>1
  <2>2. IsParameter(g[k])
    BY <2>1
  <2>3. g[k + 1] = Replay1(g[(k + 1) - 1], j[k + 1])
    BY <1>2, <2>1
  <2> QED
    BY <1>1, <2>1, <2>2, <2>3, ReplayEffect
<1> HIDE DEF G
<1>5. G = Nat
  BY <1>3, <1>4, NatSet
<1> QED
  BY <1>1, <1>2, <1>5 DEF G

(* Replayed on parameters that agree on the slot of its node, a journal leaves them agreeing. *)
LEMMA ReplaysSame ==
  ASSUME Assumptions, setup \in Setups, NEW n \in Nodes, NEW j \in Seq(Entries(n)),
         NEW p, NEW q, IsParameter(p), IsParameter(q), SameOwn(p, q, n)
  PROVE  SameOwn(Replay(p, j), Replay(q, j), n)
<1>1. Len(j) \in Nat /\ DOMAIN j = 1 .. Len(j) /\ \A k \in 1 .. Len(j) : j[k] \in Entries(n)
  OBVIOUS
<1>2. PICK g : /\ g[0] = p /\ Replay(p, j) = g[Len(j)]
               /\ \A k \in 1 .. Len(j) : g[k] = Replay1(g[k - 1], j[k])
  BY ReplaySteps DEF IsReplay, Steps
<1>3. PICK h : /\ h[0] = q /\ Replay(q, j) = h[Len(j)]
               /\ \A k \in 1 .. Len(j) : h[k] = Replay1(h[k - 1], j[k])
  BY ReplaySteps DEF IsReplay, Steps
<1> DEFINE Good(k) == IsParameter(g[k]) /\ IsParameter(h[k]) /\ SameOwn(g[k], h[k], n)
           G == {k \in Nat : k <= Len(j) => Good(k)}
<1>4. G \in SUBSET Nat /\ 0 \in G
  BY <1>2, <1>3
<1>5. ASSUME NEW k \in G PROVE k + 1 \in G
  <2> SUFFICES ASSUME k + 1 <= Len(j) PROVE Good(k + 1)
    OBVIOUS
  <2>1. k \in Nat /\ k + 1 \in 1 .. Len(j) /\ (k + 1) - 1 = k /\ k <= Len(j)
    BY <1>1
  <2>2. Good(k)
    BY <2>1
  <2>3. g[k + 1] = Replay1(g[(k + 1) - 1], j[k + 1]) /\ h[k + 1] = Replay1(h[(k + 1) - 1], j[k + 1])
    BY <1>2, <1>3, <2>1
  <2>4. IsParameter(g[k + 1]) /\ IsParameter(h[k + 1])
    BY <1>1, <2>1, <2>2, <2>3, ReplayEffect
  <2> QED
    BY <1>1, <2>1, <2>2, <2>3, <2>4, ReplaySame
<1> HIDE DEF G
<1>6. G = Nat
  BY <1>4, <1>5, NatSet
<1> QED
  BY <1>1, <1>2, <1>3, <1>6 DEF G

(* The journal of one node leaves the slots of the others alone, unless it locks or removes. *)
LEMMA ReplaysOther ==
  ASSUME Assumptions, setup \in Setups, NEW n \in Nodes, NEW m \in Nodes, m # n,
         NEW j \in Seq(Entries(n)), \A k \in DOMAIN j : j[k].type \notin {"lock", "beside", "remove"},
         NEW p, IsParameter(p)
  PROVE  SameOwn(Replay(p, j), p, m)
<1>1. Len(j) \in Nat /\ DOMAIN j = 1 .. Len(j) /\ \A k \in 1 .. Len(j) : j[k] \in Entries(n)
  OBVIOUS
<1>2. PICK g : /\ g[0] = p /\ Replay(p, j) = g[Len(j)]
               /\ \A k \in 1 .. Len(j) : g[k] = Replay1(g[k - 1], j[k])
  BY ReplaySteps DEF IsReplay, Steps
<1> DEFINE G == {k \in Nat : k <= Len(j) => IsParameter(g[k]) /\ SameOwn(g[k], p, m)}
<1>3. G \in SUBSET Nat /\ 0 \in G
  BY <1>2 DEF SameOwn
<1>4. ASSUME NEW k \in G PROVE k + 1 \in G
  <2> SUFFICES ASSUME k + 1 <= Len(j) PROVE IsParameter(g[k + 1]) /\ SameOwn(g[k + 1], p, m)
    OBVIOUS
  <2>1. k \in Nat /\ k + 1 \in 1 .. Len(j) /\ (k + 1) - 1 = k /\ k <= Len(j)
    BY <1>1
  <2>2. IsParameter(g[k]) /\ SameOwn(g[k], p, m)
    BY <2>1
  <2>3. g[k + 1] = Replay1(g[(k + 1) - 1], j[k + 1])
    BY <1>2, <2>1
  <2>4. IsParameter(g[k + 1])
    BY <1>1, <2>1, <2>2, <2>3, ReplayEffect
  <2>5. SameOwn(g[k + 1], g[k], m)
    BY <1>1, <2>1, <2>2, <2>3, ReplayOther
  <2> QED
    BY <2>2, <2>4, <2>5 DEF SameOwn
<1> HIDE DEF G
<1>5. G = Nat
  BY <1>3, <1>4, NatSet
<1> QED
  BY <1>1, <1>2, <1>5 DEF G

\* p holds what the entries of j add to the common slot.
HoldsAdds(p, j) ==
  \A k \in DOMAIN j : j[k].type = "add" /\ j[k].slot = Global => Holds(p, j[k].value)

(* A list that only grows keeps what it holds. *)
LEMMA GrowsHolds ==
  ASSUME NEW p, NEW q, NEW v, Grows(p, q), Holds(p, v)
  PROVE  Holds(q, v)
BY DEF Grows, Holds

(* A journal that overwrites nothing shared brings all it adds and loses nothing. *)
LEMMA ReplaysAdd ==
  ASSUME Assumptions, setup \in Setups, NEW n \in Nodes,
         NEW j \in Seq(Entries(n)), ~ Overwriting(j), NEW p, IsParameter(p), ~ p.lock
  PROVE  ~ Replay(p, j).lock /\ Grows(p, Replay(p, j)) /\ HoldsAdds(Replay(p, j), j)
<1>1. Len(j) \in Nat /\ DOMAIN j = 1 .. Len(j) /\ \A k \in 1 .. Len(j) : j[k] \in Entries(n)
  OBVIOUS
<1>2. PICK g : /\ g[0] = p /\ Replay(p, j) = g[Len(j)]
               /\ \A k \in 1 .. Len(j) : g[k] = Replay1(g[k - 1], j[k])
  BY ReplaySteps DEF IsReplay, Steps
<1> DEFINE Good(k) ==
             /\ IsParameter(g[k]) /\ ~ g[k].lock /\ Grows(p, g[k])
             /\ \A i \in 1 .. k : j[i].type = "add" /\ j[i].slot = Global => Holds(g[k], j[i].value)
           G == {k \in Nat : k <= Len(j) => Good(k)}
<1>3. G \in SUBSET Nat /\ 0 \in G
  BY <1>2 DEF Grows, Holds
<1>4. ASSUME NEW k \in G PROVE k + 1 \in G
  <2> SUFFICES ASSUME k + 1 <= Len(j) PROVE Good(k + 1)
    OBVIOUS
  <2>1. k \in Nat /\ k + 1 \in 1 .. Len(j) /\ (k + 1) - 1 = k /\ k <= Len(j)
    BY <1>1
  <2>2. Good(k)
    BY <2>1
  <2>3. g[k + 1] = Replay1(g[(k + 1) - 1], j[k + 1])
    BY <1>2, <2>1
  <2>4. IsParameter(g[k + 1])
    BY <1>1, <2>1, <2>2, <2>3, ReplayEffect
  <2>5. ~ Overwrites(j[k + 1])
    BY <1>1, <2>1 DEF Overwriting
  <2>6. /\ ~ g[k + 1].lock /\ Grows(g[k], g[k + 1])
        /\ j[k + 1].type = "add" /\ j[k + 1].slot = Global => Holds(g[k + 1], j[k + 1].value)
    BY <1>1, <2>1, <2>2, <2>3, <2>5, ReplayAdds
  <2>7. Grows(p, g[k + 1])
    BY <2>2, <2>6 DEF Grows, Holds
  <2>8. ASSUME NEW i \in 1 .. (k + 1), j[i].type = "add", j[i].slot = Global
        PROVE  Holds(g[k + 1], j[i].value)
    <3>1. CASE i = k + 1
      BY <2>6, <2>8, <3>1
    <3>2. CASE i \in 1 .. k
      BY <2>2, <2>6, <2>8, <3>2, GrowsHolds
    <3>3. i = k + 1 \/ i \in 1 .. k
      BY <2>1
    <3> QED
      BY <3>1, <3>2, <3>3
  <2> QED
    BY <2>4, <2>6, <2>7, <2>8
<1> HIDE DEF G
<1>5. G = Nat
  BY <1>3, <1>4, NatSet
<1>6. Good(Len(j))
  BY <1>1, <1>5 DEF G
<1> QED
  BY <1>1, <1>2, <1>6 DEF HoldsAdds

-----------------------------------------------------------------------------
(* The same of the journals of several nodes, in execution order. *)
IsReplayAll(g, p, S) ==
  /\ g[0] = p /\ ReplayAll(p, S) = g[Len(Order)]
  /\ \A k \in 1 .. Len(Order) : g[k] = Then(g[k - 1], S, Order[k])

(* The execution order has every node once. *)
LEMMA OrderFacts ==
  ASSUME Assumptions
  PROVE  /\ Len(Order) \in Nat /\ DOMAIN Order = 1 .. Len(Order)
         /\ \A k \in 1 .. Len(Order) : Order[k] \in Nodes
         /\ \A n \in Nodes : \E k \in 1 .. Len(Order) : Order[k] = n
         /\ \A k, l \in 1 .. Len(Order) : Order[k] = Order[l] => k = l
<1>1. Len(Order) \in Nat /\ DOMAIN Order = 1 .. Len(Order)
  BY DEF Assumptions
<1> QED
  BY <1>1 DEF Assumptions, IsInjective, Nodes, ToSet

(* The steps of replaying several journals. *)
LEMMA ReplayAllSteps ==
  ASSUME Assumptions, NEW p, NEW S
  PROVE  \E g : IsReplayAll(g, p, S)
BY OrderFacts, ReplayAllIsDefined DEF IsReplayAll

(* They leave a parameter. *)
LEMMA ReplayAllKeepsType ==
  ASSUME Assumptions, setup \in Setups, JournalsOK, NEW S, NEW p, IsParameter(p)
  PROVE  IsParameter(ReplayAll(p, S))
<1>1. PICK g : IsReplayAll(g, p, S)
  BY ReplayAllSteps
<1> DEFINE G == {k \in Nat : k <= Len(Order) => IsParameter(g[k])}
<1>2. G \in SUBSET Nat /\ 0 \in G
  BY <1>1 DEF IsReplayAll
<1>3. ASSUME NEW k \in G PROVE k + 1 \in G
  <2> SUFFICES ASSUME k + 1 <= Len(Order) PROVE IsParameter(g[k + 1])
    OBVIOUS
  <2>1. k \in Nat /\ k + 1 \in 1 .. Len(Order) /\ (k + 1) - 1 = k /\ k <= Len(Order)
    BY OrderFacts
  <2>2. IsParameter(g[k])
    BY <2>1
  <2>3. g[k + 1] = Then(g[k], S, Order[k + 1]) /\ Order[k + 1] \in Nodes
    BY <1>1, <2>1, OrderFacts DEF IsReplayAll
  <2> QED
    BY <2>2, <2>3, ReplaysKeepType DEF Then, JournalsOK
<1> HIDE DEF G
<1>4. G = Nat
  BY <1>2, <1>3, NatSet
<1> QED
  BY <1>1, <1>4, OrderFacts DEF G, IsReplayAll

(* Of a node's own slot they make what its own journal makes of it. *)
LEMMA ReplayAllOwn ==
  ASSUME Assumptions, setup \in Setups, JournalsOK, NEW S, NEW p, IsParameter(p), NEW m \in Nodes,
         \A n \in Nodes \ {m} : \A k \in DOMAIN journal[n] : journal[n][k].type \notin {"lock", "beside", "remove"}
  PROVE  SameOwn(ReplayAll(p, S), Then(p, S, m), m)
<1>1. PICK g : IsReplayAll(g, p, S)
  BY ReplayAllSteps
<1>2. PICK at \in 1 .. Len(Order) : Order[at] = m /\ \A k \in 1 .. Len(Order) : Order[k] = m => k = at
  BY OrderFacts
<1> DEFINE Good(k) == /\ IsParameter(g[k])
                      /\ k < at => SameOwn(g[k], p, m)
                      /\ at <= k => SameOwn(g[k], Then(p, S, m), m)
           G == {k \in Nat : k <= Len(Order) => Good(k)}
<1>3. G \in SUBSET Nat /\ 0 \in G
  <2>1. at \in Nat /\ 0 < at /\ g[0] = p
    BY <1>1, <1>2, OrderFacts DEF IsReplayAll
  <2>2. SameOwn(p, p, m)
    BY DEF SameOwn
  <2>3. Good(0)
    BY <2>1, <2>2
  <2> HIDE DEF Good
  <2> QED
    BY <2>3
<1>4. ASSUME NEW k \in G PROVE k + 1 \in G
  <2> SUFFICES ASSUME k + 1 <= Len(Order) PROVE Good(k + 1)
    OBVIOUS
  <2>1. k \in Nat /\ k + 1 \in 1 .. Len(Order) /\ (k + 1) - 1 = k /\ k <= Len(Order) /\ at \in Nat
    BY OrderFacts
  <2>2. Good(k)
    BY <2>1
  <2> DEFINE n == Order[k + 1]
  <2>3. g[k + 1] = Then(g[k], S, n) /\ n \in Nodes /\ (n = m <=> k + 1 = at)
    BY <1>1, <1>2, <2>1, OrderFacts DEF IsReplayAll
  <2> HIDE DEF n
  <2>4. IsParameter(g[k + 1])
    BY <2>2, <2>3, ReplaysKeepType DEF Then, JournalsOK
  <2>5. CASE k + 1 = at
    <3>1. SameOwn(g[k], p, m)
      BY <2>1, <2>2, <2>5
    <3>2. SameOwn(Then(g[k], S, m), Then(p, S, m), m)
      BY <2>2, <3>1, ReplaysSame DEF Then, JournalsOK
    <3> QED
      BY <2>1, <2>3, <2>4, <2>5, <3>2
  <2>6. CASE k + 1 # at
    <3>1. SameOwn(g[k + 1], g[k], m)
      <4>1. n # m /\ journal[n] \in Seq(Entries(n))
        BY <2>3, <2>6 DEF JournalsOK
      <4>2. n \in S => SameOwn(Replay(g[k], journal[n]), g[k], m)
        BY <2>2, <2>3, <4>1, ReplaysOther
      <4> QED
        BY <2>3, <4>2 DEF Then, SameOwn
    <3>2. k + 1 < at => k < at
      BY <2>1
    <3>3. at <= k + 1 => at <= k
      BY <2>1, <2>6
    <3> QED
      BY <2>2, <2>4, <3>1, <3>2, <3>3 DEF SameOwn
  <2> QED
    BY <2>5, <2>6
<1> HIDE DEF Good
<1>5. G = Nat
  <2> HIDE DEF G
  <2> QED
    BY <1>3, <1>4, NatSet
<1>6. Good(Len(Order))
  <2>1. Len(Order) \in Nat
    BY OrderFacts
  <2>2. Len(Order) \in G /\ Len(Order) <= Len(Order)
    <3> HIDE DEF G
    <3> QED
      BY <1>5, <2>1
  <2> QED
    BY <2>2
<1>7. at <= Len(Order) /\ ReplayAll(p, S) = g[Len(Order)]
  BY <1>1, <1>2, OrderFacts DEF IsReplayAll
<1> QED
  BY <1>6, <1>7 DEF Good

(* What they add to the common slot is all there. *)
LEMMA ReplayAllAdds ==
  ASSUME Assumptions, setup \in Setups, JournalsOK, NEW S \in SUBSET Nodes,
         \A n \in S : ~ Overwriting(journal[n]), NEW p, IsParameter(p), ~ p.lock
  PROVE  ~ ReplayAll(p, S).lock /\ \A n \in S : HoldsAdds(ReplayAll(p, S), journal[n])
<1>1. PICK g : IsReplayAll(g, p, S)
  BY ReplayAllSteps
<1> DEFINE Good(k) ==
             /\ IsParameter(g[k]) /\ ~ g[k].lock
             /\ \A i \in 1 .. k : Order[i] \in S => HoldsAdds(g[k], journal[Order[i]])
           G == {k \in Nat : k <= Len(Order) => Good(k)}
<1>2. G \in SUBSET Nat /\ 0 \in G
  BY <1>1 DEF IsReplayAll
<1>3. ASSUME NEW k \in G PROVE k + 1 \in G
  <2> SUFFICES ASSUME k + 1 <= Len(Order) PROVE Good(k + 1)
    OBVIOUS
  <2>1. k \in Nat /\ k + 1 \in 1 .. Len(Order) /\ (k + 1) - 1 = k /\ k <= Len(Order)
    BY OrderFacts
  <2>2. Good(k)
    BY <2>1
  <2> DEFINE n == Order[k + 1]
  <2>3. g[k + 1] = Then(g[k], S, n) /\ n \in Nodes /\ journal[n] \in Seq(Entries(n))
    BY <1>1, <2>1, OrderFacts DEF IsReplayAll, JournalsOK
  <2>4. IsParameter(g[k + 1])
    BY <2>2, <2>3, ReplaysKeepType DEF Then
  <2>5. /\ ~ g[k + 1].lock /\ Grows(g[k], g[k + 1])
        /\ n \in S => HoldsAdds(g[k + 1], journal[n])
    <3> HIDE DEF n
    <3>1. CASE n \in S
      BY <2>2, <2>3, <3>1, ReplaysAdd DEF Then
    <3>2. CASE n \notin S
      BY <2>2, <2>3, <3>2 DEF Then, Grows, Holds
    <3> QED
      BY <3>1, <3>2
  <2>6. ASSUME NEW i \in 1 .. (k + 1), Order[i] \in S PROVE HoldsAdds(g[k + 1], journal[Order[i]])
    <3>1. CASE i = k + 1
      BY <2>5, <2>6, <3>1
    <3>2. CASE i \in 1 .. k
      BY <2>2, <2>5, <2>6, <3>2, GrowsHolds DEF HoldsAdds
    <3>3. i = k + 1 \/ i \in 1 .. k
      BY <2>1
    <3> QED
      BY <3>1, <3>2, <3>3
  <2> QED
    BY <2>4, <2>5, <2>6
<1> HIDE DEF Good
<1>4. G = Nat
  <2> HIDE DEF G
  <2> QED
    BY <1>2, <1>3, NatSet
<1>5. Good(Len(Order))
  BY <1>4, OrderFacts
<1>6. \A n \in S : \E i \in 1 .. Len(Order) : Order[i] = n
  BY OrderFacts
<1> QED
  BY <1>1, <1>5, <1>6 DEF Good, IsReplayAll

(* The nodes of S are among those that S reaches. *)
DownTo(f, S, i) ==
  IF i = 0 THEN S
  ELSE IF \E m \in f[i - 1] : <<m, Order[i]>> \in setup.input
       THEN f[i - 1] \cup {Order[i]} ELSE f[i - 1]

(* A set of nodes is among what is below it. *)
LEMMA BelowHolds ==
  ASSUME Assumptions, NEW S
  PROVE  S \subseteq Below(S)
<1> DEFINE Good(k) == \E f : f = [i \in 0 .. k |-> DownTo(f, S, i)]
<1>1. Good(0)
  <2> DEFINE f == [i \in 0 .. 0 |-> S]
  <2>1. f = [i \in 0 .. 0 |-> DownTo(f, S, i)]
    BY DEF DownTo
  <2> QED
    BY <2>1
<1>2. ASSUME NEW k \in Nat, Good(k) PROVE Good(k + 1)
  <2>1. PICK f : f = [i \in 0 .. k |-> DownTo(f, S, i)]
    BY <1>2
  <2> DEFINE h == [i \in 0 .. (k + 1) |-> DownTo(f, S, i)]
  <2>2. \A i \in 0 .. k : h[i] = f[i]
    <3>1. \A i \in 0 .. k : i \in 0 .. (k + 1)
      OBVIOUS
    <3>2. \A i \in 0 .. k : f[i] = DownTo(f, S, i)
      BY <2>1
    <3> QED
      BY <3>1, <3>2
  <2> HIDE DEF h
  <2>3. ASSUME NEW i \in 0 .. (k + 1) PROVE DownTo(h, S, i) = DownTo(f, S, i)
    <3>1. i # 0 => i - 1 \in 0 .. k
      OBVIOUS
    <3>2. i # 0 => h[i - 1] = f[i - 1]
      BY <2>2, <3>1
    <3> QED
      BY <3>2 DEF DownTo
  <2>4. h = [i \in 0 .. (k + 1) |-> DownTo(h, S, i)]
    BY <2>3 DEF h
  <2> QED
    BY <2>4
<1>3. Good(Len(Order))
  <2> DEFINE G == {k \in Nat : Good(k)}
  <2> HIDE DEF Good
  <2>1. G \in SUBSET Nat /\ 0 \in G /\ \A k \in G : k + 1 \in G
    BY <1>1, <1>2
  <2> HIDE DEF G
  <2>2. G = Nat
    BY <2>1, NatSet
  <2> QED
    BY <2>2, OrderFacts DEF G
<1> DEFINE down == CHOOSE f : f = [i \in 0 .. Len(Order) |-> DownTo(f, S, i)]
<1>4. Below(S) = down[Len(Order)]
  BY Zenon DEF Below, DownTo
<1>5. down = [i \in 0 .. Len(Order) |-> DownTo(down, S, i)]
  BY <1>3
<1> HIDE DEF down
<1>6. \A i \in 0 .. Len(Order) : down[i] = DownTo(down, S, i)
  <2>1. \A i \in 0 .. Len(Order) : [k \in 0 .. Len(Order) |-> DownTo(down, S, k)][i] = DownTo(down, S, i)
    OBVIOUS
  <2> QED
    BY <1>5, <2>1
<1> DEFINE G == {k \in Nat : k <= Len(Order) => S \subseteq down[k]}
<1>7. G \in SUBSET Nat /\ 0 \in G
  <2>1. 0 \in 0 .. Len(Order)
    BY OrderFacts
  <2>2. down[0] = DownTo(down, S, 0)
    BY <1>6, <2>1
  <2>3. down[0] = S
    BY <2>2 DEF DownTo
  <2> QED
    BY <2>3
<1>8. ASSUME NEW k \in G PROVE k + 1 \in G
  <2> SUFFICES ASSUME k + 1 <= Len(Order) PROVE S \subseteq down[k + 1]
    OBVIOUS
  <2>1. k \in Nat /\ k + 1 \in 0 .. Len(Order) /\ (k + 1) - 1 = k /\ k <= Len(Order) /\ k + 1 # 0
    BY OrderFacts
  <2>2. S \subseteq down[(k + 1) - 1]
    BY <2>1
  <2>3. down[(k + 1) - 1] \subseteq DownTo(down, S, k + 1)
    BY <2>1 DEF DownTo
  <2> QED
    BY <1>6, <2>1, <2>2, <2>3
<1> HIDE DEF G
<1>9. G = Nat
  BY <1>7, <1>8, NatSet
<1> QED
  BY <1>4, <1>9, OrderFacts DEF G
-----------------------------------------------------------------------------
(***************************************************************************)
(* The inductive invariant.  Agrees(p, n): the journal of n, replayed on   *)
(* p, makes of n's own slot what n's process has there.                    *)
(***************************************************************************)
Agrees(p, n) ==
  /\ Replay(p, journal[n]).lock = child[n].lock
  /\ Replay(p, journal[n]).beside = child[n].beside
  /\ n \notin silent => Replay(p, journal[n]).node[n] = child[n].node[n]

\* A node whose journal takes from the others is known as one that does.
Meddling ==
  \A n \in Nodes : (\E k \in DOMAIN journal[n] : journal[n][k].type \in {"lock", "beside", "remove"}) => n \in meddlers

\* A node that has no result in this run has none on disk.
NoResult == \A n \in Nodes : phase[n] \in {"pending", "running", "crashed"} => disk[n] = "none"

PendingInv ==
  \A n \in Nodes : phase[n] = "pending" =>
    /\ journal[n] = <<>> /\ n \notin silent
    /\ n \notin early /\ meddlers \subseteq {n} => SameOwn(parent, origin, n)

RunningAt(n) ==
  phase[n] \in {"running", "ended"} /\ meddlers \subseteq {n} =>
    Agrees(parent, n) /\ Agrees(base[n], n)

\* What a result keeps can be had again from what its process began with.
ResultAt(n) ==
  disk[n] = "success" /\ phase[n] \in {"out", "merged", "reused"} /\ n \notin silent
    /\ meddlers \subseteq {n} => Replay(base[n], journal[n]).node[n] = child[n].node[n]

RunningInv == \A n \in Nodes : RunningAt(n)
ResultInv  == \A n \in Nodes : ResultAt(n)

\* A reset project holds only what the user and setup() gave it.
OriginInv == ~ carried => \A s \in Slots : origin.node[s] \in {Unset, setup.param.node[s]}

AddsInv ==
  ~ origin.lock /\ ~ overruled /\ (\A n \in Merged : ~ Overwriting(journal[n])) =>
    ~ parent.lock /\ \A n \in Merged : HoldsAdds(parent, journal[n])

Inv ==
  /\ TypeOK /\ Meddling /\ NoResult
  /\ PendingInv /\ RunningInv /\ ResultInv /\ OwnValuesArrive /\ AddsInv /\ OriginInv

(* The setup stays, and so what a journal makes of a parameter. *)
ReplayDefined ==
  \A p : \A n \in Nat : \A j : DOMAIN j = 1 .. n => \E g : Steps(g, p, j, n)

(* The recursion of a replay is a function, *)
LEMMA ReplayAlwaysDefined == ReplayDefined
BY ReplayIsDefined DEF ReplayDefined

(* in the next state, too. *)
LEMMA ReplayDefinedNext == ReplayDefined'
BY ReplayAlwaysDefined, PTL

(* A replay does not depend on the state, but for what the user has set up. *)
LEMMA ReplayKept ==
  ASSUME setup' = setup, NEW X, NEW j \in Seq(X), NEW p
  PROVE  Replay(p, j)' = Replay(p, j)
<1>1. Len(j) \in Nat /\ DOMAIN j = 1 .. Len(j)
  OBVIOUS
<1>2. PICK g : /\ g[0] = p /\ Replay(p, j) = g[Len(j)]
               /\ \A k \in 1 .. Len(j) : g[k] = Replay1(g[k - 1], j[k])
  BY <1>1, ReplayIsDefined DEF Steps
<1>3. PICK h : /\ h[0] = p /\ Replay(p, j)' = h[Len(j)]
               /\ \A k \in 1 .. Len(j) : h[k] = Replay1(h[k - 1], j[k])'
  BY <1>1, ReplayDefinedNext DEF ReplayDefined, Steps
<1>4. \A q, e : Replay1(q, e)' = Replay1(q, e)
  BY DEF Replay1, ParamSet, ParamAdd, ParamUnset, SetLock, LockBeside, Removed, New, Holding, Put
<1> DEFINE G == {k \in Nat : k <= Len(j) => h[k] = g[k]}
<1>5. G \in SUBSET Nat /\ 0 \in G
  BY <1>2, <1>3
<1>6. ASSUME NEW k \in G PROVE k + 1 \in G
  <2> SUFFICES ASSUME k + 1 <= Len(j) PROVE h[k + 1] = g[k + 1]
    OBVIOUS
  <2>1. k \in Nat /\ k + 1 \in 1 .. Len(j) /\ (k + 1) - 1 = k /\ k <= Len(j)
    BY <1>1
  <2>2. h[k] = g[k]
    BY <2>1
  <2>3. h[k + 1] = Replay1(h[(k + 1) - 1], j[k + 1])' /\ g[k + 1] = Replay1(g[(k + 1) - 1], j[k + 1])
    BY <1>2, <1>3, <2>1
  <2> QED
    BY <1>4, <2>1, <2>2, <2>3
<1> HIDE DEF G
<1>7. G = Nat
  BY <1>5, <1>6, NatSet
<1> QED
  BY <1>1, <1>2, <1>3, <1>7 DEF G

(* A step that touches neither journal nor copy of a node leaves them agreeing. *)
LEMMA AgreesKept ==
  ASSUME setup' = setup, JournalsOK, NEW n \in Nodes, NEW p, Agrees(p, n),
         journal'[n] = journal[n], child'[n] = child[n], n \in silent' <=> n \in silent
  PROVE  Agrees(p, n)'
BY ReplayKept DEF Agrees, JournalsOK

-----------------------------------------------------------------------------
(***************************************************************************)
(* The calls of a process.                                                 *)
(***************************************************************************)
Meddles(j) == \E k \in DOMAIN j : j[k].type \in {"lock", "beside", "remove"}

Working(n) ==
  /\ phase[n] = "running" /\ UNCHANGED <<setup, project, base, phase, runs>>
  /\ calls' \in 0 .. MaxCalls
  /\ DOMAIN child' = Nodes /\ IsParameter(child'[n]) /\ JournalsOK'
  /\ silent' \subseteq Nodes /\ meddlers \subseteq meddlers' /\ meddlers' \subseteq Nodes
  /\ \A m \in Nodes \ {n} :
       child'[m] = child[m] /\ journal'[m] = journal[m] /\ (m \in silent' <=> m \in silent)
  /\ Meddles(journal'[n]) => n \in meddlers'
  /\ \A p : IsParameter(p) /\ Agrees(p, n) => Agrees(p, n)'

(* An entry makes the same of what the process has and of what replaying   *)
(* its journal makes, also when the slots differed and are now set.        *)
LEMMA EntryAgrees ==
  ASSUME Assumptions, setup \in Setups, NEW n \in Nodes, NEW e \in Entries(n),
         NEW p, NEW q, IsParameter(p), IsParameter(q),
         p.lock = q.lock, p.beside = q.beside
  PROVE  /\ Replay1(p, e).lock = Replay1(q, e).lock
         /\ Replay1(p, e).beside = Replay1(q, e).beside
         /\ p.node[n] = q.node[n] => Replay1(p, e).node[n] = Replay1(q, e).node[n]
         /\ ~ q.lock /\ ~ q.beside /\ e.type = "remove" =>
              Replay1(p, e).node[n] = Replay1(q, e).node[n]
         /\ ~ q.lock /\ e.slot = n /\ e.type \in {"set", "unset"} =>
              Replay1(p, e).node[n] = Replay1(q, e).node[n]
<1>1. /\ e.type \in {"set", "add", "unset", "lock", "beside", "remove"} /\ n \in Slots
      /\ p.lock \in BOOLEAN /\ q.lock \in BOOLEAN /\ p.beside \in BOOLEAN
  BY EntryFacts DEF Slots, IsParameter
<1>2. Replay1(p, e).lock = Replay1(q, e).lock /\ Replay1(p, e).beside = Replay1(q, e).beside
  <2>1. IsParameter(Replay1(p, e)) /\ IsParameter(Replay1(q, e))
    BY ReplayEffect
  <2>2. /\ Replay1(p, e).lock \in BOOLEAN /\ Replay1(q, e).lock \in BOOLEAN
        /\ Replay1(p, e).beside \in BOOLEAN /\ Replay1(q, e).beside \in BOOLEAN
    BY <2>1 DEF IsParameter
  <2>3. CASE e.type \in {"lock", "beside"}
    BY <2>3, ReplayEffect
  <2>4. CASE e.type \notin {"lock", "beside"} /\ p.lock
    BY <2>4, ReplayEffect
  <2>5. CASE e.type \in {"set", "add", "unset"} /\ ~ p.lock
    BY <2>2, <2>5, ReplayEffect
  <2>6. CASE e.type = "remove" /\ ~ p.lock
    BY <1>1, <2>2, <2>6, ReplayEffect
  <2> QED
    BY <1>1, <2>3, <2>4, <2>5, <2>6
<1>3. ASSUME p.node[n] = q.node[n]
      PROVE  Replay1(p, e).node[n] = Replay1(q, e).node[n]
  BY <1>3, ReplaySame DEF SameOwn
<1>4. ASSUME ~ q.lock, ~ q.beside, e.type = "remove"
      PROVE  Replay1(p, e).node[n] = Replay1(q, e).node[n]
  BY <1>1, <1>4, ReplayEffect
<1>5. ASSUME ~ q.lock, e.slot = n, e.type \in {"set", "unset"}
      PROVE  Replay1(p, e).node[n] = Replay1(q, e).node[n]
  <2>1. Replay1(p, e).node[n] = Written(p, e) /\ Replay1(q, e).node[n] = Written(q, e)
    BY <1>1, <1>5, ReplayEffect
  <2>2. Written(p, e) = Written(q, e)
    BY <1>5 DEF Written
  <2> QED
    BY <2>1, <2>2
<1> QED
  BY <1>2, <1>3, <1>4, <1>5
(* A call that is recorded. *)
LEMMA RecordedCall ==
  ASSUME Assumptions, TypeOK, Meddling, NEW n \in Nodes, NEW e \in Entries(n),
         Call(n, Replay1(child[n], e)), Record(n, e), silent' \subseteq Nodes,
         \A m \in Nodes \ {n} : m \in silent' <=> m \in silent,
         n \notin silent' => \/ n \notin silent
                             \/ ~ child[n].lock /\ ~ child[n].beside /\ e.type = "remove"
                             \/ ~ child[n].lock /\ e.slot = n /\ e.type \in {"set", "unset"}
  PROVE  Working(n)
<1> DEFINE c == child[n]
           j == journal[n]
<1>1. /\ setup \in Setups /\ IsParameter(c) /\ j \in Seq(Entries(n)) /\ calls \in Nat
      /\ DOMAIN child = Nodes /\ DOMAIN journal = Nodes /\ meddlers \subseteq Nodes
      /\ \A m \in Nodes : journal[m] \in Seq(Entries(m))
  BY DEF TypeOK, JournalsOK, Assumptions
<1>2. /\ phase[n] = "running" /\ UNCHANGED <<setup, project, base, phase, runs>>
      /\ calls' = calls + 1 /\ calls < MaxCalls
      /\ child' = [child EXCEPT ![n] = Replay1(c, e)]
      /\ journal' = [journal EXCEPT ![n] = Append(j, e)]
      /\ meddlers' = IF e.type \in {"remove", "lock", "beside"} THEN meddlers \cup {n} ELSE meddlers
  BY DEF Call, Record
<1>3. /\ DOMAIN child' = Nodes /\ child'[n] = Replay1(c, e)
      /\ journal'[n] = Append(j, e) /\ DOMAIN journal' = Nodes
      /\ \A m \in Nodes \ {n} : child'[m] = child[m] /\ journal'[m] = journal[m]
  BY <1>1, <1>2
<1>4. Append(j, e) \in Seq(Entries(n))
  BY <1>1
<1>5. JournalsOK'
  BY <1>1, <1>3, <1>4 DEF JournalsOK
<1>6. Meddles(journal'[n]) => n \in meddlers'
  <2>1. ASSUME NEW k \in DOMAIN Append(j, e) PROVE Append(j, e)[k] = e \/ (k \in DOMAIN j /\ Append(j, e)[k] = j[k])
    BY <1>1
  <2>2. Meddles(j) => n \in meddlers
    BY DEF Meddling, Meddles
  <2> QED
    BY <1>2, <1>3, <2>1, <2>2 DEF Meddles
<1>7. IsParameter(Replay1(c, e))
  BY <1>1, ReplayEffect
<1>8. ASSUME NEW p, IsParameter(p), Agrees(p, n)
      PROVE  Agrees(p, n)'
  <2> DEFINE q == Replay(p, j)
  <2>1. IsParameter(q)
    BY <1>1, <1>8, ReplaysKeepType
  <2>2. Replay(p, journal[n])' = Replay1(q, e)
    <3>1. PICK i : i = Append(j, e)
      OBVIOUS
    <3>2. Replay(p, i)' = Replay(p, i)
      BY <1>2, <1>4, <3>1, ReplayKept
    <3>3. Replay(p, i) = Replay1(q, e)
      BY <1>1, <3>1, ReplayAppend
    <3>4. journal'[n] = i
      BY <1>3, <3>1
    <3> QED
      BY <3>2, <3>3, <3>4
  <2>3. q.lock = c.lock /\ q.beside = c.beside /\ (n \notin silent => q.node[n] = c.node[n])
    BY <1>8 DEF Agrees
  <2> HIDE DEF q, c
  <2>4. Replay1(q, e).lock = Replay1(c, e).lock /\ Replay1(q, e).beside = Replay1(c, e).beside
    BY <1>1, <2>1, <2>3, EntryAgrees
  <2>5. n \notin silent' => Replay1(q, e).node[n] = Replay1(c, e).node[n]
    BY <1>1, <2>1, <2>3, EntryAgrees DEF c
  <2> QED
    BY <1>3, <2>2, <2>4, <2>5 DEF Agrees
<1>9. meddlers \subseteq meddlers' /\ meddlers' \subseteq Nodes /\ calls' \in 0 .. MaxCalls
  BY <1>1, <1>2 DEF Assumptions
<1> HIDE DEF c, j
<1> QED
  BY <1>2, <1>3, <1>5, <1>6, <1>7, <1>8, <1>9 DEF Working

(* One that is not. *)
LEMMA UnrecordedCall ==
  ASSUME Assumptions, TypeOK, Meddling, NEW n \in Nodes, NEW c, IsParameter(c), Call(n, c),
         UNCHANGED <<journal, meddlers>>, silent' \subseteq Nodes,
         c.lock = child[n].lock, c.beside = child[n].beside,
         \A m \in Nodes \ {n} : m \in silent' <=> m \in silent,
         n \notin silent' => n \notin silent /\ c.node[n] = child[n].node[n]
  PROVE  Working(n)
<1>1. /\ setup \in Setups /\ calls \in Nat /\ DOMAIN child = Nodes /\ meddlers \subseteq Nodes
      /\ JournalsOK
  BY DEF TypeOK, Assumptions
<1>2. /\ phase[n] = "running" /\ UNCHANGED <<setup, project, base, phase, runs>>
      /\ calls' = calls + 1 /\ calls < MaxCalls
      /\ child' = [child EXCEPT ![n] = c]
  BY DEF Call
<1>3. /\ DOMAIN child' = Nodes /\ child'[n] = c
      /\ \A m \in Nodes \ {n} : child'[m] = child[m] /\ journal'[m] = journal[m]
  BY <1>1, <1>2
<1>4. JournalsOK'
  BY <1>1 DEF JournalsOK, Entries, Args
<1>5. Meddles(journal'[n]) => n \in meddlers'
  BY DEF Meddling, Meddles
<1>6. ASSUME NEW p, IsParameter(p), Agrees(p, n)
      PROVE  Agrees(p, n)'
  <2>1. Replay(p, journal[n])' = Replay(p, journal[n])
    BY <1>1, <1>2, ReplayKept DEF JournalsOK
  <2> QED
    BY <1>3, <1>6, <2>1 DEF Agrees
<1>7. calls' \in 0 .. MaxCalls
  BY <1>1, <1>2 DEF Assumptions
<1> QED
  BY <1>1, <1>2, <1>3, <1>4, <1>5, <1>6, <1>7 DEF Working
(* The entries that calls record. *)
LEMMA EntryTypes ==
  ASSUME NEW n, NEW s \in {n, Global}, NEW v \in Args, NEW b \in BOOLEAN
  PROVE  /\ Entry("set", s, v) \in Entries(n) /\ Entry("add", s, v) \in Entries(n)
         /\ Entry("unset", s, <<>>) \in Entries(n)
         /\ Entry("lock", Global, b) \in Entries(n) /\ Entry("beside", Global, b) \in Entries(n)
         /\ Entry("remove", Global, <<>>) \in Entries(n)
BY DEF Entry, Entries

(* Slots are nodes or the whole project. *)
LEMMA SlotKinds ==
  ASSUME Assumptions, NEW n \in Nodes, NEW s \in {n, Global}
  PROVE  n \in Slots /\ s \in Slots /\ Global \in Slots /\ n # Global
BY DEF Assumptions, Slots

(* Arguments are lists of items. *)
LEMMA ArgTypes == \A v \in Args : v \in Seq(Items)
<1>1. <<>> \in Seq(Items) /\ \A i \in Items : <<i>> \in Seq(Items)
  OBVIOUS
<1> QED
  BY <1>1 DEF Args

(* set() *)
LEMMA SetWorks ==
  ASSUME Assumptions, TypeOK, Meddling, NEW n \in Nodes, NEW s \in Slots, NEW v \in Args,
         NEW clobber \in BOOLEAN, Set(n, s, v, clobber)
  PROVE  Working(n)
<1> DEFINE c == child[n]
           d == ParamSet(c, s, v)
<1>1. s \in {n, Global} /\ ~ c.lock /\ Call(n, d) /\ IsParameter(c)
  BY DEF Set, SetSlot, TypeOK
<1>2. silent' = IF s = Global THEN silent ELSE IF v = <<>> THEN silent \cup {n} ELSE silent \ {n}
  BY DEF Set, SetSlot
<1>3. silent' \subseteq Nodes /\ \A m \in Nodes \ {n} : m \in silent' <=> m \in silent
  BY <1>2 DEF TypeOK
<1>4. Writes(d, c, s, v)
  BY <1>1, ArgTypes, SlotFacts DEF ParamSet
<1>5. CASE v = <<>>
  <2>1. UNCHANGED <<journal, meddlers>>
    BY <1>5 DEF Set, SetSlot
  <2>2. n \notin silent' => n \notin silent /\ d.node[n] = c.node[n]
    BY <1>1, <1>2, <1>4, <1>5, SlotKinds DEF Writes
  <2>3. IsParameter(d) /\ d.lock = c.lock /\ d.beside = c.beside
    BY <1>4 DEF Writes
  <2> HIDE DEF d
  <2> QED
    BY <1>1, <1>3, <2>1, <2>2, <2>3, UnrecordedCall
<1>6. CASE v # <<>>
  <2> DEFINE e == Entry("set", s, v)
  <2>1. Record(n, e)
    BY <1>6 DEF Set, SetSlot
  <2>2. e \in Entries(n) /\ e.type = "set" /\ e.slot = s /\ e.value = v
    BY <1>1, EntryTypes DEF Entry
  <2>3. d = Replay1(c, e)
    BY <2>2, ReplayCases
  <2>4. n \notin silent' => n \notin silent \/ e.slot = n
    BY <1>1, <1>2, <1>6, <2>2
  <2> HIDE DEF e, d
  <2> QED
    BY <1>1, <1>3, <2>1, <2>2, <2>3, <2>4, RecordedCall
<1> QED
  BY <1>5, <1>6

(* add() *)
LEMMA AddWorks ==
  ASSUME Assumptions, TypeOK, Meddling, NEW n \in Nodes, NEW s \in Slots, NEW v \in Args,
         Add(n, s, v)
  PROVE  Working(n)
<1> DEFINE c == child[n]
           d == ParamAdd(c, s, v)
<1>1. s \in {n, Global} /\ ~ c.lock /\ Call(n, d) /\ IsParameter(c) /\ setup \in Setups
  BY DEF Add, TypeOK
<1>2. Holding(c, s) \in Seq(Items) /\ Holding(c, s) \o New(c, s, v) \in Seq(Items)
  BY <1>1, ArgTypes, HoldingType
<1>3. Writes(d, c, s, Holding(c, s) \o New(c, s, v))
  BY <1>1, <1>2, SlotFacts DEF ParamAdd
<1>4. CASE New(c, s, v) = <<>>
  <2>1. /\ UNCHANGED <<journal, meddlers>>
        /\ silent' = IF s = n /\ c.node[n] = Unset THEN silent \cup {n} ELSE silent
    BY <1>4 DEF Add
  <2>2. Holding(c, s) \o New(c, s, v) = Holding(c, s)
    BY <1>2, <1>4
  <2>3. n \notin silent' => n \notin silent /\ d.node[n] = c.node[n]
    BY <1>1, <1>3, <2>1, <2>2, SlotKinds DEF Writes, Holding
  <2>4. IsParameter(d) /\ d.lock = c.lock /\ d.beside = c.beside
    BY <1>3 DEF Writes
  <2>5. silent' \subseteq Nodes /\ \A m \in Nodes \ {n} : m \in silent' <=> m \in silent
    BY <2>1 DEF TypeOK
  <2> HIDE DEF d
  <2> QED
    BY <1>1, <2>1, <2>3, <2>4, <2>5, UnrecordedCall
<1>5. CASE New(c, s, v) # <<>>
  <2> DEFINE e == Entry("add", s, v)
  <2>1. Record(n, e) /\ silent' = silent
    BY <1>5 DEF Add
  <2>2. e \in Entries(n) /\ e.type = "add" /\ e.slot = s /\ e.value = v
    BY <1>1, EntryTypes DEF Entry
  <2>3. d = Replay1(c, e)
    BY <2>2, ReplayCases
  <2>4. silent' \subseteq Nodes
    BY <2>1 DEF TypeOK
  <2> HIDE DEF e, d
  <2> QED
    BY <1>1, <2>1, <2>2, <2>3, <2>4, RecordedCall
<1> QED
  BY <1>4, <1>5

(* unset() *)
LEMMA UnsetWorks ==
  ASSUME Assumptions, TypeOK, Meddling, NEW n \in Nodes, NEW s \in Slots, UnsetSlot(n, s)
  PROVE  Working(n)
<1> DEFINE c == child[n]
           e == Entry("unset", s, <<>>)
<1>1. /\ s \in {n, Global} /\ Call(n, ParamUnset(c, s)) /\ Record(n, e)
      /\ silent' = IF s = n /\ ~ c.lock THEN silent \ {n} ELSE silent
  BY DEF UnsetSlot
<1>2. e \in Entries(n) /\ e.type = "unset" /\ e.slot = s
  BY <1>1, EntryTypes DEF Entry, Args
<1>3. ParamUnset(c, s) = Replay1(c, e)
  BY <1>2, ReplayCases
<1>4. silent' \subseteq Nodes /\ \A m \in Nodes \ {n} : m \in silent' <=> m \in silent
  BY <1>1 DEF TypeOK
<1>5. n \notin silent' => n \notin silent \/ (~ c.lock /\ e.slot = n)
  BY <1>1, <1>2
<1> HIDE DEF e
<1> QED
  BY <1>1, <1>2, <1>3, <1>4, <1>5, RecordedCall

(* Setting the lock *)
LEMMA LockWorks ==
  ASSUME Assumptions, TypeOK, Meddling, NEW n \in Nodes, NEW b \in BOOLEAN, Lock(n, b)
  PROVE  Working(n)
<1> DEFINE e == Entry("lock", Global, b)
<1>1. Call(n, SetLock(child[n], b)) /\ Record(n, e) /\ silent' = silent
  BY DEF Lock
<1>2. e \in Entries(n) /\ e.type = "lock" /\ e.value = b
  BY EntryTypes DEF Entry, Args
<1>3. SetLock(child[n], b) = Replay1(child[n], e)
  BY <1>2, ReplayCases
<1>4. silent' \subseteq Nodes
  BY <1>1 DEF TypeOK
<1> HIDE DEF e
<1> QED
  BY <1>1, <1>2, <1>3, <1>4, RecordedCall

(* ... and that of a keypath beside it *)
LEMMA BesideWorks ==
  ASSUME Assumptions, TypeOK, Meddling, NEW n \in Nodes, NEW b \in BOOLEAN, LockSibling(n, b)
  PROVE  Working(n)
<1> DEFINE e == Entry("beside", Global, b)
<1>1. Call(n, LockBeside(child[n], b)) /\ Record(n, e) /\ silent' = silent
  BY DEF LockSibling
<1>2. e \in Entries(n) /\ e.type = "beside" /\ e.value = b
  BY EntryTypes DEF Entry, Args
<1>3. LockBeside(child[n], b) = Replay1(child[n], e)
  BY <1>2, ReplayCases
<1>4. silent' \subseteq Nodes
  BY <1>1 DEF TypeOK
<1> HIDE DEF e
<1> QED
  BY <1>1, <1>2, <1>3, <1>4, RecordedCall

(* remove() *)
LEMMA RemoveWorks ==
  ASSUME Assumptions, TypeOK, Meddling, NEW n \in Nodes, RemoveKey(n)
  PROVE  Working(n)
<1> DEFINE e == Entry("remove", Global, <<>>)
<1>1. /\ ~ child[n].lock /\ ~ child[n].beside /\ Call(n, Removed(child[n])) /\ Record(n, e)
      /\ silent' = silent \ {n}
  BY DEF RemoveKey
<1>2. e \in Entries(n) /\ e.type = "remove"
  BY EntryTypes DEF Entry, Args
<1>3. Removed(child[n]) = Replay1(child[n], e)
  BY <1>2, ReplayCases
<1>4. silent' \subseteq Nodes /\ \A m \in Nodes \ {n} : m \in silent' <=> m \in silent
  BY <1>1 DEF TypeOK
<1> HIDE DEF e
<1> QED
  BY <1>1, <1>2, <1>3, <1>4, RecordedCall
-----------------------------------------------------------------------------
(***************************************************************************)
(* The steps.                                                              *)
(***************************************************************************)
LEMMA RunningKept ==
  ASSUME UNCHANGED <<setup, parent>>, JournalsOK, NEW n \in Nodes, RunningAt(n),
         journal'[n] = journal[n], child'[n] = child[n], n \in silent' <=> n \in silent,
         base'[n] = base[n], meddlers \subseteq meddlers',
         phase'[n] \in {"running", "ended"} => phase[n] \in {"running", "ended"}
  PROVE  RunningAt(n)'
<1> SUFFICES ASSUME phase'[n] \in {"running", "ended"}, meddlers' \subseteq {n}
             PROVE  Agrees(parent, n)' /\ Agrees(base[n], n)'
  BY DEF RunningAt
<1>1. PICK p, q : p = parent /\ q = base[n]
  OBVIOUS
<1>2. Agrees(p, n) /\ Agrees(q, n)
  BY <1>1 DEF RunningAt
<1>3. Agrees(p, n)' /\ Agrees(q, n)'
  BY <1>2, AgreesKept
<1> QED
  BY <1>1, <1>3 DEF Agrees

(* A step that touches neither journal nor own slot of a node keeps its result. *)
LEMMA ResultKept ==
  ASSUME UNCHANGED setup, JournalsOK, NEW n \in Nodes, ResultAt(n),
         journal'[n] = journal[n], child'[n].node[n] = child[n].node[n],
         n \in silent' <=> n \in silent, base'[n] = base[n], meddlers \subseteq meddlers',
         disk'[n] = "success" => disk[n] = "success",
         phase'[n] \in {"out", "merged", "reused"} => phase[n] \in {"out", "merged", "reused"}
  PROVE  ResultAt(n)'
<1>1. PICK q : q = base[n]
  OBVIOUS
<1>2. Replay(q, journal[n])' = Replay(q, journal[n])
  BY ReplayKept DEF JournalsOK
<1> QED
  BY <1>1, <1>2 DEF ResultAt

(* A call in the process of a node keeps the invariant. *)
LEMMA WorkingKeeps ==
  ASSUME Assumptions, Inv, NEW n \in Nodes, Working(n)
  PROVE  Inv'
<1> USE DEF Inv
<1>1. /\ phase[n] = "running" /\ UNCHANGED <<setup, project, base, phase, runs>>
      /\ meddlers \subseteq meddlers'
      /\ \A m \in Nodes \ {n} :
           child'[m] = child[m] /\ journal'[m] = journal[m] /\ (m \in silent' <=> m \in silent)
  BY DEF Working
<1>2. TypeOK'
  BY <1>1 DEF Working, TypeOK, project
<1>3. Meddling'
  BY <1>1 DEF Working, Meddling, Meddles
<1>4. NoResult'
  BY <1>1 DEF NoResult, project
<1>5. PendingInv'
  BY <1>1 DEF PendingInv, project
<1>6. RunningInv'
  <2> SUFFICES ASSUME NEW m \in Nodes PROVE RunningAt(m)'
    BY DEF RunningInv
  <2>1. JournalsOK /\ RunningAt(m) /\ UNCHANGED <<setup, parent, base, phase>>
    BY <1>1 DEF TypeOK, RunningInv, project
  <2>2. CASE m # n
    BY <1>1, <2>1, <2>2, RunningKept
  <2>3. CASE m = n
    <3> SUFFICES ASSUME meddlers' \subseteq {n}
                 PROVE  Agrees(parent, n)' /\ Agrees(base[n], n)'
      BY <2>3 DEF RunningAt
    <3>1. PICK p, q : p = parent /\ q = base[n]
      OBVIOUS
    <3>2. Agrees(p, n) /\ Agrees(q, n)
      BY <1>1, <2>1, <2>3, <3>1 DEF RunningAt
    <3>3. IsParameter(p) /\ IsParameter(q)
      BY <3>1 DEF TypeOK
    <3>4. Agrees(p, n)' /\ Agrees(q, n)'
      BY <3>2, <3>3 DEF Working
    <3> QED
      BY <2>1, <3>1, <3>4 DEF Agrees
  <2> QED
    BY <2>2, <2>3
<1>7. ResultInv'
  <2> SUFFICES ASSUME NEW m \in Nodes PROVE ResultAt(m)'
    BY DEF ResultInv
  <2>1. JournalsOK /\ ResultAt(m) /\ UNCHANGED <<setup, base, phase, disk>>
    BY <1>1 DEF TypeOK, ResultInv, project
  <2>2. CASE m # n
    BY <1>1, <2>1, <2>2, ResultKept
  <2>3. CASE m = n
    BY <1>1, <2>3 DEF ResultAt
  <2> QED
    BY <2>2, <2>3
<1>8. \A m \in Merged : m # n
  BY <1>1 DEF Merged
<1>9. Merged' = Merged
  BY <1>1 DEF Merged
<1>10. OwnValuesArrive'
  BY <1>1, <1>8, <1>9 DEF OwnValuesArrive, Merged, project
<1>11. AddsInv'
  <2>1. \A m \in Merged : journal'[m] = journal[m]
    BY <1>1, <1>8 DEF Merged
  <2> QED
    BY <1>1, <1>9, <2>1 DEF AddsInv, project
<1>12. OriginInv'
  BY <1>1 DEF OriginInv, project
<1> QED
  BY <1>2, <1>3, <1>4, <1>5, <1>6, <1>7, <1>10, <1>11, <1>12

(* The invariant holds at first. *)
LEMMA InitInv ==
  ASSUME Assumptions, Init
  PROVE  Inv
<1>1. /\ setup \in Setups /\ IsParameter(setup.param) /\ parent = setup.param
      /\ origin = setup.param /\ carried = FALSE
      /\ DOMAIN child = Nodes /\ DOMAIN base = Nodes /\ DOMAIN journal = Nodes
      /\ \A n \in Nodes : /\ child[n] = Blank /\ base[n] = Blank /\ journal[n] = <<>> /\ disk[n] = "none"
                          /\ phase[n] = "out"
  BY DEF Init, Assumptions, IsSetup
<1>2. \A n \in Nodes : <<>> \in Seq(Entries(n))
  OBVIOUS
<1>3. JournalsOK
  BY <1>1, <1>2 DEF JournalsOK
<1>4. TypeOK
  <2>1. /\ disk \in [Nodes -> {"none", "success", "error"}]
        /\ phase \in [Nodes -> {"out", "pending", "running", "ended", "merged", "reused", "crashed"}]
    BY DEF Init
  <2>2. /\ silent = {} /\ early = {} /\ meddlers = {} /\ overruled = FALSE
        /\ calls \in 0 .. MaxCalls /\ runs \in 0 .. MaxRuns
    BY DEF Init, Assumptions
  <2> QED
    BY <1>1, <1>3, <2>1, <2>2, BlankFacts DEF TypeOK
<1>5. Merged = {}
  BY <1>1 DEF Merged
<1>6. Meddling
  BY <1>1 DEF Meddling
<1>7. NoResult /\ PendingInv /\ RunningInv
  BY <1>1 DEF NoResult, PendingInv, RunningInv, RunningAt
<1>8. ResultInv
  BY <1>1 DEF ResultInv, ResultAt
<1>9. OwnValuesArrive /\ AddsInv
  BY <1>1, <1>5 DEF OwnValuesArrive, AddsInv
<1>10. OriginInv
  BY <1>1 DEF OriginInv
<1> QED
  BY <1>4, <1>6, <1>7, <1>8, <1>9, <1>10 DEF Inv

(* A node's own part of a parameter is a parameter in which it finds the same. *)
LEMMA OwnFacts ==
  ASSUME NEW p, IsParameter(p), NEW n \in Nodes
  PROVE  IsParameter(Own(p, n)) /\ SameOwn(p, Own(p, n), n)
<1>1. n \in Slots
  BY DEF Slots
<1> QED
  BY <1>1, BlankFacts DEF IsParameter, Own, SameOwn

(* A process is forked. *)
LEMMA ForkKeeps ==
  ASSUME Assumptions, Inv, NEW n \in Nodes, Fork(n)
  PROVE  Inv'
<1> USE DEF Inv
<1>1. /\ phase[n] = "pending" /\ DOMAIN child = Nodes /\ DOMAIN base = Nodes /\ DOMAIN phase = Nodes
      /\ UNCHANGED <<setup, origin, carried, parent, disk, early, overruled>>
      /\ UNCHANGED <<journal, silent, meddlers, calls, runs>>
      /\ phase' = [phase EXCEPT ![n] = "running"] /\ child' = [child EXCEPT ![n] = parent]
      /\ base' = [base EXCEPT ![n] = Own(parent, n)] /\ IsParameter(parent)
  BY DEF Fork, project, TypeOK
<1>2. /\ phase'[n] = "running" /\ child'[n] = parent /\ DOMAIN child' = Nodes
      /\ base'[n] = Own(parent, n) /\ DOMAIN base' = Nodes
      /\ \A m \in Nodes \ {n} : phase'[m] = phase[m] /\ child'[m] = child[m] /\ base'[m] = base[m]
      /\ IsParameter(base'[n]) /\ SameOwn(parent, base'[n], n)
  BY <1>1, OwnFacts
<1>3. TypeOK'
  <2>1. JournalsOK'
    BY <1>1 DEF TypeOK, JournalsOK, Entries, Args
  <2> QED
    BY <1>1, <1>2, <2>1 DEF TypeOK
<1>4. Meddling' /\ NoResult'
  BY <1>1, <1>2 DEF Meddling, NoResult
<1>5. PendingInv'
  BY <1>1, <1>2 DEF PendingInv
<1>6. RunningInv'
  <2> SUFFICES ASSUME NEW m \in Nodes PROVE RunningAt(m)'
    BY DEF RunningInv
  <2>1. JournalsOK /\ RunningAt(m)
    BY DEF TypeOK, RunningInv
  <2>2. CASE m # n
    BY <1>1, <1>2, <2>1, <2>2, RunningKept
  <2>3. CASE m = n
    <3> SUFFICES ASSUME meddlers' \subseteq {n}
                 PROVE  Agrees(parent, n)' /\ Agrees(base[n], n)'
      BY <2>3 DEF RunningAt
    <3>1. \A p : Replay(p, journal[n])' = p
      <4>1. <<>> \in Seq({})
        OBVIOUS
      <4>2. \A p : Replay(p, <<>>)' = Replay(p, <<>>)
        BY <1>1, <4>1, ReplayKept
      <4>3. journal'[n] = <<>>
        BY <1>1 DEF PendingInv
      <4> QED
        BY <4>2, <4>3, ReplayEmpty
    <3> QED
      BY <1>1, <1>2, <3>1 DEF Agrees, SameOwn
  <2> QED
    BY <2>2, <2>3
<1>7. ResultInv'
  <2> SUFFICES ASSUME NEW m \in Nodes PROVE ResultAt(m)'
    BY DEF ResultInv
  <2>1. JournalsOK /\ ResultAt(m)
    BY DEF TypeOK, ResultInv
  <2>2. CASE m # n
    BY <1>1, <1>2, <2>1, <2>2, ResultKept
  <2>3. CASE m = n
    BY <1>2, <2>3 DEF ResultAt
  <2> QED
    BY <2>2, <2>3
<1>8. Merged' = Merged /\ n \notin Merged
  BY <1>1, <1>2 DEF Merged
<1>9. OwnValuesArrive' /\ AddsInv' /\ OriginInv'
  <2>1. \A m \in Merged : child'[m] = child[m] /\ phase'[m] = phase[m] /\ base'[m] = base[m]
    BY <1>2, <1>8 DEF Merged
  <2> QED
    BY <1>1, <1>8, <2>1 DEF OwnValuesArrive, AddsInv, OriginInv
<1> QED
  BY <1>3, <1>4, <1>5, <1>6, <1>7, <1>9
(* It ends. *)
LEMMA EndKeeps ==
  ASSUME Assumptions, Inv, NEW n \in Nodes, End(n)
  PROVE  Inv'
<1> USE DEF Inv
<1>1. PICK s \in {"success", "error"} : disk' = [disk EXCEPT ![n] = s]
  BY DEF End
<1>2. /\ phase[n] = "running" /\ DOMAIN phase = Nodes /\ DOMAIN disk = Nodes
      /\ UNCHANGED <<setup, origin, carried, parent, child, base, journal, silent>>
      /\ UNCHANGED <<early, overruled, meddlers, calls, runs>>
      /\ phase' = [phase EXCEPT ![n] = "ended"]
  BY DEF End, TypeOK
<1>3. /\ phase'[n] = "ended"
      /\ \A m \in Nodes \ {n} : phase'[m] = phase[m] /\ disk'[m] = disk[m]
  BY <1>1, <1>2
<1>4. TypeOK'
  <2>1. JournalsOK'
    BY <1>2 DEF TypeOK, JournalsOK, Entries, Args
  <2>2. disk' \in [Nodes -> {"none", "success", "error"}]
    BY <1>1 DEF TypeOK
  <2>3. phase' \in [Nodes -> {"out", "pending", "running", "ended", "merged", "reused", "crashed"}]
    BY <1>2 DEF TypeOK
  <2> QED
    BY <1>2, <2>1, <2>2, <2>3 DEF TypeOK
<1>5. Meddling' /\ NoResult' /\ PendingInv'
  BY <1>2, <1>3 DEF Meddling, NoResult, PendingInv
<1>6. RunningInv' /\ ResultInv'
  <2> SUFFICES ASSUME NEW m \in Nodes PROVE RunningAt(m)' /\ ResultAt(m)'
    BY DEF RunningInv, ResultInv
  <2>1. JournalsOK /\ RunningAt(m) /\ ResultAt(m)
    BY DEF TypeOK, RunningInv, ResultInv
  <2>2. RunningAt(m)'
    BY <1>2, <1>3, <2>1, RunningKept
  <2>3. CASE m # n
    BY <1>2, <1>3, <2>1, <2>2, <2>3, ResultKept
  <2>4. CASE m = n
    BY <1>3, <2>2, <2>4 DEF ResultAt
  <2> QED
    BY <2>3, <2>4
<1>7. Merged' = Merged /\ n \notin Merged
  BY <1>2, <1>3 DEF Merged
<1>8. OwnValuesArrive' /\ AddsInv' /\ OriginInv'
  <2>1. \A m \in Merged : phase'[m] = phase[m]
    BY <1>3, <1>7 DEF Merged
  <2> QED
    BY <1>2, <1>7, <2>1 DEF OwnValuesArrive, AddsInv, OriginInv
<1> QED
  BY <1>4, <1>5, <1>6, <1>8

(* It crashes. *)
LEMMA CrashKeeps ==
  ASSUME Assumptions, Inv, NEW n \in Nodes, Crash(n)
  PROVE  Inv'
<1> USE DEF Inv
<1>1. /\ phase[n] = "running" /\ DOMAIN phase = Nodes /\ DOMAIN child = Nodes /\ DOMAIN base = Nodes
      /\ UNCHANGED <<setup, origin, carried, parent, disk, early, overruled, meddlers, calls, runs>>
      /\ phase' = [phase EXCEPT ![n] = "crashed"] /\ child' = [child EXCEPT ![n] = Blank]
      /\ base' = [base EXCEPT ![n] = Blank]
      /\ journal' = [journal EXCEPT ![n] = <<>>] /\ silent' = silent \ {n}
      /\ DOMAIN journal = Nodes
  BY DEF Crash, project, TypeOK, JournalsOK
<1>2. /\ phase'[n] = "crashed" /\ child'[n] = Blank /\ base'[n] = Blank /\ journal'[n] = <<>>
      /\ DOMAIN child' = Nodes /\ DOMAIN base' = Nodes /\ DOMAIN journal' = Nodes
      /\ \A m \in Nodes \ {n} : /\ phase'[m] = phase[m] /\ child'[m] = child[m] /\ base'[m] = base[m]
                                /\ journal'[m] = journal[m] /\ (m \in silent' <=> m \in silent)
  BY <1>1
<1>3. TypeOK'
  <2>1. \A m \in Nodes : journal'[m] \in Seq(Entries(m))
    <3>1. \A m \in Nodes : journal[m] \in Seq(Entries(m))
      BY DEF TypeOK, JournalsOK
    <3>2. <<>> \in Seq(Entries(n))
      OBVIOUS
    <3> QED
      BY <1>2, <3>1, <3>2
  <2>2. JournalsOK'
    BY <1>2, <2>1 DEF JournalsOK
  <2>3. phase' \in [Nodes -> {"out", "pending", "running", "ended", "merged", "reused", "crashed"}]
    BY <1>1 DEF TypeOK
  <2>4. \A m \in Nodes : IsParameter(child'[m]) /\ IsParameter(base'[m])
    BY <1>2, BlankFacts DEF TypeOK
  <2> QED
    BY <1>1, <1>2, <2>2, <2>3, <2>4 DEF TypeOK
<1>4. Meddling'
  <2>1. DOMAIN journal'[n] = {}
    BY <1>2
  <2> QED
    BY <1>1, <1>2, <2>1 DEF Meddling
<1>5. NoResult' /\ PendingInv'
  BY <1>1, <1>2 DEF NoResult, PendingInv
<1>6. RunningInv' /\ ResultInv'
  <2> SUFFICES ASSUME NEW m \in Nodes PROVE RunningAt(m)' /\ ResultAt(m)'
    BY DEF RunningInv, ResultInv
  <2>1. JournalsOK /\ RunningAt(m) /\ ResultAt(m)
    BY DEF TypeOK, RunningInv, ResultInv
  <2>2. CASE m # n
    <3>1. RunningAt(m)'
      BY <1>1, <1>2, <2>1, <2>2, RunningKept
    <3>2. ResultAt(m)'
      BY <1>1, <1>2, <2>1, <2>2, ResultKept
    <3> QED
      BY <3>1, <3>2
  <2>3. CASE m = n
    BY <1>2, <2>3 DEF RunningAt, ResultAt
  <2> QED
    BY <2>2, <2>3
<1>7. Merged' = Merged /\ n \notin Merged
  BY <1>1, <1>2 DEF Merged
<1>8. OwnValuesArrive' /\ AddsInv' /\ OriginInv'
  <2>1. \A m \in Merged : /\ phase'[m] = phase[m] /\ child'[m] = child[m] /\ journal'[m] = journal[m]
                          /\ base'[m] = base[m] /\ (m \in silent' <=> m \in silent)
    BY <1>2, <1>7 DEF Merged
  <2> QED
    BY <1>1, <1>7, <2>1 DEF OwnValuesArrive, AddsInv, OriginInv
<1> QED
  BY <1>3, <1>4, <1>5, <1>6, <1>8

(* Its journal is replayed in the run. *)
LEMMA MergeKeeps ==
  ASSUME Assumptions, Inv, NEW n \in Nodes, Merge(n)
  PROVE  Inv'
<1> USE DEF Inv
<1> DEFINE q == Replay(parent, journal[n])
<1>1. /\ phase[n] = "ended" /\ DOMAIN phase = Nodes /\ DOMAIN child = Nodes
      /\ UNCHANGED <<setup, origin, carried, base, journal, disk, silent>>
      /\ UNCHANGED <<early, overruled, meddlers, calls, runs>>
      /\ phase' = [phase EXCEPT ![n] = "merged"] /\ child' = [child EXCEPT ![n] = Left(n)]
      /\ parent' = q
  BY DEF Merge, TypeOK
<1>2. /\ setup \in Setups /\ JournalsOK /\ journal[n] \in Seq(Entries(n))
      /\ IsParameter(parent) /\ n \in Slots
  BY DEF TypeOK, JournalsOK, Slots
<1>3. IsParameter(q)
  BY <1>2, ReplaysKeepType
<1>4. Left(n).node[n] = child[n].node[n] /\ IsParameter(Left(n))
  BY <1>2, BlankFacts DEF Left, TypeOK, IsParameter
<1>5. /\ phase'[n] = "merged" /\ child'[n] = Left(n) /\ DOMAIN child' = Nodes
      /\ \A m \in Nodes \ {n} : phase'[m] = phase[m] /\ child'[m] = child[m]
  BY <1>1
<1>6. ASSUME NEW m \in Nodes \ {n}, meddlers \subseteq {m}
      PROVE  SameOwn(q, parent, m)
  <2>1. \A k \in DOMAIN journal[n] : journal[n][k].type \notin {"lock", "beside", "remove"}
    BY <1>6 DEF Meddling
  <2> QED
    BY <1>2, <2>1, ReplaysOther
<1>7. TypeOK'
  <2>1. JournalsOK'
    BY <1>1, <1>2 DEF JournalsOK, Entries, Args
  <2>2. phase' \in [Nodes -> {"out", "pending", "running", "ended", "merged", "reused", "crashed"}]
    BY <1>1 DEF TypeOK
  <2>3. \A m \in Nodes : IsParameter(child'[m])
    BY <1>4, <1>5 DEF TypeOK
  <2> HIDE DEF q
  <2> QED
    BY <1>1, <1>3, <1>5, <2>1, <2>2, <2>3 DEF TypeOK
<1>8. Meddling' /\ NoResult'
  BY <1>1, <1>5 DEF Meddling, NoResult
<1>9. PendingInv'
  <2> SUFFICES ASSUME NEW m \in Nodes, phase'[m] = "pending"
               PROVE  /\ journal'[m] = <<>> /\ m \notin silent'
                      /\ m \notin early' /\ meddlers' \subseteq {m} =>
                           SameOwn(parent', origin', m)
    BY DEF PendingInv
  <2>1. m # n /\ phase[m] = "pending"
    BY <1>5
  <2>2. meddlers \subseteq {m} => SameOwn(q, parent, m)
    BY <1>6, <2>1
  <2> HIDE DEF q
  <2> QED
    BY <1>1, <2>1, <2>2 DEF PendingInv, SameOwn
<1>10. RunningInv'
  <2> SUFFICES ASSUME NEW m \in Nodes, phase'[m] \in {"running", "ended"}, meddlers' \subseteq {m}
               PROVE  Agrees(parent, m)' /\ Agrees(base[m], m)'
    BY DEF RunningInv, RunningAt
  <2>1. m # n /\ phase[m] \in {"running", "ended"} /\ meddlers \subseteq {m}
    BY <1>1, <1>5
  <2>2. Agrees(parent, m) /\ Agrees(base[m], m)
    BY <2>1 DEF RunningInv, RunningAt
  <2>3. journal[m] \in Seq(Entries(m)) /\ journal' = journal /\ setup' = setup
    BY <1>1, <1>2 DEF JournalsOK
  <2>4. \A p : Replay(p, journal[m])' = Replay(p, journal[m])
    BY <2>3, ReplayKept
  <2>5. SameOwn(Replay(q, journal[m]), Replay(parent, journal[m]), m)
    <3>1. SameOwn(q, parent, m)
      BY <1>6, <2>1
    <3> HIDE DEF q
    <3> QED
      BY <1>2, <1>3, <2>3, <3>1, ReplaysSame
  <2> HIDE DEF q
  <2>6. Agrees(parent, m)'
    BY <1>1, <1>5, <2>1, <2>2, <2>4, <2>5 DEF Agrees, SameOwn
  <2>7. Agrees(base[m], m)'
    BY <1>1, <1>5, <2>1, <2>2, <2>4 DEF Agrees
  <2> QED
    BY <2>6, <2>7
<1>11. ResultInv'
  <2> SUFFICES ASSUME NEW m \in Nodes PROVE ResultAt(m)'
    BY DEF ResultInv
  <2>1. RunningAt(m) /\ ResultAt(m)
    BY DEF RunningInv, ResultInv
  <2> HIDE DEF q
  <2>2. CASE m # n
    BY <1>1, <1>2, <1>5, <2>1, <2>2, ResultKept
  <2>3. CASE m = n
    <3>1. PICK r : r = base[n]
      OBVIOUS
    <3>2. Replay(r, journal[n])' = Replay(r, journal[n])
      BY <1>1, <1>2, ReplayKept
    <3>3. n \notin silent /\ meddlers \subseteq {n} =>
            Replay(r, journal[n]).node[n] = child[n].node[n]
      BY <1>1, <2>1, <2>3, <3>1 DEF RunningAt, Agrees
    <3> QED
      BY <1>1, <1>4, <1>5, <2>3, <3>1, <3>2, <3>3 DEF ResultAt
  <2> QED
    BY <2>2, <2>3
<1>12. Merged' = Merged \cup {n} /\ n \notin Merged
  BY <1>1, <1>5 DEF Merged
<1>13. OwnValuesArrive'
  <2> SUFFICES ASSUME NEW m \in Merged', m \notin silent', meddlers' \subseteq {m},
                      phase'[m] = "reused" => Own(origin', m) = base'[m]
               PROVE  parent'.node[m] = child'[m].node[m]
    BY DEF OwnValuesArrive
  <2>1. CASE m = n
    <3>1. RunningAt(n)
      BY DEF RunningInv
    <3>2. q.node[n] = child[n].node[n]
      BY <1>1, <2>1, <3>1 DEF RunningAt, Agrees
    <3> HIDE DEF q
    <3> QED
      BY <1>1, <1>4, <1>5, <2>1, <3>2
  <2>2. CASE m # n
    <3>1. m \in Merged /\ m \in Nodes
      BY <1>12, <2>2 DEF Merged
    <3>2. SameOwn(q, parent, m)
      BY <1>1, <1>6, <2>2, <3>1
    <3> HIDE DEF q
    <3>3. parent.node[m] = child[m].node[m]
      BY <1>1, <1>5, <2>2, <3>1 DEF OwnValuesArrive
    <3> QED
      BY <1>1, <1>5, <2>2, <3>1, <3>2, <3>3 DEF SameOwn
  <2> QED
    BY <2>1, <2>2
<1>14. AddsInv'
  <2> SUFFICES ASSUME ~ origin'.lock, ~ overruled',
                      \A m \in Merged' : ~ Overwriting(journal'[m])
               PROVE  ~ parent'.lock /\ \A m \in Merged' : HoldsAdds(parent', journal'[m])
    BY DEF AddsInv
  <2>1. ~ parent.lock /\ \A m \in Merged : HoldsAdds(parent, journal[m])
    BY <1>1, <1>12 DEF AddsInv
  <2>2. ~ Overwriting(journal[n])
    BY <1>1, <1>12
  <2>3. ~ q.lock /\ Grows(parent, q) /\ HoldsAdds(q, journal[n])
    BY <1>2, <2>1, <2>2, ReplaysAdd
  <2> HIDE DEF q
  <2>4. \A m \in Merged : HoldsAdds(q, journal[m])
    BY <2>1, <2>3, GrowsHolds DEF HoldsAdds
  <2> QED
    BY <1>1, <1>12, <2>3, <2>4
<1>15. OriginInv'
  BY <1>1 DEF OriginInv
<1> HIDE DEF q
<1> QED
  BY <1>7, <1>8, <1>9, <1>10, <1>11, <1>13, <1>14, <1>15

(* What a run begins with is a parameter, and has only what it was given if it was reset. *)
LEMMA BegunFacts ==
  ASSUME Assumptions, setup \in Setups, IsParameter(parent), NEW b \in setup.begins
  PROVE  /\ IsParameter(Begun(b))
         /\ b.how # "kept" => \A s \in Slots : Begun(b).node[s] \in {Unset, setup.param.node[s]}
<1>1. IsParameter(setup.param) /\ b.how \in {"new", "reset", "kept"} /\ b.again \in BOOLEAN
  BY DEF Assumptions, IsSetup, Begins
<1> DEFINE q == Before(b.how)
<1>2. IsParameter(Reset(parent)) /\ Reset(parent).node = Blank.node
  BY BlankFacts DEF Reset, IsParameter
<1>3. IsParameter(q) /\ (b.how # "kept" => \A s \in Slots : q.node[s] = Unset)
  <2>1. CASE b.how = "new"
    BY <2>1, BlankFacts DEF Before
  <2>2. CASE b.how = "reset"
    BY <1>2, <2>2, BlankFacts DEF Before
  <2>3. CASE b.how = "kept"
    BY <2>3 DEF Before
  <2> QED
    BY <1>1, <2>1, <2>2, <2>3
<1> HIDE DEF q
<1>4. /\ IsParameter(SetAgain(q))
      /\ \A s \in Slots : SetAgain(q).node[s] \in {q.node[s], setup.param.node[s]}
  BY <1>1, <1>3 DEF SetAgain, IsParameter
<1>5. Begun(b) \in {SetAgain(q), q}
  BY DEF Begun, q
<1> QED
  BY <1>3, <1>4, <1>5

(* The next run is set up. *)
LEMMA ConfigureKeeps ==
  ASSUME Assumptions, Inv, NEW V \in Views, NEW S, NEW b \in setup.begins, Configure(V, S, b)
  PROVE  Inv'
<1> USE DEF Inv
<1> DEFINE done    == {n \in V : disk[n] = "success"}
           changed == Below(S \cap done)
           reused  == done \ changed
           pending == (changed \cup Below(V \ done)) \cap V
           begun   == Begun(b)
           q       == ReplayAll(begun, reused)
<1>1. /\ Idle /\ runs < MaxRuns /\ runs' = runs + 1 /\ UNCHANGED <<setup, meddlers, calls>>
      /\ origin' = begun /\ carried' = (b.how = "kept") /\ parent' = q
      /\ phase' = [n \in Nodes |-> IF n \in pending THEN "pending" ELSE IF n \in V THEN "reused" ELSE "out"]
      /\ disk' = [n \in Nodes |-> IF n \in pending THEN "none" ELSE disk[n]]
      /\ journal' = [n \in Nodes |-> IF n \in pending THEN <<>> ELSE journal[n]]
      /\ child' = [n \in Nodes |-> IF n \in pending THEN Blank ELSE child[n]]
      /\ base' = [n \in Nodes |-> IF n \in pending THEN Blank ELSE base[n]]
      /\ early' = reused \cap pending
      /\ overruled' = \E n \in reused \cap pending : Overwriting(journal[n])
      /\ silent' = silent \ pending
  BY DEF Configure
<1>2. /\ V \subseteq Nodes /\ reused \subseteq Nodes /\ pending \subseteq V
      /\ \A n \in reused : disk[n] = "success"
      /\ V \ pending \subseteq reused
  <2>1. V \ done \subseteq Below(V \ done)
    BY BelowHolds
  <2> HIDE DEF changed
  <2> QED
    BY <2>1 DEF Views
<1>3. /\ setup \in Setups /\ JournalsOK /\ IsParameter(begun)
      /\ \A n \in Nodes : /\ journal[n] \in Seq(Entries(n))
                          /\ IsParameter(child[n]) /\ IsParameter(base[n])
  BY BegunFacts DEF TypeOK, JournalsOK
<1> HIDE DEF reused, pending, begun
<1>4. IsParameter(q)
  BY <1>3, ReplayAllKeepsType
<1> HIDE DEF q, done, changed
<1>5. /\ DOMAIN journal' = Nodes /\ DOMAIN child' = Nodes /\ DOMAIN base' = Nodes
      /\ \A n \in Nodes \ pending :
           /\ journal'[n] = journal[n] /\ child'[n] = child[n] /\ base'[n] = base[n]
           /\ disk'[n] = disk[n] /\ (n \in silent' <=> n \in silent)
           /\ phase'[n] \in {"reused", "out"} /\ (phase'[n] = "reused" <=> n \in V)
      /\ \A n \in pending :
           /\ journal'[n] = <<>> /\ child'[n] = Blank /\ base'[n] = Blank /\ disk'[n] = "none"
           /\ phase'[n] = "pending" /\ n \notin silent' /\ (n \in early' <=> n \in reused)
  BY <1>1, <1>2
<1>6. TypeOK'
  <2>1. \A n \in Nodes : journal'[n] \in Seq(Entries(n))
    <3>1. \A n \in Nodes : <<>> \in Seq(Entries(n))
      OBVIOUS
    <3> QED
      BY <1>3, <1>5, <3>1
  <2>2. JournalsOK'
    BY <1>5, <2>1 DEF JournalsOK
  <2>3. phase' \in [Nodes -> {"out", "pending", "running", "ended", "merged", "reused", "crashed"}]
    BY <1>1
  <2>4. disk' \in [Nodes -> {"none", "success", "error"}]
    BY <1>1 DEF TypeOK
  <2>5. \A n \in Nodes : IsParameter(child'[n]) /\ IsParameter(base'[n])
    BY <1>3, <1>5, BlankFacts
  <2>6. runs' \in 0 .. MaxRuns /\ overruled' \in BOOLEAN
    BY <1>1 DEF TypeOK, Assumptions
  <2>7. setup' \in Setups /\ calls' \in 0 .. MaxCalls /\ meddlers' \subseteq Nodes /\ IsParameter(parent')
        /\ IsParameter(origin') /\ carried' \in BOOLEAN
    BY <1>1, <1>3, <1>4 DEF TypeOK
  <2>8. silent' \subseteq Nodes /\ early' \subseteq Nodes
    BY <1>1, <1>2 DEF TypeOK
  <2> QED
    BY <1>5, <2>2, <2>3, <2>4, <2>5, <2>6, <2>7, <2>8 DEF TypeOK
<1>7. Meddling'
  <2>1. \A n \in pending : DOMAIN journal'[n] = {}
    BY <1>5
  <2> QED
    BY <1>1, <1>5, <2>1 DEF Meddling
<1>8. NoResult'
  BY <1>2, <1>5 DEF NoResult
<1>9. ASSUME NEW n \in Nodes, meddlers \subseteq {n}
      PROVE  SameOwn(q, Then(begun, reused, n), n)
  <2>1. \A m \in Nodes \ {n} : \A k \in DOMAIN journal[m] : journal[m][k].type \notin {"lock", "beside", "remove"}
    BY <1>9 DEF Meddling
  <2> QED
    BY <1>3, <2>1, ReplayAllOwn DEF q
<1>10. PendingInv'
  <2> SUFFICES ASSUME NEW n \in Nodes, phase'[n] = "pending"
               PROVE  /\ journal'[n] = <<>> /\ n \notin silent'
                      /\ n \notin early' /\ meddlers' \subseteq {n} =>
                           SameOwn(parent', origin', n)
    BY DEF PendingInv
  <2>1. n \in pending
    BY <1>5
  <2>2. n \notin reused /\ meddlers \subseteq {n} => SameOwn(q, begun, n)
    BY <1>9 DEF Then
  <2> QED
    BY <1>1, <1>5, <2>1, <2>2
<1>11. RunningInv'
  BY <1>5 DEF RunningInv, RunningAt
<1>12. ResultInv'
  <2> SUFFICES ASSUME NEW n \in Nodes PROVE ResultAt(n)'
    BY DEF ResultInv
  <2>1. CASE n \in pending
    BY <1>5, <2>1 DEF ResultAt
  <2>2. CASE n \notin pending
    <3>1. disk[n] = "success" => phase[n] \in {"out", "merged", "reused"}
      BY <1>1 DEF TypeOK, NoResult, Idle
    <3>2. ResultAt(n) /\ setup' = setup /\ meddlers' = meddlers
      BY <1>1 DEF ResultInv
    <3>3. PICK r : r = base[n]
      OBVIOUS
    <3>4. Replay(r, journal[n])' = Replay(r, journal[n])
      BY <1>3, <1>5, <2>2, <3>2, ReplayKept
    <3> QED
      BY <1>5, <2>2, <3>1, <3>2, <3>3, <3>4 DEF ResultAt
  <2> QED
    BY <2>1, <2>2
<1>13. Merged' = V \ pending
  BY <1>2, <1>5 DEF Merged
<1>14. OwnValuesArrive'
  <2> SUFFICES ASSUME NEW n \in Merged', n \notin silent', meddlers' \subseteq {n},
                      phase'[n] = "reused" => Own(origin', n) = base'[n]
               PROVE  parent'.node[n] = child'[n].node[n]
    BY DEF OwnValuesArrive
  <2>1. n \in Nodes /\ n \in V /\ n \notin pending /\ n \in reused
    BY <1>2, <1>13
  <2>2. /\ n \notin silent /\ child'[n] = child[n] /\ meddlers \subseteq {n}
        /\ Own(begun, n) = base[n]
    BY <1>1, <1>5, <2>1
  <2>3. disk[n] = "success" /\ phase[n] \in {"out", "merged", "reused"}
    BY <1>1, <1>2, <2>1 DEF TypeOK, NoResult, Idle
  <2>4. Replay(base[n], journal[n]).node[n] = child[n].node[n]
    BY <2>1, <2>2, <2>3 DEF ResultInv, ResultAt
  <2>5. SameOwn(q, Replay(begun, journal[n]), n)
    BY <1>9, <2>1, <2>2 DEF Then
  <2>6. SameOwn(begun, base[n], n)
    BY <1>3, <2>1, <2>2, OwnFacts
  <2>7. SameOwn(Replay(begun, journal[n]), Replay(base[n], journal[n]), n)
    BY <1>3, <2>1, <2>6, ReplaysSame
  <2> QED
    BY <1>1, <2>2, <2>4, <2>5, <2>7 DEF SameOwn
<1>15. AddsInv'
  <2> SUFFICES ASSUME ~ origin'.lock, ~ overruled',
                      \A n \in Merged' : ~ Overwriting(journal'[n])
               PROVE  ~ parent'.lock /\ \A n \in Merged' : HoldsAdds(parent', journal'[n])
    BY DEF AddsInv
  <2>1. \A n \in reused : ~ Overwriting(journal[n])
    <3> SUFFICES ASSUME NEW n \in reused PROVE ~ Overwriting(journal[n])
      OBVIOUS
    <3>1. CASE n \in pending
      BY <1>1, <3>1
    <3>2. CASE n \notin pending
      <4>1. n \in V
        BY DEF reused, done
      <4> QED
        BY <1>2, <1>5, <1>13, <3>2, <4>1
    <3> QED
      BY <3>1, <3>2
  <2>2. ~ begun.lock
    BY <1>1
  <2>3. ~ q.lock /\ \A n \in reused : HoldsAdds(q, journal[n])
    BY <1>2, <1>3, <2>1, <2>2, ReplayAllAdds DEF q
  <2> QED
    BY <1>1, <1>2, <1>5, <1>13, <2>3
<1>16. OriginInv'
  <2>1. b.how # "kept" => \A s \in Slots : begun.node[s] \in {Unset, setup.param.node[s]}
    BY <1>3, BegunFacts DEF begun, TypeOK
  <2> QED
    BY <1>1, <2>1 DEF OriginInv
<1> QED
  BY <1>6, <1>7, <1>8, <1>10, <1>11, <1>12, <1>14, <1>15, <1>16

(* A step that changes nothing. *)
LEMMA StutterKeeps ==
  ASSUME Inv, UNCHANGED vars
  PROVE  Inv'
<1> USE DEF Inv, vars, project
<1>1. \A p, n : n \in Nodes => Replay(p, journal[n])' = Replay(p, journal[n])
  BY ReplayKept DEF TypeOK, JournalsOK
<1>2. TypeOK'
  BY DEF TypeOK, JournalsOK, Entries, Args
<1>3. Meddling' /\ NoResult' /\ PendingInv'
  BY DEF Meddling, NoResult, PendingInv
<1>4. RunningInv' /\ ResultInv'
  BY <1>1 DEF RunningInv, RunningAt, ResultInv, ResultAt, Agrees
<1>5. OwnValuesArrive' /\ AddsInv' /\ OriginInv'
  BY DEF OwnValuesArrive, AddsInv, OriginInv, Merged
<1> QED
  BY <1>2, <1>3, <1>4, <1>5

(* The invariant holds in every reachable state. *)
LEMMA AlwaysInv == Spec => []Inv
<1>1. Init => Inv
  BY InitInv, Assumptions
<1>2. ASSUME Inv, [Next]_vars PROVE Inv'
  <2>1. CASE UNCHANGED vars
    BY <1>2, <2>1, StutterKeeps
  <2>2. CASE Finished
    BY <1>2, <2>2, StutterKeeps DEF Finished
  <2>3. ASSUME NEW V \in Views, NEW S, NEW b \in setup.begins, Configure(V, S, b) PROVE Inv'
    BY <1>2, <2>3, ConfigureKeeps, Assumptions
  <2>4. ASSUME NEW n \in Nodes, Fork(n) PROVE Inv'
    BY <1>2, <2>4, ForkKeeps, Assumptions
  <2>5. ASSUME NEW n \in Nodes, End(n) PROVE Inv'
    BY <1>2, <2>5, EndKeeps, Assumptions
  <2>6. ASSUME NEW n \in Nodes, Crash(n) PROVE Inv'
    BY <1>2, <2>6, CrashKeeps, Assumptions
  <2>7. ASSUME NEW n \in Nodes, Merge(n) PROVE Inv'
    BY <1>2, <2>7, MergeKeeps, Assumptions
  <2>8. ASSUME NEW n \in Nodes, Working(n) PROVE Inv'
    BY <1>2, <2>8, WorkingKeeps, Assumptions
  <2>9. TypeOK /\ Meddling
    BY <1>2 DEF Inv
  <2>10. ASSUME NEW n \in Nodes, NEW s \in Slots, NEW v \in Args, Add(n, s, v) PROVE Inv'
    BY <2>8, <2>9, <2>10, AddWorks, Assumptions
  <2>11. ASSUME NEW n \in Nodes, NEW s \in Slots, NEW v \in Args, NEW clobber \in BOOLEAN, Set(n, s, v, clobber)
         PROVE  Inv'
    BY <2>8, <2>9, <2>11, SetWorks, Assumptions
  <2>12. ASSUME NEW n \in Nodes, NEW s \in Slots, UnsetSlot(n, s) PROVE Inv'
    BY <2>8, <2>9, <2>12, UnsetWorks, Assumptions
  <2>13. ASSUME NEW n \in Nodes, NEW b \in BOOLEAN, Lock(n, b) PROVE Inv'
    BY <2>8, <2>9, <2>13, LockWorks, Assumptions
  <2>14. ASSUME NEW n \in Nodes, RemoveKey(n) PROVE Inv'
    BY <2>8, <2>9, <2>14, RemoveWorks, Assumptions
  <2>15. ASSUME NEW n \in Nodes, NEW b \in BOOLEAN, LockSibling(n, b) PROVE Inv'
    BY <2>8, <2>9, <2>15, BesideWorks, Assumptions
  <2> QED
    BY <1>2, <2>1, <2>2, <2>3, <2>4, <2>5, <2>6, <2>7, <2>10, <2>11, <2>12, <2>13, <2>14, <2>15 DEF Next
<1> QED
  BY <1>1, <1>2, PTL DEF Spec

-----------------------------------------------------------------------------
(***************************************************************************)
(* Parameters stay parameters and journals what can be replayed on them.   *)
(***************************************************************************)
THEOREM TypeCorrect == Spec => []TypeOK
<1>1. Inv => TypeOK
  BY DEF Inv
<1> QED
  BY <1>1, AlwaysInv, PTL

(***************************************************************************)
(* What a node's process left in its own slot is what the project has      *)
(* there once its journal was replayed, in any interleaving with other     *)
(* nodes, calls and runs, if the run begins with what the process began    *)
(* with, which a run after one that raised does not.                       *)
(***************************************************************************)
THEOREM OwnValuesAlwaysArrive == Spec => []OwnValuesArrive
<1>1. Inv => OwnValuesArrive
  BY DEF Inv
<1> QED
  BY <1>1, AlwaysInv, PTL

(***************************************************************************)
(* No item added to the common list is lost, however many nodes add to it  *)
(* from the copies they began with, in a run that did not begin with the   *)
(* list locked.                                                            *)
(***************************************************************************)
THEOREM AddsAlwaysArrive == Spec => []AddsArrive
<1>1. Inv => AddsArrive
  <2> SUFFICES ASSUME Inv, ~ origin.lock, ~ overruled, \A m \in Merged : ~ Overwriting(journal[m])
               PROVE  \A n \in Merged : HoldsAdds(parent, journal[n])
    BY DEF AddsArrive, HoldsAdds, Holds
  <2> QED
    BY DEF Inv, AddsInv
<1> QED
  BY <1>1, AlwaysInv, PTL

(***************************************************************************)
(* A node's process begins with what the run began with, which after a     *)
(* reset is what the user and setup() gave the node, or nothing.           *)
(***************************************************************************)
THEOREM RunsAlwaysStartAfresh == Spec => RunsStartAfresh
<1> DEFINE Fresh ==
      \A n \in Nodes :
        /\ phase[n] = "pending" /\ phase'[n] = "running"
        /\ n \notin early /\ meddlers \subseteq {n}
        => /\ child'[n].node[n] = origin.node[n]
           /\ ~ carried => child'[n].node[n] \in {Unset, setup.param.node[n]}
<1>1. ASSUME Inv, [Next]_vars PROVE [Fresh]_vars
  <2> SUFFICES ASSUME Next, NEW n \in Nodes, phase[n] = "pending", phase'[n] = "running",
                      n \notin early, meddlers \subseteq {n}
               PROVE  /\ child'[n].node[n] = origin.node[n]
                      /\ ~ carried => child'[n].node[n] \in {Unset, setup.param.node[n]}
    BY <1>1
  <2>1. /\ DOMAIN child = Nodes /\ DOMAIN phase = Nodes
        /\ \A m \in Nodes : phase[m] = "running" => m # n
    BY <1>1 DEF Inv, TypeOK
  <2>2. CASE Fork(n)
    BY <1>1, <2>1, <2>2 DEF Inv, PendingInv, OriginInv, SameOwn, Fork, Slots
  <2>3. ASSUME NEW m \in Nodes, Fork(m), m # n PROVE FALSE
    BY <2>1, <2>3 DEF Fork
  <2>4. ASSUME NEW m \in Nodes, End(m) \/ Crash(m) \/ Merge(m) PROVE FALSE
    BY <2>1, <2>4 DEF End, Crash, Merge
  <2>5. ASSUME NEW m \in Nodes, NEW p, Call(m, p) PROVE FALSE
    BY <2>5 DEF Call
  <2>6. ASSUME NEW V \in Views, NEW S, NEW b, Configure(V, S, b) PROVE FALSE
    BY <2>6 DEF Configure
  <2>7. ASSUME Finished PROVE FALSE
    BY <2>7 DEF Finished, vars
  <2> QED
    BY <2>2, <2>3, <2>4, <2>5, <2>6, <2>7
       DEF Next, Add, Set, SetSlot, UnsetSlot, Lock, LockSibling, RemoveKey
<1> QED
  BY <1>1, AlwaysInv, PTL DEF Spec, RunsStartAfresh

=============================================================================

--------------------------- MODULE SchemaJournal ---------------------------
(***************************************************************************)
(* How values set by a node's process reach the project: the process works *)
(* on its copy of the schema and records its calls in a journal, saved in  *)
(* the node's manifest (schema/journal.py, schema/baseschema.py); the task *)
(* scheduler replays it when the process has ended, and the next run       *)
(* replays it again for a node whose result it uses again                  *)
(* (scheduler/scheduler.py).  Between two runs of one process the project  *)
(* is reset, or not (project.py).                                          *)
(*                                                                         *)
(* One keypath is followed, a Parameter that holds a list or a set         *)
(* (schema/parameter.py, schema/parametervalue.py).  Its values belong to  *)
(* a slot: a node's step and index, or the whole project.                  *)
(***************************************************************************)
EXTENDS Integers, FiniteSets, SequencesExt

CONSTANTS
  Order,     \* the nodes of the flow, in an execution order
  Global,    \* the slot of the whole project
  Unset,     \* what a slot holds that was never set
  Items,     \* the items calls pass
  Setups,    \* what the project may look like when a run begins (see SetupType)
  MaxCalls,  \* bound: calls made by node processes, all together
  MaxRuns    \* bound: runs, one after the other

Nodes == ToSet(Order)
Slots == Nodes \cup {Global}

\* Calls pass nothing or one item.
Args == {<<>>} \cup {<<i>> : i \in Items}

(***************************************************************************)
(* A parameter: what each slot holds, its lock, whether a keypath beside   *)
(* it is locked, and whether the keypath is there at all.                  *)
(***************************************************************************)
IsParameter(p) ==
  /\ DOMAIN p = {"node", "lock", "beside", "present"}
  /\ DOMAIN p.node = Slots
  /\ \A s \in Slots : p.node[s] = Unset \/ p.node[s] \in Seq(Items)
  /\ p.lock \in BOOLEAN /\ p.beside \in BOOLEAN /\ p.present \in BOOLEAN

Blank ==
  [node |-> [s \in Slots |-> Unset], lock |-> FALSE, beside |-> FALSE, present |-> FALSE]

Begins == [how : {"new", "reset", "kept"}, again : BOOLEAN]

\* unique: a set rather than a list; defvalue; input: which nodes wait for
\* which; param: the parameter as the user and setup() leave it; begins: how
\* runs of this project begin.
IsSetup(c) ==
  /\ c.unique \in BOOLEAN
  /\ c.defvalue \in Seq(Items)
  /\ c.input \subseteq Nodes \X Nodes
  /\ IsParameter(c.param)
  /\ c.begins \subseteq Begins

ASSUME Assumptions ==
  /\ Order \in Seq(Nodes) /\ IsInjective(Order)
  /\ Global \notin Nodes /\ Unset \notin Seq(Items)
  /\ MaxCalls \in Nat /\ MaxRuns \in Nat
  /\ \A c \in Setups : IsSetup(c)

VARIABLES
  setup,     \* what the project and its runs are like
  origin,    \* the parameter as the run began, before anything was replayed
  carried,   \* whether the run before left it so
  parent,    \* the parameter in the process of the run
  child,     \* the parameter in the process of each node
  base,      \* the part of it that was the node's own when that process began
  journal,   \* the journal of each node's last process
  disk,      \* the status in each node's manifest, "none" if there is none
  phase,     \* how far each node is in this run
  silent,    \* nodes whose slot changed unrecorded, and was not set since
  early,     \* nodes whose old journal was replayed in this run, and that run
  overruled, \* whether such a journal did what all nodes see
  meddlers,  \* nodes that ever removed the keypath, or locked one here
  calls, runs

project == <<origin, carried, parent, disk, early, overruled>>
vars    == <<setup, project, child, base, journal, phase, silent, meddlers, calls, runs>>

Init ==
  /\ setup \in Setups
  /\ origin = setup.param /\ carried = FALSE /\ parent = setup.param
  /\ child = [n \in Nodes |-> Blank] /\ base = [n \in Nodes |-> Blank]
  /\ journal = [n \in Nodes |-> <<>>]
  /\ disk = [n \in Nodes |-> "none"]
  /\ phase = [n \in Nodes |-> "out"]
  /\ silent = {} /\ early = {} /\ overruled = FALSE /\ meddlers = {}
  /\ calls = 0 /\ runs = 0

-----------------------------------------------------------------------------
(***************************************************************************)
(* The calls, on a parameter p.                                            *)
(***************************************************************************)
\* is_set(): a global value counts for every node.
IsSet(p, s) == p.node[Global] # Unset \/ p.node[s] # Unset

Holding(p, s) == IF p.node[s] = Unset THEN setup.defvalue ELSE p.node[s]

\* What add() brings to a list, or to a set that may have the item.
New(p, s, v) ==
  IF setup.unique /\ ToSet(v) \subseteq ToSet(Holding(p, s)) THEN <<>> ELSE v

Put(p, s, v) == [p EXCEPT !.node[s] = v, !.present = TRUE]

\* Mutant: the parameter forgets the slot altogether.
UnsetDropsSlot(p, s) ==
  IF p.lock THEN p ELSE [p EXCEPT !.node = [t \in Slots \ {s} |-> @[t]]]

ParamSet(p, s, v)  == IF p.lock THEN p ELSE Put(p, s, v)
ParamAdd(p, s, v)  == IF p.lock THEN p ELSE Put(p, s, Holding(p, s) \o New(p, s, v))
ParamUnset(p, s)   == IF p.lock THEN p ELSE [p EXCEPT !.node[s] = Unset]
SetLock(p, b)      == [p EXCEPT !.lock = b, !.present = TRUE]
LockBeside(p, b)   == [p EXCEPT !.beside = b]

\* A key is not removed while anything beside it is locked.
Removed(p) == IF p.lock \/ p.beside THEN p ELSE Blank

(***************************************************************************)
(* Journal.replay(): the entries in the order they were recorded.          *)
(***************************************************************************)
Replay1(p, e) ==
  CASE e.type = "set"    -> ParamSet(p, e.slot, e.value)
    [] e.type = "add"    -> ParamAdd(p, e.slot, e.value)
    [] e.type = "unset"  -> ParamUnset(p, e.slot)
    [] e.type = "lock"   -> SetLock(p, e.value)
    [] e.type = "beside" -> LockBeside(p, e.value)
    [] e.type = "remove" -> Removed(p)

Replay(p, j) == FoldLeft(Replay1, p, j)

Entry(t, s, v) == [type |-> t, slot |-> s, value |-> v]

\* What takes from the other nodes what they have in common.
Overwrites(e) == e.type \in {"remove", "lock"} \/ (e.slot = Global /\ e.type \in {"set", "unset"})

Overwriting(j) == \E k \in DOMAIN j : Overwrites(j[k])

-----------------------------------------------------------------------------
(***************************************************************************)
(* A call in the process of node n, on its own slot or on the global one.  *)
(* Only calls that do something take a step.                               *)
(***************************************************************************)
Call(n, p) ==
  /\ phase[n] = "running"
  /\ calls < MaxCalls
  /\ calls' = calls + 1
  /\ child' = [child EXCEPT ![n] = p]
  /\ UNCHANGED <<setup, project, base, phase, runs>>

Record(n, e) ==
  /\ journal' = [journal EXCEPT ![n] = Append(@, e)]
  /\ meddlers' = IF e.type \in {"remove", "lock", "beside"} THEN meddlers \cup {n} ELSE meddlers

SetSlot(n, s, v, p) ==
  /\ s \in {n, Global} /\ ~ child[n].lock
  /\ Call(n, p)
  /\ IF v = <<>> THEN UNCHANGED <<journal, meddlers>> ELSE Record(n, Entry("set", s, v))
  /\ silent' = IF s = Global THEN silent ELSE IF v = <<>> THEN silent \cup {n} ELSE silent \ {n}

\* Mutant: a value that was kept because it was set before is recorded.
SetRecordsRefusals(n, s, v, clobber) ==
  SetSlot(n, s, v, IF clobber \/ ~ IsSet(child[n], s) THEN ParamSet(child[n], s, v) ELSE child[n])

\* set() answers with the values it has set: with none, nothing is recorded.
Set(n, s, v, clobber) ==
  /\ clobber \/ ~ IsSet(child[n], s)
  /\ SetSlot(n, s, v, ParamSet(child[n], s, v))

\* So does add(); the slot may hold the default from now on.
Add(n, s, v) ==
  /\ s \in {n, Global} /\ ~ child[n].lock
  /\ Call(n, ParamAdd(child[n], s, v))
  /\ IF New(child[n], s, v) = <<>>
       THEN /\ UNCHANGED <<journal, meddlers>>
            /\ silent' = IF s = n /\ child[n].node[s] = Unset THEN silent \cup {n} ELSE silent
       ELSE /\ Record(n, Entry("add", s, v))
            /\ UNCHANGED silent

\* Recorded even when the lock kept it from doing anything.
UnsetSlot(n, s) ==
  /\ s \in {n, Global}
  /\ Call(n, ParamUnset(child[n], s))
  /\ Record(n, Entry("unset", s, <<>>))
  /\ silent' = IF s = n /\ ~ child[n].lock THEN silent \ {n} ELSE silent

Lock(n, b) ==
  /\ Call(n, SetLock(child[n], b))
  /\ Record(n, Entry("lock", Global, b))
  /\ UNCHANGED silent

LockSibling(n, b) ==
  /\ child[n].beside # b
  /\ Call(n, LockBeside(child[n], b))
  /\ Record(n, Entry("beside", Global, b))
  /\ UNCHANGED silent

RemoveKey(n) ==
  /\ child[n].present /\ ~ child[n].lock /\ ~ child[n].beside
  /\ Call(n, Removed(child[n]))
  /\ Record(n, Entry("remove", Global, <<>>))
  /\ silent' = silent \ {n}

-----------------------------------------------------------------------------
(***************************************************************************)
(* A run.  Below(S): the nodes in S and what can be reached from them.     *)
(***************************************************************************)
Below(S) ==
  LET Down[i \in 0 .. Len(Order)] ==
        IF i = 0 THEN S
        ELSE IF \E m \in Down[i - 1] : <<m, Order[i]>> \in setup.input
             THEN Down[i - 1] \cup {Order[i]} ELSE Down[i - 1]
  IN  Down[Len(Order)]

\* What the option to leaves of a flow.
Views == {V \in SUBSET Nodes : Below(Nodes \ V) = Nodes \ V /\ V # {}}

\* The nodes whose journal the project has.
Merged == {n \in Nodes : phase[n] \in {"merged", "reused"}}

\* What is a node's own: its slot, and whether that can be changed.
Own(p, n) == [Blank EXCEPT !.node[n] = p.node[n], !.lock = p.lock, !.beside = p.beside]

\* What a process that is gone leaves to compare with.
Left(n) == [Blank EXCEPT !.node[n] = child[n].node[n]]

Idle == \A n \in Nodes : phase[n] \notin {"running", "ended"}

\* The journals of the nodes in S replayed on p, in execution order.
ReplayAll(p, S) ==
  FoldLeft(LAMBDA q, n : IF n \in S THEN Replay(q, journal[n]) ELSE q, p, Order)

(***************************************************************************)
(* What a run begins with: in a new process nothing is set; after a run of *)
(* the same process that returned the project is reset, but for its locks; *)
(* after one that raised, or if the parameter is of global scope, it is    *)
(* not.  Then the user and setup() may set the parameter (again).          *)
(***************************************************************************)
\* Mutant: values are kept, as those of a parameter of global scope are.
ResetNothing(p) == p

Reset(p) == [p EXCEPT !.node = Blank.node]

SetAgain(p) ==
  [p EXCEPT !.node = [s \in Slots |-> IF p.lock \/ setup.param.node[s] = Unset
                                      THEN p.node[s] ELSE setup.param.node[s]],
            !.lock = @ \/ setup.param.lock,
            !.beside = @ \/ setup.param.beside,
            !.present = @ \/ setup.param.present]

Before(how) ==
  CASE how = "new" -> Blank [] how = "reset" -> Reset(parent) [] how = "kept" -> parent

Begun(b) == IF b.again THEN SetAgain(Before(b.how)) ELSE Before(b.how)

(***************************************************************************)
(* configure_nodes() of a run of the nodes V, when those in S have changed *)
(* since their result was made.  Journals of the results to use again are  *)
(* replayed in execution order, and only then are the nodes below a failed *)
(* or missing one marked to run, and the directories of all that are to    *)
(* run removed.                                                            *)
(***************************************************************************)
Configure(V, S, b) ==
  LET done    == {n \in V : disk[n] = "success"}
      changed == Below(S \cap done)
      reused  == done \ changed
      pending == (changed \cup Below(V \ done)) \cap V
      Kept(f, none) == [n \in Nodes |-> IF n \in pending THEN none ELSE f[n]]
  IN  /\ Idle /\ runs < MaxRuns
      /\ runs' = runs + 1
      /\ origin' = Begun(b) /\ carried' = (b.how = "kept")
      /\ parent' = ReplayAll(Begun(b), reused)
      /\ phase' = Kept([n \in Nodes |-> IF n \in V THEN "reused" ELSE "out"], "pending")
      /\ disk' = Kept(disk, "none")
      /\ journal' = Kept(journal, <<>>)
      /\ child' = Kept(child, Blank) /\ base' = Kept(base, Blank)
      /\ early' = reused \cap pending
      /\ overruled' = \E n \in reused \cap pending : Overwriting(journal[n])
      /\ silent' = silent \ pending
      /\ UNCHANGED <<setup, meddlers, calls>>

\* The node's process has the project as it is, and an empty journal.
Fork(n) ==
  /\ phase[n] = "pending"
  /\ \A m \in Nodes : <<m, n>> \in setup.input => m \in Merged /\ disk[m] = "success"
  /\ phase' = [phase EXCEPT ![n] = "running"]
  /\ child' = [child EXCEPT ![n] = parent]
  /\ base' = [base EXCEPT ![n] = Own(parent, n)]
  /\ UNCHANGED <<setup, project, journal, silent, meddlers, calls, runs>>

\* The process writes its manifest, done or halted.
End(n) ==
  /\ phase[n] = "running"
  /\ phase' = [phase EXCEPT ![n] = "ended"]
  /\ \E s \in {"success", "error"} : disk' = [disk EXCEPT ![n] = s]
  /\ UNCHANGED <<setup, origin, carried, parent, child, base, journal, silent, early, overruled,
                 meddlers, calls, runs>>

\* ... or dies before.
Crash(n) ==
  /\ phase[n] = "running"
  /\ phase' = [phase EXCEPT ![n] = "crashed"]
  /\ child' = [child EXCEPT ![n] = Blank]
  /\ base' = [base EXCEPT ![n] = Blank]
  /\ journal' = [journal EXCEPT ![n] = <<>>]
  /\ silent' = silent \ {n}
  /\ UNCHANGED <<setup, project, meddlers, calls, runs>>

\* Mutant: what the process ended with replaces what the project has.
MergeState(n) ==
  /\ phase[n] = "ended"
  /\ phase' = [phase EXCEPT ![n] = "merged"]
  /\ parent' = child[n]
  /\ child' = [child EXCEPT ![n] = Left(n)]
  /\ UNCHANGED <<setup, origin, carried, base, journal, disk, silent, early, overruled,
                 meddlers, calls, runs>>

\* TaskScheduler.__process_completed_nodes() replays the journal.
Merge(n) ==
  /\ phase[n] = "ended"
  /\ phase' = [phase EXCEPT ![n] = "merged"]
  /\ parent' = Replay(parent, journal[n])
  /\ child' = [child EXCEPT ![n] = Left(n)]
  /\ UNCHANGED <<setup, origin, carried, base, journal, disk, silent, early, overruled,
                 meddlers, calls, runs>>

Finished ==
  /\ Idle /\ runs = MaxRuns
  /\ UNCHANGED vars

Next ==
  \/ \E V \in Views, S \in SUBSET {n \in Nodes : disk[n] = "success"}, b \in setup.begins :
       Configure(V, S, b)
  \/ \E n \in Nodes :
       \/ Fork(n) \/ End(n) \/ Crash(n) \/ Merge(n)
       \/ \E s \in Slots, v \in Args : Add(n, s, v) \/ \E clobber \in BOOLEAN : Set(n, s, v, clobber)
       \/ \E s \in Slots : UnsetSlot(n, s)
       \/ \E b \in BOOLEAN : Lock(n, b) \/ LockSibling(n, b)
       \/ RemoveKey(n)
  \/ Finished

Spec == Init /\ [][Next]_vars

-----------------------------------------------------------------------------
\* What node n may record.
Entries(n) ==
  [type : {"set", "add"}, slot : {n, Global}, value : Args]
    \cup [type : {"unset"}, slot : {n, Global}, value : {<<>>}]
    \cup [type : {"lock", "beside"}, slot : {Global}, value : BOOLEAN]
    \cup [type : {"remove"}, slot : {Global}, value : {<<>>}]

JournalsOK == DOMAIN journal = Nodes /\ \A n \in Nodes : journal[n] \in Seq(Entries(n))

TypeOK ==
  /\ setup \in Setups
  /\ IsParameter(origin) /\ carried \in BOOLEAN /\ IsParameter(parent)
  /\ DOMAIN child = Nodes /\ \A n \in Nodes : IsParameter(child[n])
  /\ DOMAIN base = Nodes /\ \A n \in Nodes : IsParameter(base[n])
  /\ JournalsOK
  /\ disk \in [Nodes -> {"none", "success", "error"}]
  /\ phase \in [Nodes -> {"out", "pending", "running", "ended", "merged", "reused", "crashed"}]
  /\ silent \subseteq Nodes /\ early \subseteq Nodes /\ meddlers \subseteq Nodes
  /\ overruled \in BOOLEAN
  /\ calls \in 0 .. MaxCalls /\ runs \in 0 .. MaxRuns

(* What a node's process left in its own slot is what the project has      *)
(* there, whatever the nodes beside it did and in whatever order they      *)
(* ended, in the run the node ran in and in every run that uses its result *)
(* again and begins with what that one had for the node.  Set apart: a     *)
(* list that was emptied, or added nothing to, which the journal misses;   *)
(* and other nodes that removed the keypath or locked one here.            *)
OwnValuesArrive ==
  \A n \in Merged \ silent :
    meddlers \subseteq {n} /\ (phase[n] = "reused" => Own(origin, n) = base[n]) =>
      parent.node[n] = child[n].node[n]

(* Items that nodes add to a list of the whole project are all there in    *)
(* the end, unless the run began with the list locked: none is lost to a   *)
(* node that started from an earlier copy.                                 *)
AddsArrive ==
  \/ origin.lock \/ overruled \/ \E m \in Merged : Overwriting(journal[m])
  \/ \A n \in Merged : \A k \in DOMAIN journal[n] :
       journal[n][k].type = "add" /\ journal[n][k].slot = Global =>
         /\ parent.node[Global] # Unset
         /\ ToSet(journal[n][k].value) \subseteq ToSet(parent.node[Global])

(* A node that is run starts from what the run began with, and not from    *)
(* what an earlier run of it left, but for a node whose old result was     *)
(* used before a failed or missing one above it was noticed.  Where the    *)
(* project was reset, that is what the user and setup() gave it.           *)
RunsStartAfresh ==
  [][\A n \in Nodes :
       /\ phase[n] = "pending" /\ phase'[n] = "running"
       /\ n \notin early /\ meddlers \subseteq {n}
       => /\ child'[n].node[n] = origin.node[n]
          /\ ~ carried => child'[n].node[n] \in {Unset, setup.param.node[n]}]_vars
=============================================================================

-------------------------- MODULE DataFetchProofs ---------------------------
(***************************************************************************)
(* Proofs about DataFetch, for every number of processes, threads and      *)
(* names of the source, and every budget.                                  *)
(***************************************************************************)
EXTENDS DataFetch, FiniteSetTheorems, TLAPS

\* Threads of processes that are gone do nothing.
DeadIsIdle == \A c \in Caller : Owner[c] \notin alive => pc[c] = "idle"

Inside == {"file", "touch"} \cup Critical

(***************************************************************************)
(* Who is inside the thread lock holds it, and who holds it is inside; the *)
(* same of the lock file, which is not used where it does not work.        *)
(***************************************************************************)
LockInv ==
  /\ \A c \in Caller : pc[c] \in Inside => tlock[Owner[c]] = c
  /\ \A c \in Caller : pc[c] \in Critical /\ ~ fallback => flock[at[c]] = Owner[c]
  /\ \A d \in Dir : fallback => flock[d] = NoOne
  /\ \A c \in Caller : pc[c] = "touch" => fallback
  /\ LocksHaveHolders

(***************************************************************************)
(* Where file locks work: an incomplete directory is being written or is   *)
(* torn, as one being deleted is, and what an attempt has found, a process *)
(* knows or a worker has reported is complete or torn.                     *)
(***************************************************************************)
Good(d) == d \in torn \/ disk[d] = "complete"

DiskInv ==
  ~ fallback =>
    /\ \A c \in Caller : pc[c] = "fetch" => disk[at[c]] = "absent"
    /\ \A c \in Caller : pc[c] = "write" => disk[at[c]] = "partial"
    /\ \A c \in Caller : pc[c] = "delete" => at[c] \in torn /\ disk[at[c]] = "partial"
    /\ \A d \in Dir : disk[d] = "partial" =>
         d \in torn \/ \E c \in Caller : pc[c] = "write" /\ at[c] = d
    /\ \A c \in Caller : pc[c] \in {"release", "record"} /\ outcome[c] = "ok" => Good(at[c])
    /\ \A p \in Proc : paths[p] # NoDir => Good(paths[p])
    /\ \A w \in Worker : mail[w] # NoDir => Good(mail[w])

IInv == TypeOK /\ DeadIsIdle /\ LockInv /\ DiskInv

-----------------------------------------------------------------------------
USE Assumptions

(* The invariant holds when nothing has been fetched. *)
LEMMA InitInv == Init => IInv
BY DEF Init, IInv, TypeOK, DeadIsIdle, LockInv, DiskInv, LocksHaveHolders, Good,
       Proc, Threads, Places, Critical, Inside

(* Every step is one of a thread or one of a process.                      *)
LEMMA TypeStep == ASSUME TypeOK, [Next]_vars PROVE TypeOK'
<1> USE DEF TypeOK, Places, Waits, Critical, Goto, setup, memory, locks, store, thread, process
<1>1. ASSUME NEW c \in Caller, GetPath(c) PROVE TypeOK'
  <2>0. Owner[c] \in Proc
    OBVIOUS
  <2>1. ASSUME NEW d \in Asks[c], Call(c, d) PROVE TypeOK'
    <3>1. d \in Dir
      OBVIOUS
    <3>2. QED
      BY <2>0, <2>1, <3>1 DEF Call
  <2>2. CASE Attempt(c)
    BY <2>0, <2>2 DEF Attempt
  <2>3. CASE Abandon(c)
    BY <2>0, <2>3 DEF Abandon, BackToIdle
  <2>4. CASE ThreadLock(c)
    BY <2>0, <2>4 DEF ThreadLock
  <2>5. CASE FileLock(c)
    BY <2>0, <2>5 DEF FileLock
  <2>6. CASE FallbackLook(c)
    BY <2>0, <2>6 DEF FallbackLook
  <2>7. CASE FallbackTouch(c)
    BY <2>0, <2>7 DEF FallbackTouch
  <2>8. ASSUME NEW how \in {"transient", "interrupt"}, StopWaiting(c, how) PROVE TypeOK'
    BY <2>0, <2>8 DEF StopWaiting, Ends
  <2>9. CASE Found(c)
    BY <2>0, <2>9 DEF Found, Ends
  <2>10. ASSUME NEW how \in {"transient", "interrupt"}, CheckRaises(c, how) \/ DeleteRaises(c, how)
         PROVE  TypeOK'
    BY <2>0, <2>10 DEF CheckRaises, DeleteRaises, Ends
  <2>11. CASE Missing(c) \/ Corrupted(c) \/ Deleted(c)
    BY <2>0, <2>11 DEF Missing, Corrupted, Deleted
  <2>12. CASE Download(c)
    BY <2>0, <2>12 DEF Download
  <2>13. CASE Stored(c)
    BY <2>0, <2>13 DEF Stored, Ends
  <2>14. ASSUME NEW how \in {"transient", "permanent", "interrupt"}, NEW cleaned \in BOOLEAN,
                FetchFails(c, how, cleaned)
         PROVE  TypeOK'
    BY <2>0, <2>14 DEF FetchFails, Ends
  <2>15. CASE Release(c)
    BY <2>0, <2>15 DEF Release
  <2>16. CASE Record(c)
    BY <2>0, <2>16 DEF Record, Result, BackToIdle
  <2>17. QED
    BY <1>1, <2>1, <2>2, <2>3, <2>4, <2>5, <2>6, <2>7, <2>8, <2>9, <2>10, <2>11, <2>12,
       <2>13, <2>14, <2>15, <2>16 DEF GetPath
<1>2. ASSUME NEW w \in Worker, Fork(w) PROVE TypeOK'
  <2>1. permanent' \in SUBSET {p \in Proc : failures'[p] > 0}
    BY <1>2 DEF Fork, Proc
  <2>2. tlock' \in [Proc -> Caller \cup {NoOne, Ghost}]
    BY <1>2 DEF Fork, Proc
  <2>3. QED
    BY <1>2, <2>1, <2>2 DEF Fork, Proc
<1>3. ASSUME NEW w \in Worker, Finish(w) PROVE TypeOK'
  BY <1>3 DEF Finish, Forget, Proc
<1>4. ASSUME NEW w \in Worker, Collect(w) PROVE TypeOK'
  BY <1>4 DEF Collect, Proc
<1>5. ASSUME NEW p \in Proc, Kill(p) PROVE TypeOK'
  BY <1>5 DEF Kill, Forget, Threads
<1>6. CASE Restart
  BY <1>6 DEF Restart, Proc
<1>7. CASE UNCHANGED vars
  BY <1>7 DEF vars
<1>8. QED
  BY <1>1, <1>2, <1>3, <1>4, <1>5, <1>6, <1>7 DEF Next

(* A caller whose process is gone stays at rest. *)
LEMMA AliveStep == ASSUME TypeOK, DeadIsIdle, [Next]_vars PROVE DeadIsIdle'
<1> USE DEF TypeOK, DeadIsIdle, Goto, setup, memory, locks, store, thread, process
<1>1. ASSUME NEW c \in Caller, GetPath(c) PROVE DeadIsIdle'
  <2>1. UNCHANGED alive /\ Owner[c] \in alive /\ \A e \in Caller \ {c} : pc'[e] = pc[e]
    BY <1>1 DEF GetPath, Call, Attempt, Abandon, ThreadLock, FileLock, FallbackLook,
                FallbackTouch, StopWaiting, Found, Missing, Corrupted, Deleted, Download, Stored,
                CheckRaises, DeleteRaises, FetchFails, Release, Record, Ends, BackToIdle, Waits
  <2>2. QED
    BY <2>1
<1>2. ASSUME NEW w \in Worker, Fork(w) \/ Finish(w) \/ Collect(w) PROVE DeadIsIdle'
  BY <1>2 DEF Fork, Finish, Collect, Forget, Threads
<1>3. ASSUME NEW p \in Proc, Kill(p) PROVE DeadIsIdle'
  BY <1>3 DEF Kill
<1>4. CASE Restart \/ UNCHANGED vars
  BY <1>4 DEF Restart, vars
<1>5. QED
  BY <1>1, <1>2, <1>3, <1>4 DEF Next

(* Every step keeps the locks with the threads that are inside them.       *)
LEMMA LockStep ==
  ASSUME TypeOK, TypeOK', DeadIsIdle, LockInv, [Next]_vars PROVE LockInv'
<1> USE DEF TypeOK, LockInv, LocksHaveHolders, Inside, Waits, Critical, Goto,
            setup, memory, locks, store, thread, process, Threads
<1>1. ASSUME NEW c \in Caller, GetPath(c) PROVE LockInv'
  <2>0. Owner[c] \in Proc
    OBVIOUS
  <2>1. ASSUME NEW d \in Asks[c], Call(c, d) PROVE LockInv'
    BY <2>0, <2>1 DEF Call
  <2>2. CASE Attempt(c)
    BY <2>0, <2>2 DEF Attempt
  <2>3. CASE Abandon(c)
    BY <2>0, <2>3 DEF Abandon, BackToIdle
  <2>4. CASE ThreadLock(c)
    BY <2>0, <2>4 DEF ThreadLock
  <2>5. CASE FileLock(c)
    BY <2>0, <2>5 DEF FileLock
  <2>6. CASE FallbackLook(c)
    BY <2>0, <2>6 DEF FallbackLook
  <2>7. CASE FallbackTouch(c)
    BY <2>0, <2>7 DEF FallbackTouch
  <2>8. ASSUME NEW how \in {"transient", "interrupt"}, StopWaiting(c, how) PROVE LockInv'
    BY <2>0, <2>8 DEF StopWaiting, Ends
  <2>9. CASE Found(c)
    BY <2>0, <2>9 DEF Found, Ends
  <2>10. ASSUME NEW how \in {"transient", "interrupt"}, CheckRaises(c, how) \/ DeleteRaises(c, how)
         PROVE  LockInv'
    BY <2>0, <2>10 DEF CheckRaises, DeleteRaises, Ends
  <2>11. CASE Missing(c) \/ Corrupted(c) \/ Deleted(c)
    BY <2>0, <2>11 DEF Missing, Corrupted, Deleted
  <2>12. CASE Download(c)
    BY <2>0, <2>12 DEF Download
  <2>13. CASE Stored(c)
    BY <2>0, <2>13 DEF Stored, Ends
  <2>14. ASSUME NEW how \in {"transient", "permanent", "interrupt"}, NEW cleaned \in BOOLEAN,
                FetchFails(c, how, cleaned)
         PROVE  LockInv'
    BY <2>0, <2>14 DEF FetchFails, Ends
  <2>15. CASE Release(c)
    BY <2>0, <2>15 DEF Release
  <2>16. CASE Record(c)
    BY <2>0, <2>16 DEF Record, BackToIdle
  <2>17. QED
    BY <1>1, <2>1, <2>2, <2>3, <2>4, <2>5, <2>6, <2>7, <2>8, <2>9, <2>10, <2>11, <2>12,
       <2>13, <2>14, <2>15, <2>16 DEF GetPath
<1>2. ASSUME NEW w \in Worker, Fork(w) PROVE LockInv'
  BY <1>2 DEF Fork, Proc, DeadIsIdle
<1>3. ASSUME NEW w \in Worker, Finish(w) PROVE LockInv'
  BY <1>3 DEF Finish, Forget, Proc
<1>4. ASSUME NEW w \in Worker, Collect(w) PROVE LockInv'
  BY <1>4 DEF Collect
<1>5. ASSUME NEW p \in Proc, Kill(p) PROVE LockInv'
  BY <1>5 DEF Kill, Forget
<1>6. CASE Restart \/ UNCHANGED vars
  BY <1>6 DEF Restart, vars
<1>7. QED
  BY <1>1, <1>2, <1>3, <1>4, <1>5, <1>6 DEF Next

-----------------------------------------------------------------------------
(* Two threads are never inside one directory.                             *)
LEMMA Exclusive ==
  ASSUME TypeOK, LockInv,
         NEW c \in Caller, NEW e \in Caller, c # e,
         pc[c] \in Critical, pc[e] \in Critical, at[c] = at[e]
  PROVE  fallback /\ Owner[c] # Owner[e]
<1>1. Owner[c] # Owner[e]
  BY DEF LockInv, Inside
<1>2. fallback
  BY <1>1 DEF LockInv, TypeOK
<1>3. QED
  BY <1>1, <1>2

(* What is checked or found inside the locks is good, unless it is being   *)
(* written, which only the thread inside can do.                           *)
LEMMA InsideIsGood ==
  ASSUME TypeOK, LockInv, DiskInv, ~ fallback,
         NEW c \in Caller, pc[c] \in Critical \ {"write"}, disk[at[c]] # "absent"
  PROVE  Good(at[c])
<1>1. at[c] \in Dir
  BY DEF TypeOK, Critical
<1>2. ~ \E e \in Caller : pc[e] = "write" /\ at[e] = at[c]
  BY Exclusive DEF Critical
<1>3. QED
  BY <1>1, <1>2 DEF DiskInv, Good, TypeOK

(* Every step keeps what is served good.                                   *)
LEMMA DiskStep ==
  ASSUME TypeOK, TypeOK', LockInv, DiskInv, [Next]_vars PROVE DiskInv'
<1> USE DEF TypeOK, DiskInv, Good, Waits, Critical, Goto,
            setup, memory, locks, store, thread, process
<1>0. SUFFICES ASSUME ~ fallback' PROVE DiskInv'
  BY DEF DiskInv
<1>1. ASSUME NEW c \in Caller, GetPath(c) PROVE DiskInv'
  <2>0. Owner[c] \in Proc
    OBVIOUS
  <2>1. ASSUME NEW d \in Asks[c], Call(c, d) PROVE DiskInv'
    BY <1>0, <2>0, <2>1 DEF Call
  <2>2. CASE Attempt(c)
    BY <1>0, <2>0, <2>2 DEF Attempt
  <2>3. CASE Abandon(c)
    BY <1>0, <2>0, <2>3 DEF Abandon, BackToIdle
  <2>4. CASE ThreadLock(c)
    BY <1>0, <2>0, <2>4 DEF ThreadLock
  <2>5. CASE FileLock(c)
    BY <1>0, <2>0, <2>5 DEF FileLock
  <2>6. CASE FallbackLook(c) \/ FallbackTouch(c)
    BY <1>0, <2>0, <2>6 DEF FallbackLook, FallbackTouch
  <2>8. ASSUME NEW how \in {"transient", "interrupt"}, StopWaiting(c, how) PROVE DiskInv'
    BY <1>0, <2>0, <2>8 DEF StopWaiting, Ends
  <2>9. CASE Found(c)
    <3>1. Good(at[c])
      BY <1>0, <2>9, InsideIsGood DEF Found
    <3>2. QED
      BY <1>0, <2>0, <2>9, <3>1 DEF Found, Ends
  <2>10. ASSUME NEW how \in {"transient", "interrupt"}, CheckRaises(c, how) \/ DeleteRaises(c, how)
         PROVE  DiskInv'
    BY <1>0, <2>0, <2>10 DEF CheckRaises, DeleteRaises, Ends
  <2>11. CASE Missing(c) \/ Corrupted(c)
    BY <1>0, <2>0, <2>11, Exclusive DEF Missing, Corrupted
  <2>18. CASE Deleted(c)
    BY <1>0, <2>0, <2>18, Exclusive DEF Deleted
  <2>12. CASE Download(c)
    BY <1>0, <2>0, <2>12, Exclusive DEF Download
  <2>13. CASE Stored(c)
    BY <1>0, <2>0, <2>13, Exclusive DEF Stored, Ends
  <2>14. ASSUME NEW how \in {"transient", "permanent", "interrupt"}, NEW cleaned \in BOOLEAN,
                FetchFails(c, how, cleaned)
         PROVE  DiskInv'
    BY <1>0, <2>0, <2>14, Exclusive DEF FetchFails, Ends
  <2>15. CASE Release(c)
    BY <1>0, <2>0, <2>15 DEF Release
  <2>16. CASE Record(c)
    BY <1>0, <2>0, <2>16 DEF Record, Result, BackToIdle
  <2>17. QED
    BY <1>1, <2>1, <2>2, <2>3, <2>4, <2>5, <2>6, <2>8, <2>9, <2>10, <2>11, <2>12,
       <2>13, <2>14, <2>15, <2>16, <2>18 DEF GetPath
<1>2. ASSUME NEW w \in Worker, Fork(w) PROVE DiskInv'
  BY <1>0, <1>2 DEF Fork, Proc
<1>3. ASSUME NEW w \in Worker, Finish(w) PROVE DiskInv'
  BY <1>0, <1>3 DEF Finish, Forget, Proc
<1>4. ASSUME NEW w \in Worker, Collect(w) PROVE DiskInv'
  BY <1>0, <1>4 DEF Collect, Proc
<1>5. ASSUME NEW p \in Proc, Kill(p) PROVE DiskInv'
  BY <1>0, <1>5 DEF Kill, Forget, Threads
<1>6. CASE Restart \/ UNCHANGED vars
  BY <1>0, <1>6 DEF Restart, vars
<1>7. QED
  BY <1>1, <1>2, <1>3, <1>4, <1>5, <1>6 DEF Next

-----------------------------------------------------------------------------
(* The inductive invariant holds in every reachable state.                 *)
THEOREM Invariant == Spec => []IInv
<1>1. IInv /\ [Next]_vars => IInv'
  BY TypeStep, AliveStep, LockStep, DiskStep DEF IInv
<1>2. QED
  BY InitInv, <1>1, PTL DEF Spec

(* Every variable keeps its type, and a source is never marked as a        *)
(* permanent failure without a failure to report.                          *)
THEOREM TypeCorrect == Spec => []TypeOK
BY Invariant, PTL DEF IInv

(* lock() lets one thread at a time into a directory, of all threads of    *)
(* all processes, and where file locks do not work of its own process.     *)
THEOREM FetchesExclude == Spec => []OneFetchPerDirectory
<1>1. IInv => OneFetchPerDirectory
  BY Exclusive DEF IInv, OneFetchPerDirectory
<1>2. QED
  BY Invariant, <1>1, PTL

(* A lock that is held has a holder that goes on to release it, unless a   *)
(* process was forked with it.                                             *)
THEOREM LocksAreHeld == Spec => []LocksHaveHolders
<1>1. IInv => LocksHaveHolders
  BY DEF IInv, LockInv
<1>2. QED
  BY Invariant, <1>1, PTL

(* What get_path() returns is complete, but for torn directories.          *)
THEOREM ServesComplete == Spec => []ServedIsComplete
<1>1. IInv => ServedIsComplete
  BY DEF IInv, DiskInv, Good, ServedIsComplete
<1>2. QED
  BY Invariant, <1>1, PTL

(* What has been fetched is kept, and only a failed check of the thread    *)
(* that is alone in its directory takes a clone away.                      *)
THEOREM CompleteStays == Spec => CompleteIsKept
<1>1. ASSUME IInv, [Next]_vars, ~ fallback, NEW d \in Dir,
             disk[d] = "complete", disk'[d] # "complete"
      PROVE  \E c \in Caller : /\ at[c] = d /\ Condemns(c)
                              /\ \A e \in Caller \ {c} : at[e] = d => pc[e] \notin Critical
  <2> USE DEF IInv, TypeOK, DiskInv, Good, setup, memory, locks, store, thread, process
  <2>1. PICK c \in Caller : GetPath(c)
    BY <1>1 DEF Next, Fork, Finish, Collect, Kill, Restart, vars
  <2>2. disk[at[c]] = "complete" /\ at[c] = d /\ Corrupted(c)
    <3>1. at[c] \in Dir => disk' \in [Dir -> {"absent", "partial", "complete"}]
      BY <1>1, <2>1, TypeStep
    <3>2. CASE Download(c) \/ Stored(c) \/ Deleted(c)
      BY <1>1, <3>2 DEF Download, Stored, Deleted
    <3>3. ASSUME NEW how \in {"transient", "permanent", "interrupt"}, NEW cleaned \in BOOLEAN,
                 FetchFails(c, how, cleaned)
          PROVE  FALSE
      BY <1>1, <3>3 DEF FetchFails
    <3>4. CASE Corrupted(c)
      BY <1>1, <3>4 DEF Corrupted
    <3>5. QED
      BY <1>1, <2>1, <3>2, <3>3, <3>4 DEF GetPath, Call, Attempt, Abandon, ThreadLock, FileLock,
         FallbackLook, FallbackTouch, StopWaiting, Found, Missing, CheckRaises, DeleteRaises,
         Release, Record
  <2>3. Condemns(c)
    BY <1>1, <2>2 DEF Corrupted, Condemns, Goto
  <2>4. ASSUME NEW e \in Caller \ {c}, at[e] = d PROVE pc[e] \notin Critical
    <3>1. pc[c] \in Critical
      BY <2>2 DEF Corrupted, Critical
    <3>2. QED
      BY <1>1, <2>2, <2>4, <3>1, Exclusive
  <2>5. QED
    BY <2>2, <2>3, <2>4
<1>2. IInv /\ [Next]_vars =>
        [\A d \in Dir : ~ fallback /\ disk[d] = "complete" /\ disk'[d] # "complete" =>
           \E c \in Caller : /\ at[c] = d /\ Condemns(c)
                            /\ \A e \in Caller \ {c} : at[e] = d => pc[e] \notin Critical]_vars
  BY <1>1
<1>3. QED
  BY Invariant, <1>2, PTL DEF CompleteIsKept, Spec

(* A process that has given up on the source, with no attempt under way,   *)
(* begins no other.                                                        *)
THEOREM GivingUpIsFinal == Spec => GivenUpIsFinal
<1>1. ASSUME IInv, [Next]_vars, NEW p \in alive \cap alive', Exhausted(p), InFlight(p) = {}
      PROVE  Exhausted(p)' /\ InFlight(p)' = {}
  <2> USE DEF IInv, TypeOK, Exhausted, InFlight, Threads, Goto,
              setup, memory, locks, store, thread, process
  <2>0. p \in Proc
    BY <1>1
  <2>1. ASSUME NEW c \in Caller, GetPath(c) PROVE Exhausted(p)' /\ InFlight(p)' = {}
    <3>1. CASE Owner[c] = p
      <4>1. pc[c] \in {"idle", "budget"}
        BY <1>1, <3>1
      <4>2. (\E d \in Asks[c] : Call(c, d)) \/ Abandon(c)
        BY <1>1, <2>1, <3>1, <4>1 DEF GetPath, Attempt, ThreadLock, FileLock,
             FallbackLook, FallbackTouch, StopWaiting, Found, Missing, Corrupted, Deleted,
             CheckRaises, DeleteRaises, Download, Stored, FetchFails, Release, Record, Waits
      <4>3. QED
        BY <1>1, <3>1, <4>2 DEF Call, Abandon, BackToIdle
    <3>2. CASE Owner[c] # p
      <4>1. failures'[p] = failures[p] /\ (p \in permanent <=> p \in permanent')
        BY <1>1, <2>0, <2>1, <3>2 DEF GetPath, Call, Attempt, Abandon, ThreadLock, FileLock,
             FallbackLook, FallbackTouch, StopWaiting, Found, Missing, Corrupted, Deleted,
             CheckRaises, DeleteRaises, Download, Stored, FetchFails, Release, Record
      <4>2. \A e \in Caller \ {c} : pc'[e] = pc[e]
        BY <1>1, <2>1 DEF GetPath, Call, Attempt, Abandon, ThreadLock, FileLock,
             FallbackLook, FallbackTouch, StopWaiting, Found, Missing, Corrupted, Deleted,
             CheckRaises, DeleteRaises, Download, Stored, FetchFails, Release, Record, Ends, BackToIdle
      <4>3. QED
        BY <1>1, <3>2, <4>1, <4>2
    <3>3. QED
      BY <3>1, <3>2
  <2>2. ASSUME NEW w \in Worker, Fork(w) \/ Finish(w) \/ Collect(w)
        PROVE  Exhausted(p)' /\ InFlight(p)' = {}
    BY <1>1, <2>0, <2>2 DEF Fork, Finish, Collect, Forget
  <2>3. ASSUME NEW q \in Proc, Kill(q) PROVE Exhausted(p)' /\ InFlight(p)' = {}
    BY <1>1, <2>0, <2>3 DEF Kill, Forget
  <2>4. CASE Restart \/ UNCHANGED vars
    BY <1>1, <2>4 DEF Restart, vars
  <2>5. QED
    BY <1>1, <2>1, <2>2, <2>3, <2>4 DEF Next
<1>2. IInv /\ [Next]_vars =>
        [\A p \in alive \cap alive' :
           Exhausted(p) /\ InFlight(p) = {} => Exhausted(p)' /\ InFlight(p)' = {}]_vars
  BY <1>1
<1>3. QED
  BY Invariant, <1>2, PTL DEF GivenUpIsFinal, Spec

(***************************************************************************)
(* The budget.  Attempts under way count as failures to come: only the     *)
(* check adds one, and it does so below the limit.                         *)
(***************************************************************************)
Spent(p) == failures[p] + Cardinality(InFlight(p))

BudgetInv ==
  \A p \in Proc : \E q \in Proc : Spent(p) < MaxAttempts + Cardinality(Threads(q))

(* The attempts under way in one process are at most its threads. *)
LEMMA FlightIsFinite ==
  ASSUME NEW p \in Proc
  PROVE  /\ IsFiniteSet(InFlight(p)) /\ Cardinality(InFlight(p)) \in Nat
         /\ Cardinality(Threads(p)) \in Nat
         /\ Cardinality(InFlight(p)) <= Cardinality(Threads(p))
<1>1. Threads(p) \subseteq Caller /\ InFlight(p) \subseteq Threads(p)
  BY DEF Threads, InFlight
<1>2. IsFiniteSet(Threads(p))
  BY <1>1, FS_Subset
<1>3. QED
  BY <1>1, <1>2, FS_Subset, FS_CardinalityType

(* What a step does to the budget of one process.                          *)
LEMMA SpentStep ==
  ASSUME TypeOK, TypeOK', DeadIsIdle, [Next]_vars, NEW p \in Proc
  PROVE  \/ Spent(p)' <= Spent(p)
         \/ Spent(p)' < MaxAttempts + Cardinality(Threads(p))
         \/ Spent(p)' <= Spent(Main)
<1> USE DEF TypeOK, InFlight, Threads, Goto, setup, memory, locks, store, thread, process
<1>1. ASSUME InFlight(p)' \subseteq InFlight(p), failures'[p] <= failures[p]
      PROVE  Spent(p)' <= Spent(p)
  <2>1. IsFiniteSet(InFlight(p)) /\ Cardinality(InFlight(p)) \in Nat
    BY FlightIsFinite
  <2> HIDE DEF InFlight
  <2>2. Cardinality(InFlight(p)') <= Cardinality(InFlight(p)) /\ Cardinality(InFlight(p)') \in Nat
    BY <1>1, <2>1, FS_Subset, FS_CardinalityType
  <2>3. Spent(p)' = failures'[p] + Cardinality(InFlight(p)')
    BY DEF Spent
  <2>4. QED
    BY <1>1, <2>1, <2>2, <2>3 DEF Spent
<1>2. ASSUME NEW c \in Caller, Attempt(c), Owner[c] = p
      PROVE  Spent(p)' < MaxAttempts + Cardinality(Threads(p))
  <2>1. failures'[p] = failures[p] /\ failures[p] < MaxAttempts
    BY <1>2 DEF Attempt, Exhausted
  <2>2. InFlight(p)' \subseteq Threads(p)
    OBVIOUS
  <2>0. Threads(p) \subseteq Caller
    OBVIOUS
  <2> HIDE DEF InFlight, Threads
  <2>3. IsFiniteSet(Threads(p)) /\ Cardinality(Threads(p)) \in Nat
    BY <2>0, FS_Subset, FlightIsFinite
  <2>4. Cardinality(InFlight(p)') \in Nat /\ Cardinality(InFlight(p)') <= Cardinality(Threads(p))
    BY <2>2, <2>3, FS_Subset, FS_CardinalityType
  <2>5. Spent(p)' = failures'[p] + Cardinality(InFlight(p)')
    BY DEF Spent
  <2>6. QED
    BY <2>1, <2>3, <2>4, <2>5
<1>3. ASSUME NEW c \in Caller, Record(c), Owner[c] = p
      PROVE  Spent(p)' <= Spent(p)
  <2>1. c \in InFlight(p) /\ InFlight(p)' = InFlight(p) \ {c}
    BY <1>3 DEF Record, BackToIdle
  <2>2. failures'[p] \in Nat /\ failures'[p] <= failures[p] + 1
    <3>1. failures'[p] = CASE Result(c) = "ok" -> 0
                           [] Result(c) = "interrupt" -> failures[p]
                           [] OTHER -> failures[p] + 1
      BY <1>3 DEF Record
    <3>2. failures[p] \in Nat
      OBVIOUS
    <3>3. QED
      BY <3>1, <3>2
  <2>3. IsFiniteSet(InFlight(p)) /\ Cardinality(InFlight(p)) \in Nat
    BY FlightIsFinite
  <2> HIDE DEF InFlight
  <2>4. Cardinality(InFlight(p)') = Cardinality(InFlight(p)) - 1
    <3>1. Cardinality(InFlight(p) \ {c}) = Cardinality(InFlight(p)) - 1
      <4>1. ASSUME NEW S, IsFiniteSet(S), c \in S
            PROVE  Cardinality(S \ {c}) = Cardinality(S) - 1
        BY <4>1, FS_RemoveElement
      <4>2. QED
        BY <2>1, <2>3, <4>1, Zenon
    <3>2. QED
      BY <2>1, <3>1, Zenon
  <2>5. Spent(p)' = failures'[p] + Cardinality(InFlight(p)')
    BY DEF Spent
  <2>6. Spent(p) = failures[p] + Cardinality(InFlight(p)) /\ failures[p] \in Nat
    BY DEF Spent
  <2>7. QED
    BY <2>2, <2>3, <2>4, <2>5, <2>6
<1>4. ASSUME NEW c \in Caller, GetPath(c), Owner[c] # p \/ ~ (Attempt(c) \/ Record(c))
      PROVE  Spent(p)' <= Spent(p)
  <2>1. failures'[p] <= failures[p]
    BY <1>4 DEF GetPath, Call, Attempt, Abandon, ThreadLock, FileLock, FallbackLook,
         FallbackTouch, StopWaiting, Found, Missing, Corrupted, Deleted, Download, Stored,
         CheckRaises, DeleteRaises, FetchFails, Release, Record
  <2>2. \A e \in Caller \ {c} : pc'[e] = pc[e]
    BY <1>4 DEF GetPath, Call, Attempt, Abandon, ThreadLock, FileLock, FallbackLook,
         FallbackTouch, StopWaiting, Found, Missing, Corrupted, Deleted, Download, Stored,
         CheckRaises, DeleteRaises, FetchFails, Release, Record, Ends, BackToIdle
  <2>3. Owner[c] = p => pc'[c] \in {"idle", "budget"} \/ pc[c] \notin {"idle", "budget"}
    BY <1>4 DEF GetPath, Call, Abandon, ThreadLock, FileLock, FallbackLook,
         FallbackTouch, StopWaiting, Found, Missing, Corrupted, Deleted, Download, Stored,
         CheckRaises, DeleteRaises, FetchFails, Release, Ends, BackToIdle, Waits
  <2>4. QED
    BY <1>1, <2>1, <2>2, <2>3
<1>5. ASSUME NEW w \in Worker, Fork(w), p = w
      PROVE  Spent(p)' <= Spent(Main)
  <2>1. InFlight(p)' = {}
    BY <1>5 DEF Fork, DeadIsIdle
  <2>2. failures'[p] = failures[Main] /\ failures[Main] \in Nat
    BY <1>5 DEF Fork, Proc
  <2>3. Cardinality(InFlight(Main)) \in Nat
    BY FlightIsFinite DEF Proc
  <2> HIDE DEF InFlight
  <2>4. Spent(p)' = failures'[p] + Cardinality(InFlight(p)')
    BY DEF Spent
  <2>5. QED
    BY <2>1, <2>2, <2>3, <2>4, FS_EmptySet DEF Spent
<1>6. ASSUME NEW w \in Worker, (Fork(w) /\ p # w) \/ Finish(w) \/ Collect(w)
      PROVE  Spent(p)' <= Spent(p)
  BY <1>1, <1>6 DEF Fork, Finish, Collect, Forget, Proc
<1>7. ASSUME NEW q \in Proc, Kill(q) PROVE Spent(p)' <= Spent(p)
  BY <1>1, <1>7 DEF Kill, Forget
<1>8. CASE Restart \/ UNCHANGED vars
  BY <1>1, <1>8 DEF Restart, vars
<1>9. QED
  BY <1>2, <1>3, <1>4, <1>5, <1>6, <1>7, <1>8 DEF Next

(* However the checks of the budget and the failures of several threads    *)
(* interleave, and whatever a node was forked with, a process overruns the *)
(* budget by less than the threads of one process.                         *)
THEOREM BudgetIsBounded == Spec => []BudgetBound
<1>1. Init => BudgetInv
  <2> SUFFICES ASSUME Init, NEW p \in Proc
               PROVE  Spent(p) < MaxAttempts + Cardinality(Threads(p))
    BY DEF BudgetInv
  <2>1. InFlight(p) = {} /\ failures[p] = 0
    BY DEF Init, InFlight, Threads
  <2>2. QED
    BY <2>1, FlightIsFinite, FS_EmptySet DEF Spent
<1>2. IInv /\ IInv' /\ BudgetInv /\ [Next]_vars => BudgetInv'
  <2> SUFFICES ASSUME IInv, IInv', BudgetInv, [Next]_vars, NEW p \in Proc
               PROVE  \E q \in Proc : Spent(p)' < MaxAttempts + Cardinality(Threads(q))
    BY DEF BudgetInv, Threads
  <2>1. /\ Main \in Proc
        /\ \A q \in Proc : Spent(q) \in Nat /\ Cardinality(Threads(q)) \in Nat
    BY FlightIsFinite DEF Spent, IInv, TypeOK, Proc
  <2>2. Spent(p)' \in Nat
    <3>1. Cardinality(InFlight(p))' \in Nat
      BY FS_Subset, FS_CardinalityType DEF InFlight, Threads
    <3>2. QED
      BY <3>1 DEF Spent, IInv, TypeOK
  <2>3. QED
    BY <2>1, <2>2, SpentStep DEF IInv, BudgetInv
<1>3. BudgetInv /\ IInv => BudgetBound
  BY FlightIsFinite DEF BudgetInv, BudgetBound, Spent, IInv, TypeOK
<1>4. QED
  BY Invariant, <1>1, <1>2, <1>3, PTL DEF Spec

=============================================================================

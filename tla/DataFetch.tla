----------------------------- MODULE DataFetch ------------------------------
(***************************************************************************)
(* One remote data source fetched by the threads of several processes:     *)
(* Resolver.get_path() and RemoteResolver.resolve() (package/__init__.py), *)
(* with the PathCache (package/cache.py) that each process keeps, the      *)
(* check_cache() of the https and git resolvers, and the exchange of       *)
(* caches between a run and its nodes (scheduler/taskscheduler.py).        *)
(*                                                                         *)
(* Several names may stand for the source.  A name has a directory and a   *)
(* lock file of its own; all names share the cache entry and the thread    *)
(* lock, which are keyed by source and reference.  The cache directory can *)
(* be written.  Waiting time is not modelled: a wait may time out whenever *)
(* it lasts.                                                               *)
(***************************************************************************)
EXTENDS Integers, FiniteSets

CONSTANTS
  Main,         \* the process of the run
  Worker,       \* the processes it forks, one for every node
  Caller,       \* threads that ask for the source
  Owner,        \* the process of every thread
  Dir,          \* names of the source, and their directories
  Asks,         \* the names every thread uses
  MaxAttempts,  \* PathCache.max_attempts
  Setups,       \* the resolvers and file systems considered: values of setup
  NoDir,        \* no path
  NoOne,        \* the holder of a free lock
  Ghost         \* the holder of a lock copied by fork() while it was held

Proc == {Main} \cup Worker

Threads(p) == {c \in Caller : Owner[c] = p}

ASSUME Assumptions ==
  /\ Main \notin Worker
  /\ IsFiniteSet(Caller) /\ Caller # {}
  /\ Owner \in [Caller -> Proc]
  /\ Asks \in [Caller -> SUBSET Dir]
  /\ MaxAttempts \in Nat \ {0}
  /\ Setups \subseteq BOOLEAN \X BOOLEAN
  /\ NoDir \notin Dir
  /\ NoOne \notin Caller \cup Proc \cup {Ghost} /\ Ghost \notin Caller

VARIABLES
  git,        \* whether the resolver is the git one, else the https one
  fallback,   \* whether the file system refuses file locks
  alive,      \* running processes
  paths,      \* PathCache.__paths of every process
  failures,   \* PathCache.__failures
  permanent,  \* processes whose PathCache.__permanent has the source
  tlock,      \* holder of every process's thread lock
  flock,      \* process that holds the lock on a directory's .lock file
  sclock,     \* directories with an .sc_lock file
  disk,       \* the directories
  pc,         \* where every thread is
  at,         \* the name every thread asks for
  outcome,    \* how its attempt ended
  mail,       \* the path in the message of a worker that has ended
  torn        \* directories left incomplete, or taken for corrupted by a check,
              \* and not stored since (history)

setup   == <<git, fallback>>
memory  == <<paths, failures, permanent>>
locks   == <<tlock, flock, sclock>>
store   == <<disk, torn>>
thread  == <<pc, at, outcome>>
process == <<alive, mail>>
vars    == <<setup, memory, locks, store, thread, process>>

Waits    == {"thread", "file"}
Critical == {"check", "delete", "fetch", "write", "release"}
Places   == {"idle", "budget", "touch", "record"} \cup Waits \cup Critical

Init ==
  /\ \E s \in Setups : git = s[1] /\ fallback = s[2]
  /\ alive = {Main}
  /\ paths = [p \in Proc |-> NoDir]
  /\ failures = [p \in Proc |-> 0]
  /\ permanent = {}
  /\ tlock = [p \in Proc |-> NoOne]
  /\ flock = [d \in Dir |-> NoOne]
  /\ sclock = {}
  /\ disk = [d \in Dir |-> "absent"]
  /\ pc = [c \in Caller |-> "idle"]
  /\ at = [c \in Caller |-> NoDir]
  /\ outcome = [c \in Caller |-> "none"]
  /\ mail = [w \in Worker |-> NoDir]
  /\ torn = {}

Goto(c, place) == pc' = [pc EXCEPT ![c] = place]

Ends(c, place, how) ==
  /\ Goto(c, place)
  /\ outcome' = [outcome EXCEPT ![c] = how]
  /\ UNCHANGED at

BackToIdle(c) ==
  /\ Goto(c, "idle")
  /\ at' = [at EXCEPT ![c] = NoDir]
  /\ outcome' = [outcome EXCEPT ![c] = "none"]

-----------------------------------------------------------------------------
(***************************************************************************)
(* get_path() before the attempt.  A cached path is returned at once, and  *)
(* nothing changes.                                                        *)
(***************************************************************************)
Call(c, d) ==
  /\ Owner[c] \in alive
  /\ pc[c] = "idle"
  /\ paths[Owner[c]] = NoDir
  /\ Goto(c, "budget")
  /\ at' = [at EXCEPT ![c] = d]
  /\ UNCHANGED <<outcome, setup, memory, locks, store, process>>

\* Mutant: the source is given up on one failure too late.
ExhaustedLate(p) == p \in permanent \/ failures[p] > MaxAttempts

Exhausted(p) == p \in permanent \/ failures[p] >= MaxAttempts

\* Mutant: only a permanent failure ends the attempts.
AttemptUncounted(c) ==
  /\ pc[c] = "budget"
  /\ Owner[c] \notin permanent
  /\ Goto(c, "thread")
  /\ UNCHANGED <<at, outcome, setup, memory, locks, store, process>>

\* The delay before a retry is over: resolve() begins.
Attempt(c) ==
  /\ pc[c] = "budget"
  /\ ~ Exhausted(Owner[c])
  /\ Goto(c, "thread")
  /\ UNCHANGED <<at, outcome, setup, memory, locks, store, process>>

Abandon(c) ==
  /\ pc[c] = "budget"
  /\ Exhausted(Owner[c])
  /\ BackToIdle(c)
  /\ UNCHANGED <<setup, memory, locks, store, process>>

-----------------------------------------------------------------------------
(***************************************************************************)
(* lock(): the thread lock, then the lock file.  A record lock belongs to  *)
(* the process, so its own threads are not kept out by it.  Where the file *)
(* system refuses such locks, the existence of another file stands in.     *)
(***************************************************************************)
ThreadLock(c) ==
  /\ pc[c] = "thread"
  /\ tlock[Owner[c]] = NoOne
  /\ tlock' = [tlock EXCEPT ![Owner[c]] = c]
  /\ Goto(c, "file")
  /\ UNCHANGED <<at, outcome, flock, sclock, setup, memory, store, process>>

\* Mutant: the cache is not checked again once the lock is held.
FileLockNoCheck(c) ==
  /\ pc[c] = "file"
  /\ ~ fallback
  /\ flock[at[c]] \in {NoOne, Owner[c]}
  /\ flock' = [flock EXCEPT ![at[c]] = Owner[c]]
  /\ Goto(c, "fetch")
  /\ UNCHANGED <<at, outcome, tlock, sclock, setup, memory, store, process>>

FileLock(c) ==
  /\ pc[c] = "file"
  /\ ~ fallback
  /\ flock[at[c]] \in {NoOne, Owner[c]}
  /\ flock' = [flock EXCEPT ![at[c]] = Owner[c]]
  /\ Goto(c, "check")
  /\ UNCHANGED <<at, outcome, tlock, sclock, setup, memory, store, process>>

\* exists() and touch() are two steps.
FallbackLook(c) ==
  /\ pc[c] = "file"
  /\ fallback
  /\ at[c] \notin sclock
  /\ Goto(c, "touch")
  /\ UNCHANGED <<at, outcome, locks, setup, memory, store, process>>

FallbackTouch(c) ==
  /\ pc[c] = "touch"
  /\ sclock' = sclock \cup {at[c]}
  /\ Goto(c, "check")
  /\ UNCHANGED <<at, outcome, tlock, flock, setup, memory, store, process>>

\* Mutant: a waiter that times out releases the lock it sees locked.
StopWaitingFreesLock(c, how) ==
  /\ pc[c] \in Waits
  /\ tlock' = [tlock EXCEPT ![Owner[c]] = NoOne]
  /\ Ends(c, "record", how)
  /\ UNCHANGED <<flock, sclock, setup, memory, store, process>>

\* Mutant: the thread lock is kept when the file lock is not had in time.
StopWaitingKeepsLock(c, how) ==
  /\ pc[c] \in Waits
  /\ Ends(c, "record", how)
  /\ UNCHANGED <<locks, setup, memory, store, process>>

\* A lock is not had in time, or the wait is interrupted.
StopWaiting(c, how) ==
  /\ pc[c] \in Waits
  /\ tlock' = IF pc[c] = "file" THEN [tlock EXCEPT ![Owner[c]] = NoOne] ELSE tlock
  /\ Ends(c, "record", how)
  /\ UNCHANGED <<flock, sclock, setup, memory, store, process>>

-----------------------------------------------------------------------------
(***************************************************************************)
(* resolve() inside the locks.  The https resolver takes any directory for *)
(* a valid one.  The git resolver opens it and runs git commands: if one   *)
(* fails, which says little of the clone, it is deleted and fetched again, *)
(* whoever else was served it; any other exception leaves it there.        *)
(***************************************************************************)
Found(c) ==
  /\ pc[c] = "check"
  /\ disk[at[c]] # "absent"
  /\ Ends(c, "release", "ok")
  /\ UNCHANGED <<locks, setup, memory, store, process>>

\* No repository, no permission, an interrupt.
CheckRaises(c, how) ==
  /\ pc[c] = "check"
  /\ how = "transient" => git /\ disk[at[c]] # "absent"
  /\ Ends(c, "release", how)
  /\ UNCHANGED <<locks, setup, memory, store, process>>

Missing(c) ==
  /\ pc[c] = "check"
  /\ disk[at[c]] = "absent"
  /\ Goto(c, "fetch")
  /\ UNCHANGED <<at, outcome, locks, setup, memory, store, process>>

Corrupted(c) ==
  /\ pc[c] = "check"
  /\ git /\ disk[at[c]] # "absent"
  /\ disk' = [disk EXCEPT ![at[c]] = "partial"]
  /\ torn' = torn \cup {at[c]}
  /\ Goto(c, "delete")
  /\ UNCHANGED <<at, outcome, locks, setup, memory, process>>

Deleted(c) ==
  /\ pc[c] = "delete"
  /\ disk' = [disk EXCEPT ![at[c]] = "absent"]
  /\ Goto(c, "fetch")
  /\ UNCHANGED <<at, outcome, torn, locks, setup, memory, process>>

DeleteRaises(c, how) ==
  /\ pc[c] = "delete"
  /\ Ends(c, "release", how)
  /\ UNCHANGED <<locks, setup, memory, store, process>>

\* resolve_remote() creates the directory, and goes on to fill it.
Download(c) ==
  /\ pc[c] = "fetch"
  /\ disk' = [disk EXCEPT ![at[c]] = "partial"]
  /\ Goto(c, "write")
  /\ UNCHANGED <<at, outcome, torn, locks, setup, memory, process>>

Stored(c) ==
  /\ pc[c] = "write"
  /\ disk' = [disk EXCEPT ![at[c]] = "complete"]
  /\ torn' = torn \ {at[c]}
  /\ Ends(c, "release", "ok")
  /\ UNCHANGED <<locks, setup, memory, process>>

\* Mutant: only an Exception is cleaned up after, not an interrupt.
FetchFailsUncleaned(c, how, cleaned) ==
  /\ pc[c] \in {"fetch", "write"}
  /\ disk' = IF how # "interrupt" THEN [disk EXCEPT ![at[c]] = "absent"] ELSE disk
  /\ Ends(c, "release", how)
  /\ UNCHANGED <<torn, locks, setup, memory, process>>

\* Whatever is raised, the directory is removed, unless that fails too.
FetchFails(c, how, cleaned) ==
  /\ pc[c] \in {"fetch", "write"}
  /\ cleaned \/ disk[at[c]] # "absent"
  /\ disk' = IF cleaned THEN [disk EXCEPT ![at[c]] = "absent"] ELSE disk
  /\ torn' = IF cleaned THEN torn ELSE torn \cup {at[c]}
  /\ Ends(c, "release", how)
  /\ UNCHANGED <<locks, setup, memory, process>>

\* The lock file, then the thread lock: nothing can come between for the
\* threads of the process, and others only need the lock file.
Release(c) ==
  /\ pc[c] = "release"
  /\ flock' = IF fallback THEN flock ELSE [flock EXCEPT ![at[c]] = NoOne]
  /\ sclock' = IF fallback THEN sclock \ {at[c]} ELSE sclock
  /\ tlock' = [tlock EXCEPT ![Owner[c]] = NoOne]
  /\ Goto(c, "record")
  /\ UNCHANGED <<at, outcome, setup, memory, store, process>>

-----------------------------------------------------------------------------
(***************************************************************************)
(* get_path() after the attempt.  An interrupt is not recorded.            *)
(***************************************************************************)
Result(c) ==
  IF outcome[c] = "ok" /\ disk[at[c]] = "absent" THEN "transient" ELSE outcome[c]

Record(c) ==
  /\ pc[c] = "record"
  /\ LET p == Owner[c]
     IN  /\ paths' = IF Result(c) = "ok" THEN [paths EXCEPT ![p] = at[c]] ELSE paths
         /\ failures' = [failures EXCEPT ![p] =
              CASE Result(c) = "ok" -> 0 [] Result(c) = "interrupt" -> @ [] OTHER -> @ + 1]
         /\ permanent' = CASE Result(c) = "ok" -> permanent \ {p}
                           [] Result(c) = "permanent" -> permanent \cup {p}
                           [] OTHER -> permanent
  /\ BackToIdle(c)
  /\ UNCHANGED <<locks, store, setup, process>>

-----------------------------------------------------------------------------
(***************************************************************************)
(* Processes.  fork() copies the cache, and a thread lock as it is.        *)
(***************************************************************************)
Forget(p) ==
  /\ failures' = [failures EXCEPT ![p] = 0]
  /\ permanent' = permanent \ {p}
  /\ tlock' = [tlock EXCEPT ![p] = NoOne]

Fork(w) ==
  /\ Main \in alive
  /\ w \notin alive /\ mail[w] = NoDir
  /\ alive' = alive \cup {w}
  /\ paths' = [paths EXCEPT ![w] = paths[Main]]
  /\ failures' = [failures EXCEPT ![w] = failures[Main]]
  /\ permanent' = IF Main \in permanent THEN permanent \cup {w} ELSE permanent \ {w}
  /\ tlock' = [tlock EXCEPT ![w] = IF tlock[Main] = NoOne THEN NoOne ELSE Ghost]
  /\ UNCHANGED <<mail, flock, sclock, setup, store, thread>>

\* The node sends the paths it knows and exits.
Finish(w) ==
  /\ w \in alive
  /\ \A c \in Threads(w) : pc[c] = "idle"
  /\ alive' = alive \ {w}
  /\ mail' = IF Main \in alive THEN [mail EXCEPT ![w] = paths[w]] ELSE mail
  /\ paths' = [paths EXCEPT ![w] = NoDir]
  /\ Forget(w)
  /\ UNCHANGED <<flock, sclock, setup, store, thread>>

\* The run merges the paths of a node that has ended, and not its failures.
Collect(w) ==
  /\ mail[w] # NoDir
  /\ paths' = [paths EXCEPT ![Main] = mail[w]]
  /\ mail' = [mail EXCEPT ![w] = NoDir]
  /\ UNCHANGED <<alive, failures, permanent, locks, setup, store, thread>>

\* A process is killed anywhere.  The system frees its record locks.
Kill(p) ==
  /\ p \in alive
  /\ alive' = alive \ {p}
  /\ mail' = IF p = Main THEN [w \in Worker |-> NoDir] ELSE mail
  /\ paths' = [paths EXCEPT ![p] = NoDir]
  /\ Forget(p)
  /\ flock' = [d \in Dir |-> IF flock[d] = p THEN NoOne ELSE flock[d]]
  /\ torn' = torn \cup {at[c] : c \in {e \in Threads(p) : pc[e] = "write"}}
  /\ pc' = [c \in Caller |-> IF Owner[c] = p THEN "idle" ELSE pc[c]]
  /\ at' = [c \in Caller |-> IF Owner[c] = p THEN NoDir ELSE at[c]]
  /\ outcome' = [c \in Caller |-> IF Owner[c] = p THEN "none" ELSE outcome[c]]
  /\ UNCHANGED <<sclock, disk, setup>>

\* The user starts again.
Restart ==
  /\ Main \notin alive
  /\ alive' = alive \cup {Main}
  /\ UNCHANGED <<mail, setup, memory, locks, store, thread>>

-----------------------------------------------------------------------------
GetPath(c) ==
  \/ \E d \in Asks[c] : Call(c, d)
  \/ Attempt(c) \/ Abandon(c)
  \/ ThreadLock(c) \/ FileLock(c) \/ FallbackLook(c) \/ FallbackTouch(c)
  \/ \E how \in {"transient", "interrupt"} : StopWaiting(c, how)
  \/ Found(c) \/ Missing(c) \/ Corrupted(c) \/ Deleted(c) \/ Download(c) \/ Stored(c)
  \/ \E how \in {"transient", "interrupt"} : CheckRaises(c, how) \/ DeleteRaises(c, how)
  \/ \E how \in {"transient", "permanent", "interrupt"}, cleaned \in BOOLEAN :
       FetchFails(c, how, cleaned)
  \/ Release(c) \/ Record(c)

Next ==
  \/ \E c \in Caller : GetPath(c)
  \/ \E w \in Worker : Fork(w) \/ Finish(w) \/ Collect(w)
  \/ \E p \in Proc : Kill(p)
  \/ Restart

Spec == Init /\ [][Next]_vars

-----------------------------------------------------------------------------
(* Types of the variables.  A source marked permanent has a failure to     *)
(* report, and what is not in use is blank.                                *)
TypeOK ==
  /\ git \in BOOLEAN /\ fallback \in BOOLEAN
  /\ alive \in SUBSET Proc
  /\ paths \in [Proc -> Dir \cup {NoDir}]
  /\ failures \in [Proc -> Nat]
  /\ permanent \in SUBSET {p \in Proc : failures[p] > 0}
  /\ tlock \in [Proc -> Caller \cup {NoOne, Ghost}]
  /\ flock \in [Dir -> Proc \cup {NoOne}]
  /\ sclock \in SUBSET Dir
  /\ disk \in [Dir -> {"absent", "partial", "complete"}]
  /\ pc \in [Caller -> Places]
  /\ at \in [Caller -> Dir \cup {NoDir}]
  /\ outcome \in [Caller -> {"none", "ok", "transient", "permanent", "interrupt"}]
  /\ mail \in [Worker -> Dir \cup {NoDir}]
  /\ torn \in SUBSET Dir
  /\ \A c \in Caller : pc[c] = "idle" <=> at[c] = NoDir

(* While one thread checks, fetches or removes a directory, no other thread *)
(* of any process does, unless file locks do not work and the other is in   *)
(* another process.                                                        *)
OneFetchPerDirectory ==
  \A c, e \in Caller :
    /\ c # e
    /\ pc[c] \in Critical /\ pc[e] \in Critical
    /\ at[c] = at[e]
    => fallback /\ Owner[c] # Owner[e]

(* A path that get_path() returns, or that a node reports, holds all of the *)
(* source, unless a fetch into it was killed or could not be cleaned up,   *)
(* or a git check has since taken it for corrupted and not replaced it yet. *)
ServedIsComplete ==
  ~ fallback =>
    /\ \A p \in Proc : paths[p] \notin torn \cup {NoDir} => disk[paths[p]] = "complete"
    /\ \A w \in Worker : mail[w] \notin torn \cup {NoDir} => disk[mail[w]] = "complete"

\* c begins to delete what its check took for corrupted.
Condemns(c) == git /\ pc[c] = "check" /\ pc'[c] = "delete"

(* Where file locks work, what was fetched over https is kept, whatever    *)
(* other threads and processes fetch, fail or are killed at; a clone is    *)
(* taken away by nothing but the check of a thread to which a git command  *)
(* failed on it, and then no other thread is at work in that directory.    *)
CompleteIsKept ==
  [][\A d \in Dir : ~ fallback /\ disk[d] = "complete" /\ disk'[d] # "complete" =>
       \E c \in Caller : /\ at[c] = d /\ Condemns(c)
                        /\ \A e \in Caller \ {c} : at[e] = d => pc[e] \notin Critical]_vars

\* Threads of p that have passed the check of the budget.
InFlight(p) == {c \in Threads(p) : pc[c] \notin {"idle", "budget"}}

(* The budget is checked before a thread waits for its turn, so it may be  *)
(* overrun, but never by more than the threads that wait.                  *)
BudgetBound ==
  \A p \in Proc : \E q \in Proc : failures[p] < MaxAttempts + Cardinality(Threads(q))

(* Once a process has given up on the source and its last attempt is over, *)
(* it makes no other attempt.                                              *)
GivenUpIsFinal ==
  [][\A p \in alive \cap alive' :
       Exhausted(p) /\ InFlight(p) = {} => Exhausted(p)' /\ InFlight(p)' = {}]_vars

(* A lock that is held is held by a thread that will release it, except    *)
(* for a thread lock that a process was forked with.                       *)
LocksHaveHolders ==
  /\ \A p \in Proc : tlock[p] \in Caller =>
       Owner[tlock[p]] = p /\ pc[tlock[p]] \in {"file", "touch"} \cup Critical
  /\ \A d \in Dir : flock[d] # NoOne =>
       \E c \in Threads(flock[d]) : pc[c] \in Critical /\ at[c] = d
=============================================================================

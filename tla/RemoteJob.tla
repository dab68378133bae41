----------------------------- MODULE RemoteJob ------------------------------
(***************************************************************************)
(* One job on a server: remote/server.py with the thread that runs the job *)
(* and its tables, the requests that are answered while it runs, and the   *)
(* client that waits for its results: remote/client.py with the pool that  *)
(* downloads them.                                                         *)
(*                                                                         *)
(* Archive 0 is the one the job writes before its first node, with what    *)
(* setup has found ("None" in the code); archive n holds the results of    *)
(* node n.                                                                 *)
(***************************************************************************)
EXTENDS NodeOutcome, Naturals

CONSTANTS
  N,            \* number of nodes of the flow
  Jobs,         \* the jobs of the behaviours (see JobType)
  MaxTimeouts   \* __max_timeouts: how often a request is sent again

Node    == 1 .. N
Archive == 0 .. N

\* A user cancels or deletes the job or interrupts the client, the server is
\* stopped, the job fails, a node's process is killed by the system, a request
\* times out, a download fails.
Event == {"cancel", "delete", "interrupt", "stop", "fail", "crash", "timeout", "lost"}

\* The inputs of every node and the nodes that setup skips, where nodes run
\* (option cluster of the server), the nodes that a client may ask for when it
\* reconnects, and what may come from outside.
JobType == [inputs  : [Node -> SUBSET Node],
            skips   : SUBSET Node,
            cluster : {"local", "slurm"},
            rejoin  : SUBSET (SUBSET Node),
            events  : SUBSET Event]

ASSUME Assumptions == N \in Nat /\ MaxTimeouts \in Nat /\ Jobs \subseteq JobType

VARIABLES
  job,        \* the job, which never changes
  server,     \* "up", or how far __shutdown() is
  thread,     \* where the thread of the job is
  entry,      \* what the tables hold of the job (sc_jobs[job_name])
  reported,   \* the status of every archive in that entry
  canceled,   \* the job is in sc_canceled_jobs
  cancel,     \* where the request to cancel is
  doomed,     \* nodes __cancel_job() has listed for scancel
  stored,     \* the directory of the job exists
  record,     \* the record of the project on the server
  alive,      \* nodes whose process runs
  running,    \* nodes that were started and are not settled (info["running"])
  failed,     \* nodes whose process ended with another exit code than 0
  left,       \* the manifest a node left behind
  tar,        \* the archives in the directory of the job
  upload,     \* the request to run the job
  client,     \* where the client is
  view,       \* nodes the client asks for (__node_information)
  answer,     \* the status on its way to the client, "none" if there is none
  message,    \* and the nodes it lists
  timeouts,   \* of the request the client is waiting for
  release,    \* the status that ended the polling
  crecord,    \* the record of the project at the client
  fetched,    \* archives whose download was scheduled
  imported,   \* archives whose manifest was replayed
  fetch,      \* the downloads
  local       \* the results in the build directory of the client

tableVars  == <<entry, reported, canceled>>
runVars    == <<record, alive, running, failed, left, tar>>
jobVars    == <<thread, tableVars, stored, runVars>>
cancelVars == <<cancel, doomed>>
askVars    == <<answer, message, timeouts, release>>
importVars == <<crecord, imported>>
fetchVars  == <<fetched, fetch, local>>
clientVars == <<upload, client, view, askVars, importVars, fetchVars>>
vars       == <<job, server, jobVars, cancelVars, clientVars>>

JobStatus == {"running", "canceled", "completed"}

Listing    == [Archive -> Status]
Blank      == [a \in Archive |-> PENDING]
NoArchive  == [a \in Archive |-> "absent"]
NotFetched == [a \in Archive |-> "no"]

\* What is answered of a job whose nodes are not listed.
NoMessage == <<>>

Init ==
  /\ job \in Jobs
  /\ server = "up"
  /\ thread = "none" /\ stored = FALSE
  /\ entry = "absent" /\ reported = Blank /\ canceled = FALSE
  /\ cancel = "no" /\ doomed = {}
  /\ record = [n \in Node |-> PENDING]
  /\ alive = {} /\ running = {} /\ failed = {}
  /\ left = [n \in Node |-> "absent"]
  /\ tar = NoArchive
  /\ upload = "no" /\ client = "idle" /\ view = Node
  /\ answer = "none" /\ message = NoMessage /\ timeouts = 0 /\ release = "no"
  /\ crecord = [n \in Node |-> PENDING] /\ imported = {}
  /\ fetched = {} /\ fetch = NotFetched /\ local = NoArchive

-----------------------------------------------------------------------------
(***************************************************************************)
(* The thread of the job: remote_sc() and __run_job().                     *)
(***************************************************************************)

\* Mutant: the entry of the job is left in the table.
DropEntryNever == UNCHANGED tableVars

\* The finally clause of remote_sc().
DropEntry == entry' = "absent" /\ reported' = Blank /\ canceled' = FALSE

\* Listing the nodes replaces the entry that the request has made.
ListNodes ==
  /\ thread = "claimed"
  /\ thread' = "listed"
  /\ entry' = "nodes" /\ reported' = Blank
  /\ UNCHANGED <<job, server, canceled, stored, runVars, cancelVars, clientVars>>

\* Project.run() up to the pre_run callback: setup may skip nodes.
SetUp ==
  /\ thread = "listed"
  /\ thread' = "archiving"
  /\ record' = [n \in Node |-> IF n \in job.skips THEN SKIPPED ELSE PENDING]
  /\ tar' = [tar EXCEPT ![0] = "partial"]
  /\ UNCHANGED <<job, server, tableVars, stored, alive, running, failed, left, cancelVars,
                 clientVars>>

\* The status of every archive as the record has it.
StatusOf(rec) == [a \in Archive |-> IF a = 0 THEN SUCCESS ELSE rec[a]]

RunStart ==
  /\ thread = "archiving"
  /\ thread' = "running"
  /\ tar' = [tar EXCEPT ![0] = "whole"]
  /\ reported' = StatusOf(record)
  /\ UNCHANGED <<job, server, entry, canceled, stored, record, alive, running, failed, left,
                 cancelVars, clientVars>>

\* The run loop calls back from one thread: nothing else starts or ends while
\* it writes an archive.
Idle == thread = "running" /\ \A a \in Archive : tar[a] # "partial"

CanStart(n) == record[n] = PENDING /\ \A i \in job.inputs[n] : IsSuccess(record[i])

NodeStart(n) ==
  /\ Idle /\ CanStart(n)
  /\ record' = [record EXCEPT ![n] = RUNNING]
  /\ reported' = [reported EXCEPT ![n] = RUNNING]
  /\ alive' = alive \cup {n} /\ running' = running \cup {n}
  /\ UNCHANGED <<job, server, thread, entry, canceled, stored, failed, left, tar,
                 cancelVars, clientVars>>

\* The process of a node ends by itself; on slurm perhaps before its manifest
\* can be seen.
Exit(n) ==
  /\ n \in alive
  /\ alive' = alive \ {n}
  /\ \/ /\ \E s \in LeftBySuccess \cup (IF job.cluster = "slurm" THEN LeftByDelay ELSE {}) :
             left' = [left EXCEPT ![n] = s]
        /\ UNCHANGED failed
     \/ /\ \E s \in LeftByFailure : left' = [left EXCEPT ![n] = s]
        /\ failed' = failed \cup {n}
  /\ UNCHANGED <<job, server, thread, tableVars, stored, record, running, tar,
                 cancelVars, clientVars>>

\* Processes of S are killed, whatever they have written of their manifest.
Kill(S) ==
  /\ alive' = alive \ S
  /\ failed' = failed \cup (S \cap alive)
  /\ \E found \in [S \cap alive -> LeftByKill] :
       left' = [n \in Node |-> IF n \in S \cap alive THEN found[n] ELSE left[n]]
  /\ UNCHANGED running

Crash(n) ==
  /\ "crash" \in job.events
  /\ n \in alive
  /\ Kill({n})
  /\ UNCHANGED <<job, server, thread, tableVars, stored, record, tar, cancelVars,
                 clientVars>>

\* The manifest of a slurm node that was not waited for, while it may still get
\* into an archive.
Arrive(n) ==
  /\ job.cluster = "slurm" /\ stored
  /\ n \in Node \ (alive \cup failed)
  /\ record[n] = RUNNING /\ left[n] = "absent" /\ tar[n] # "whole"
  /\ \E s \in LeftBySuccess : left' = [left EXCEPT ![n] = s]
  /\ UNCHANGED <<job, server, thread, tableVars, stored, record, alive, running, failed,
                 tar, cancelVars, clientVars>>

\* The status of a node when its manifest, if it is there, has been replayed and
\* its exit code looked at.
Verdict(n) == IF n \in failed THEN ERROR
              ELSE IF left[n] = "absent" THEN RUNNING ELSE left[n]

Ended(n) == n \in running /\ n \notin alive

\* Mutant: a node is reported when its archive is begun.
NodeEndReportsFirst(n) ==
  /\ Idle
  /\ Ended(n) /\ left[n] # "torn"
  /\ record' = [record EXCEPT ![n] = Verdict(n)]
  /\ reported' = [reported EXCEPT ![n] = Verdict(n)]
  /\ running' = running \ {n}
  /\ tar' = [tar EXCEPT ![n] = "partial"]
  /\ UNCHANGED <<job, server, thread, entry, canceled, stored, alive, failed, left,
                 cancelVars, clientVars>>

\* The run loop settles a node, and the post_node callback begins its archive.
NodeEnd(n) ==
  /\ Idle
  /\ Ended(n) /\ left[n] # "torn"
  /\ record' = [record EXCEPT ![n] = Verdict(n)]
  /\ running' = running \ {n}
  /\ tar' = [tar EXCEPT ![n] = "partial"]
  /\ UNCHANGED <<job, server, thread, tableVars, stored, alive, failed, left,
                 cancelVars, clientVars>>

NodeArchived(n) ==
  /\ thread = "running" /\ tar[n] = "partial"
  /\ tar' = [tar EXCEPT ![n] = "whole"]
  /\ reported' = [reported EXCEPT ![n] = record[n]]
  /\ UNCHANGED <<job, server, thread, entry, canceled, stored, record, alive, running,
                 failed, left, cancelVars, clientVars>>

\* A manifest cannot be read: the run raises, and ends its other nodes.
ReplayRaises(n) ==
  /\ Idle
  /\ Ended(n) /\ left[n] = "torn"
  /\ thread' = "over"
  /\ DropEntry
  /\ Kill(alive)
  /\ UNCHANGED <<job, server, stored, record, tar, cancelVars, clientVars>>

\* A callback raises, the disk is full say: the run ends its nodes, and leaves
\* what it has written of the archive.
CallbackRaises ==
  /\ "fail" \in job.events
  /\ thread \in {"archiving", "running"}
  /\ \E a \in Archive : tar[a] = "partial"
  /\ thread' = "over"
  /\ DropEntry
  /\ Kill(alive)
  /\ UNCHANGED <<job, server, stored, record, tar, cancelVars, clientVars>>

\* The flow has settled, or cannot go on.
JobEnds ==
  /\ Idle
  /\ running = {}
  /\ \A n \in Node : ~ CanStart(n)
  /\ thread' = "over"
  /\ DropEntry
  /\ UNCHANGED <<job, server, stored, runVars, cancelVars, clientVars>>

\* Anything before the run raises.
JobFails ==
  /\ "fail" \in job.events
  /\ thread \in {"claimed", "listed"}
  /\ thread' = "over"
  /\ DropEntry
  /\ UNCHANGED <<job, server, stored, runVars, cancelVars, clientVars>>

Job == \/ ListNodes \/ SetUp \/ RunStart \/ JobEnds
       \/ \E n \in Node : NodeStart(n) \/ Exit(n) \/ NodeEnd(n) \/ NodeArchived(n)
                         \/ ReplayRaises(n)

-----------------------------------------------------------------------------
(***************************************************************************)
(* The requests.                                                           *)
(***************************************************************************)

\* Mutant: the job is not claimed before its thread runs.
RemoteRunUnclaimed ==
  /\ server = "up" /\ upload = "sent"
  /\ upload' = "accepted"
  /\ thread' = "claimed" /\ stored' = TRUE
  /\ UNCHANGED <<job, server, tableVars, runVars, cancelVars, client, view, askVars,
                 importVars, fetchVars>>

\* handle_remote_run(): the job is claimed, and its thread started.
RemoteRun ==
  /\ server = "up" /\ upload = "sent"
  /\ upload' = "accepted"
  /\ thread' = "claimed" /\ stored' = TRUE
  /\ entry' = "empty" /\ reported' = Blank
  /\ UNCHANGED <<job, server, canceled, runVars, cancelVars, client, view, askVars,
                 importVars, fetchVars>>

\* Mutant: a job that has not listed its nodes runs.
JobStateListedFirst ==
  IF entry = "absent" THEN "completed"
  ELSE IF canceled /\ entry = "nodes" THEN "canceled" ELSE "running"

JobState == IF entry = "absent" THEN "completed"
            ELSE IF canceled THEN "canceled" ELSE "running"

CheckProgress ==
  /\ server = "up" /\ client = "asking" /\ answer = "none"
  /\ answer' = JobState
  /\ message' = IF entry = "nodes" THEN reported ELSE NoMessage
  /\ UNCHANGED <<job, server, jobVars, cancelVars, upload, client, view, timeouts,
                 release, importVars, fetchVars>>

\* handle_cancel_job(), from sc-remote on any terminal: the job is looked up,
CancelRequest ==
  /\ "cancel" \in job.events
  /\ server = "up" /\ upload = "accepted" /\ cancel = "no"
  /\ cancel' = IF entry = "absent" THEN "refused" ELSE "found"
  /\ UNCHANGED <<job, server, jobVars, doomed, clientVars>>

\* The nodes that scancel is called for.
Cancelable ==
  IF job.cluster = "slurm" /\ entry = "nodes" THEN {n \in Node : ~ IsDone(reported[n])} ELSE {}

\* Mutant: the job is not looked up again.
CancelJobUnchecked ==
  /\ cancel = "found"
  /\ cancel' = "marked"
  /\ canceled' = TRUE /\ doomed' = Cancelable
  /\ UNCHANGED <<job, server, thread, entry, reported, stored, runVars, clientVars>>

\* and again, marked and its nodes listed on another thread (__cancel_job()),
CancelJob ==
  /\ cancel = "found"
  /\ cancel' = "marked"
  /\ IF entry = "absent" THEN UNCHANGED <<canceled, doomed>>
     ELSE canceled' = TRUE /\ doomed' = Cancelable
  /\ UNCHANGED <<job, server, thread, entry, reported, stored, runVars, clientVars>>

\* the jobs of the nodes are ended one by one, unless scancel does not return,
Scancel(n) ==
  /\ cancel = "marked" /\ n \in doomed
  /\ doomed' = doomed \ {n}
  /\ Kill({n}) \/ UNCHANGED <<alive, running, failed, left>>
  /\ UNCHANGED <<job, server, thread, tableVars, stored, record, tar, cancel,
                 clientVars>>

\* and the request is answered.
CancelAnswer ==
  /\ cancel = "marked" /\ doomed = {}
  /\ cancel' = "answered"
  /\ UNCHANGED <<job, server, jobVars, doomed, clientVars>>

\* handle_delete_job(), likewise; a job that runs is not deleted.
DeleteJob ==
  /\ "delete" \in job.events
  /\ server = "up" /\ upload = "accepted" /\ stored
  /\ entry = "absent"
  /\ stored' = FALSE /\ tar' = NoArchive
  /\ UNCHANGED <<job, server, thread, tableVars, record, alive, running, failed, left,
                 cancelVars, clientVars>>

(***************************************************************************)
(* __shutdown(): nothing is answered any more; the job is canceled, the    *)
(* node processes that run are ended, and the thread is waited for, but    *)
(* not for long.                                                           *)
(***************************************************************************)
Stop ==
  /\ "stop" \in job.events
  /\ server = "up"
  /\ server' = IF entry = "absent" THEN "down" ELSE "stopping"
  /\ UNCHANGED <<job, jobVars, cancelVars, clientVars>>

StopCancels ==
  /\ server = "stopping"
  /\ server' = "halting"
  /\ IF entry = "absent" THEN UNCHANGED <<canceled, alive, running, failed, left>>
     ELSE /\ canceled' = TRUE
          /\ \E ended \in SUBSET Cancelable : Kill(ended)
  /\ UNCHANGED <<job, thread, entry, reported, stored, record, tar, cancelVars,
                 clientVars>>

StopHalts ==
  /\ server = "halting"
  /\ server' = "down"
  /\ Kill(alive)
  /\ UNCHANGED <<job, thread, tableVars, stored, record, tar, cancelVars, clientVars>>

-----------------------------------------------------------------------------
(***************************************************************************)
(* The client: run() and _run_loop().                                      *)
(***************************************************************************)
Post ==
  /\ client = "idle"
  /\ client' = "posting" /\ upload' = "sent"
  /\ UNCHANGED <<job, server, jobVars, cancelVars, view, askVars, importVars, fetchVars>>

Posted ==
  /\ client = "posting" /\ upload = "accepted"
  /\ client' = "loop"
  /\ UNCHANGED <<job, server, jobVars, cancelVars, upload, view, askVars, importVars,
                 fetchVars>>

\* The request times out and is sent again with an upload that has been read
\* to its end, which the server refuses; or the server cannot be reached.
PostFails ==
  /\ client = "posting" /\ ("timeout" \in job.events \/ server # "up")
  /\ client' = "raised"
  /\ UNCHANGED <<job, server, jobVars, cancelVars, upload, view, askVars, importVars,
                 fetchVars>>

\* What the first archive says of the nodes: the ones that setup has skipped.
SetupRecord == [n \in Node |-> IF n \in job.skips THEN SKIPPED ELSE PENDING]

HasManifest(n) == left[n] \notin {"absent", "torn"}

(***************************************************************************)
(* __import_run_manifests(): nothing before the manifest of the setup;     *)
(* then the manifests that can be read, of an archive that is being copied *)
(* perhaps, and the nodes without one that are known to have been skipped. *)
(***************************************************************************)
Import ==
  \E ready \in SUBSET {a \in fetched : local[a] = "partial"} :
  \E torn \in SUBSET {a \in fetched : local[a] = "partial"} :
    LET there  == ready \cup {a \in fetched : local[a] = "whole"}
        before == IF 0 \in imported THEN crecord ELSE SetupRecord
        due    == view \ imported
        replay == {n \in due \cap there : HasManifest(n)}
        none   == {n \in due \ (torn \cup replay) : before[n] = SKIPPED}
    IN  IF 0 \notin imported \cup there THEN UNCHANGED importVars
        ELSE /\ imported' = imported \cup {0} \cup replay \cup none
             /\ crecord' = [n \in Node |-> IF n \in replay THEN left[n] ELSE before[n]]

\* Between two requests, while something fetched is not imported.
ImportPass ==
  /\ client = "loop"
  /\ (view \cap fetched) \ imported # {}
  /\ Import
  /\ UNCHANGED <<job, server, jobVars, cancelVars, upload, client, view, askVars,
                 fetchVars>>

Poll ==
  /\ client = "loop"
  /\ client' = "asking" /\ answer' = "none" /\ message' = NoMessage /\ timeouts' = 0
  /\ UNCHANGED <<job, server, jobVars, cancelVars, upload, view, release, importVars,
                 fetchVars>>

\* The request times out; it is sent again, but not for ever.
PollTimesOut ==
  /\ "timeout" \in job.events
  /\ client = "asking"
  /\ answer' = "none" /\ message' = NoMessage
  /\ IF timeouts < MaxTimeouts THEN timeouts' = timeouts + 1 /\ UNCHANGED client
     ELSE client' = "raised" /\ UNCHANGED timeouts
  /\ UNCHANGED <<job, server, jobVars, cancelVars, upload, view, release, importVars,
                 fetchVars>>

ServerGone ==
  /\ client = "asking" /\ answer = "none" /\ server # "up"
  /\ client' = "raised"
  /\ UNCHANGED <<job, server, jobVars, cancelVars, upload, view, askVars, importVars,
                 fetchVars>>

Schedule(S) ==
  /\ fetched' = fetched \cup S
  /\ fetch' = [a \in Archive |-> IF a \in S \ fetched THEN "queued" ELSE fetch[a]]
  /\ UNCHANGED local

\* The job runs: its statuses are recorded, and what has settled is fetched.
Report ==
  /\ client = "asking" /\ answer = "running"
  /\ message # NoMessage => Node \subseteq view
  /\ client' = "loop" /\ answer' = "none" /\ message' = NoMessage
  /\ crecord' = IF message = NoMessage THEN crecord ELSE [n \in Node |-> message[n]]
  /\ Schedule({a \in DOMAIN message : IsDone(message[a])})
  /\ UNCHANGED <<job, server, jobVars, cancelVars, upload, view, timeouts, release,
                 imported>>

\* A node that the client has not asked for has no place in its tables.
ReportUnknown ==
  /\ client = "asking" /\ answer = "running"
  /\ message # NoMessage /\ ~ Node \subseteq view
  /\ client' = "crashed"
  /\ UNCHANGED <<job, server, jobVars, cancelVars, upload, view, askVars, importVars,
                 fetchVars>>

\* The job is over, or canceled: everything else is fetched.
Released ==
  /\ client = "asking" /\ answer \in {"completed", "canceled"}
  /\ client' = "joining" /\ release' = answer /\ answer' = "none" /\ message' = NoMessage
  /\ Schedule(view \cup {0})
  /\ UNCHANGED <<job, server, jobVars, cancelVars, upload, view, timeouts, importVars>>

Waiting  == client \in {"loop", "asking"}
Fetching == \E a \in Archive : fetch[a] \in {"queued", "copying"}

\* _finalize_loop()
Finish ==
  /\ client = "joining" /\ ~ Fetching
  /\ client' = "done"
  /\ Import
  /\ UNCHANGED <<job, server, jobVars, cancelVars, upload, view, askVars, fetchVars>>

\* _fetch_result() in the pool: there is no archive, or it does not unpack,
FetchNothing(a) ==
  /\ server = "up" /\ fetch[a] = "queued" /\ tar[a] # "whole"
  /\ fetch' = [fetch EXCEPT ![a] = "over"]
  /\ UNCHANGED <<job, server, jobVars, cancelVars, upload, client, view, askVars,
                 importVars, fetched, local>>

\* or it is copied into the build directory,
FetchBegins(a) ==
  /\ server = "up" /\ fetch[a] = "queued" /\ tar[a] = "whole"
  /\ fetch' = [fetch EXCEPT ![a] = "copying"]
  /\ local' = [local EXCEPT ![a] = "partial"]
  /\ UNCHANGED <<job, server, jobVars, cancelVars, upload, client, view, askVars,
                 importVars, fetched>>

FetchEnds(a) ==
  /\ fetch[a] = "copying"
  /\ fetch' = [fetch EXCEPT ![a] = "over"]
  /\ local' = [local EXCEPT ![a] = "whole"]
  /\ UNCHANGED <<job, server, jobVars, cancelVars, upload, client, view, askVars,
                 importVars, fetched>>

\* or the server cannot be reached, or does not answer in time.
FetchFails(a) ==
  /\ fetch[a] = "queued" /\ ("lost" \in job.events \/ server # "up")
  /\ fetch' = [fetch EXCEPT ![a] = "failed"]
  /\ UNCHANGED <<job, server, jobVars, cancelVars, upload, client, view, askVars,
                 importVars, fetched, local>>

\* Ctrl-C ends the client and its downloads, not the job.
Disconnect ==
  /\ "interrupt" \in job.events
  /\ Waiting
  /\ client' = "disconnected" /\ answer' = "none" /\ message' = NoMessage
  /\ fetch' = NotFetched
  /\ UNCHANGED <<job, server, jobVars, cancelVars, upload, view, timeouts, release,
                 importVars, fetched, local>>

\* sc-remote -reconnect: another client, with the manifest of the first.
Reconnect ==
  /\ client = "disconnected"
  /\ client' = "loop" /\ view' \in job.rejoin
  /\ crecord' = [n \in Node |-> PENDING] /\ imported' = {} /\ fetched' = {}
  /\ UNCHANGED <<job, server, jobVars, cancelVars, upload, askVars, fetch, local>>

Client == Posted \/ Poll \/ Report \/ ReportUnknown \/ Released \/ Finish

Fetch(a) == FetchNothing(a) \/ FetchBegins(a) \/ FetchEnds(a) \/ (server # "up" /\ FetchFails(a))

Next ==
  \/ Job \/ CallbackRaises \/ JobFails \/ (\E n \in Node : Crash(n) \/ Arrive(n))
  \/ RemoteRun \/ CheckProgress
  \/ CancelRequest \/ CancelJob \/ (\E n \in Node : Scancel(n)) \/ CancelAnswer
  \/ DeleteJob \/ Stop \/ StopCancels \/ StopHalts
  \/ Post \/ PostFails \/ ImportPass \/ PollTimesOut \/ ServerGone \/ Client
  \/ \E a \in Archive : Fetch(a) \/ FetchFails(a)
  \/ Disconnect \/ Reconnect

Spec == Init /\ [][Next]_vars

(***************************************************************************)
(* While the server is up the thread of the job runs, the nodes end and    *)
(* requests are answered; the client and its pool run.  Cancellations,     *)
(* failures, a shutdown, timeouts and interrupts need not come, and once   *)
(* the server is down its threads may end anywhere.                        *)
(***************************************************************************)
FairSpec ==
  /\ Spec
  /\ WF_vars(server = "up" /\ Job)
  /\ WF_vars(CheckProgress)
  /\ WF_vars(Client \/ ServerGone)
  /\ \A a \in Archive : WF_vars(Fetch(a))

-----------------------------------------------------------------------------
(***************************************************************************)
(* Properties.                                                             *)
(***************************************************************************)
TypeOK ==
  /\ job \in Jobs
  /\ server \in {"up", "stopping", "halting", "down"}
  /\ thread \in {"none", "claimed", "listed", "archiving", "running", "over"}
  /\ entry \in {"absent", "empty", "nodes"} /\ reported \in Listing /\ canceled \in BOOLEAN
  /\ cancel \in {"no", "refused", "found", "marked", "answered"} /\ doomed \subseteq Node
  /\ stored \in BOOLEAN /\ record \in [Node -> Status]
  /\ alive \subseteq Node /\ running \subseteq Node /\ failed \subseteq Node
  /\ left \in [Node -> Manifest]
  /\ tar \in [Archive -> {"absent", "partial", "whole"}]
  /\ upload \in {"no", "sent", "accepted"}
  /\ client \in {"idle", "posting", "loop", "asking", "joining", "done", "raised", "crashed",
                 "disconnected"}
  /\ view \subseteq Node /\ answer \in {"none"} \cup JobStatus
  /\ message \in {NoMessage} \cup Listing /\ timeouts \in 0 .. MaxTimeouts
  /\ release \in {"no", "completed", "canceled"}
  /\ crecord \in [Node -> Status] /\ imported \subseteq Archive /\ fetched \subseteq Archive
  /\ fetch \in [Archive -> {"no", "queued", "copying", "over", "failed"}]
  /\ local \in [Archive -> {"absent", "partial", "whole"}]

Accepted == thread \in {"claimed", "listed", "archiving", "running"}

(* Until the thread of a job is over nobody is told that it is completed,  *)
(* "until it does a check_progress call that beat it here would be told    *)
(* the job had already completed", and nobody deletes its directory.       *)
RunningUntilOver ==
  /\ answer = "completed" \/ release = "completed" => thread = "over"
  /\ Accepted => stored

(* Whatever is left of the job when its thread is over is not in the       *)
(* tables, a cancellation that was under way meanwhile included.           *)
TablesDrained == thread = "over" => entry = "absent" /\ ~ canceled

(* Once a cancellation is answered nobody is told that the job runs.       *)
CancelSticks == [][cancel = "answered" /\ answer = "none" => answer' # "running"]_vars

(* A client that waits to the end of a job that is then over, and whose    *)
(* downloads all work, has the results of every node that it asked for and *)
(* that the server has archived, and of each of them the status it left,   *)
(* or the one the server gave it where its exit code says something else.  *)
CompletedBringsAll ==
  client = "done" /\ release = "completed" /\ stored /\ (\A a \in Archive : fetch[a] # "failed") =>
    \A n \in view :
      tar[0] = "whole" /\ tar[n] = "whole" =>
        /\ local[n] = "whole"
        /\ HasManifest(n) => n \in imported /\ crecord[n] \in {left[n], Verdict(n)}

(* A client that waits for a job ends, whatever becomes of the job: it is  *)
(* done, or gives up.                                                      *)
ClientEnds ==
  Waiting \/ client = "joining" ~> client \in {"done", "raised", "crashed", "disconnected"}

-----------------------------------------------------------------------------
(***************************************************************************)
(* The inductive invariants of the proofs: what the tables say of the      *)
(* thread, and where a client can be before its job is accepted.           *)
(***************************************************************************)
TableInv ==
  /\ entry # "absent" <=> Accepted
  /\ thread = "none" <=> upload # "accepted"
  /\ canceled => Accepted
  /\ Accepted => stored

ClientInv ==
  /\ client = "idle" => upload = "no"
  /\ upload # "accepted" => client \in {"idle", "posting", "raised"}
  /\ answer = "completed" \/ release = "completed" => thread = "over"

CancelInv ==
  /\ cancel # "no" => thread # "none"
  /\ cancel \in {"marked", "answered"} => canceled \/ thread = "over"

IInv == TypeOK /\ TableInv /\ ClientInv /\ CancelInv

(***************************************************************************)
(* What brings the results to the client.  A node that is over has its     *)
(* verdict; an archive is made of nodes that are over; what is reported,   *)
(* on its way to the client or recorded there is their verdict or what     *)
(* they left; what is fetched can be fetched.                              *)
(***************************************************************************)
Over(n) ==
  /\ n \notin alive
  /\ thread = "over" \/ (thread = "running" /\ n \notin running /\ record[n] # PENDING)

EarlyInv ==
  upload # "accepted" =>
    /\ answer = "none" /\ message = NoMessage
    /\ fetched = {} /\ fetch = NotFetched /\ imported = {}

BeforeRunInv ==
  /\ thread \in {"none", "claimed", "listed", "archiving"} =>
       /\ reported = Blank /\ alive = {} /\ running = {} /\ failed = {}
       /\ \A n \in Node : /\ tar[n] = "absent" /\ local[n] = "absent" /\ left[n] = "absent"
                         /\ record[n] # RUNNING
  /\ thread = "archiving" => \A n \in Node \ job.skips : record[n] = PENDING

SkipInv ==
  /\ \A n \in job.skips : tar[n] = "absent" /\ left[n] = "absent" /\ n \notin running /\ record[n] # RUNNING
  /\ thread \in {"archiving", "running"} => \A n \in job.skips : record[n] = SKIPPED

AliveInv ==
  /\ alive # {} => thread = "running"
  /\ alive \subseteq running
  /\ \A n \in running : record[n] = RUNNING

OverInv == \A n \in Node : tar[n] # "absent" \/ local[n] # "absent" => Over(n)

TruthInv ==
  thread = "running" =>
    /\ tar[0] = "whole"
    /\ \A n \in Node \ job.skips :
         /\ IsDone(record[n]) => record[n] = Verdict(n)
         /\ IsDone(reported[n]) => reported[n] = record[n] /\ tar[n] = "whole"

Answered == client = "asking" /\ answer = "running" /\ message # NoMessage

MessageInv ==
  Answered =>
    /\ \A a \in Archive : IsDone(message[a]) => thread = "over" \/ IsDone(reported[a])
    /\ \A a \in fetched : IsDone(message[a])
    /\ \A n \in Node \ job.skips : IsDone(message[n]) => Over(n) /\ message[n] = Verdict(n)

FetchInv ==
  /\ client = "disconnected" => fetch = NotFetched
  /\ client # "disconnected" => \A a \in Archive : a \in fetched <=> fetch[a] # "no"
  /\ client \notin {"joining", "done"} =>
       release = "no" /\ \A a \in fetched : thread = "over" \/ (thread = "running" /\ IsDone(reported[a]))
  /\ client \in {"joining", "done"} => release # "no" /\ view \cup {0} \subseteq fetched
  /\ client = "done" => ~ Fetching

ArchiveInv ==
  /\ \A a \in Archive : fetch[a] = "copying" => local[a] = "partial"
  /\ release # "canceled" /\ stored =>
       \A a \in Archive \ job.skips : fetch[a] # "no" => tar[a] = "whole" \/ thread = "over"
  /\ release # "canceled" /\ stored =>
       \A a \in Archive : fetch[a] = "over" /\ tar[a] = "whole" => local[a] = "whole"

ImportInv ==
  /\ imported # {} => 0 \in imported
  /\ \A n \in Node : crecord[n] = SKIPPED =>
       n \in job.skips \/ (Over(n) /\ left[n] = SKIPPED /\ n \in fetched)
  /\ \A n \in imported \ {0} :
       \/ n \in job.skips
       \/ n \in fetched /\ Over(n) /\ HasManifest(n) /\ crecord[n] \in {left[n], Verdict(n)}

ResultInv ==
  /\ EarlyInv
  /\ BeforeRunInv
  /\ SkipInv
  /\ AliveInv
  /\ OverInv
  /\ TruthInv
  /\ MessageInv
  /\ FetchInv
  /\ ArchiveInv
  /\ ImportInv
  /\ CompletedBringsAll
=============================================================================

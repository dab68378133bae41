--------------------------- MODULE RemoteJobProofs --------------------------
(***************************************************************************)
(* Proofs about RemoteJob, for every number of nodes, every set of jobs    *)
(* and every number of timeouts.                                           *)
(***************************************************************************)
EXTENDS RemoteJob, TLAPS

(* How the statuses of NodeStatus relate. *)
LEMMA StatusFacts ==
  /\ Done \subseteq Status
  /\ {PENDING, RUNNING, SUCCESS, SKIPPED, ERROR} \subseteq Status
  /\ {SUCCESS, SKIPPED, ERROR} \subseteq Done
  /\ RUNNING \notin Done /\ PENDING \notin Done
  /\ SKIPPED # ERROR /\ PENDING # RUNNING /\ PENDING # SKIPPED /\ RUNNING # SKIPPED
  /\ "absent" \notin Status /\ "torn" \notin Status
  /\ Manifest = {"absent", "torn", SUCCESS, SKIPPED, ERROR}
  /\ {"absent"} \cup LeftBySuccess \cup LeftByDelay \cup LeftByFailure \subseteq Manifest \ {"torn"}
BY DEF Manifest, LeftBySuccess, LeftByDelay, LeftByFailure, Done, Status, PENDING, QUEUED, RUNNING, SUCCESS, ERROR, SKIPPED, TIMEOUT

(* The job's archive has number 0, the others those of the nodes. *)
LEMMA NodeIsArchive == Node \subseteq Archive /\ 0 \in Archive /\ 0 \notin Node /\ Archive = Node \cup {0}
BY Assumptions DEF Node, Archive, Assumptions

\* What Kill changes.
KilledTypes ==
  /\ alive \subseteq Node /\ running \subseteq Node /\ failed \subseteq Node
  /\ left \in [Node -> Manifest]

(* Killing nodes leaves well-typed states of them. *)
LEMMA KillTypes ==
  ASSUME KilledTypes, NEW S, Kill(S)
  PROVE  KilledTypes'
<1>1. PICK found \in [S \cap alive -> LeftByKill] :
        left' = [n \in Node |-> IF n \in S \cap alive THEN found[n] ELSE left[n]]
  BY DEF Kill
<1>2. left' \in [Node -> Manifest]
  BY <1>1 DEF KilledTypes, LeftByKill
<1> QED
  BY <1>2 DEF KilledTypes, Kill

TableTypes ==
  entry \in {"absent", "empty", "nodes"} /\ reported \in Listing /\ canceled \in BOOLEAN

(* Dropping the job's entries leaves well-typed tables. *)
LEMMA DropEntryTypes ==
  ASSUME DropEntry
  PROVE  TableTypes'
<1>1. Blank \in Listing
  BY StatusFacts DEF Blank, Listing
<1>2. canceled' \in BOOLEAN
  BY DEF DropEntry
<1> QED
  BY <1>1, <1>2 DEF DropEntry, TableTypes

-----------------------------------------------------------------------------
(***************************************************************************)
(* The tables and the types.                                               *)
(***************************************************************************)
LEMMA InitInv == Init => IInv
<1> SUFFICES ASSUME Init PROVE IInv
  OBVIOUS
<1> USE StatusFacts, NodeIsArchive, Assumptions DEF Init
<1>1. TypeOK
  <2>1. /\ reported \in Listing /\ message \in {NoMessage} \cup Listing
        /\ record \in [Node -> Status] /\ crecord \in [Node -> Status]
    BY DEF Listing, Blank
  <2>2. /\ left \in [Node -> Manifest]
        /\ tar \in [Archive -> {"absent", "partial", "whole"}]
        /\ local \in [Archive -> {"absent", "partial", "whole"}]
        /\ fetch \in [Archive -> {"no", "queued", "copying", "over", "failed"}]
    BY DEF NoArchive, NotFetched
  <2>3. timeouts \in 0 .. MaxTimeouts
    BY DEF Assumptions
  <2>4. canceled \in BOOLEAN /\ stored \in BOOLEAN
    OBVIOUS
  <2> QED
    BY <2>1, <2>2, <2>3, <2>4 DEF TypeOK
<1>2. TableInv /\ ClientInv /\ CancelInv
  BY DEF TableInv, ClientInv, CancelInv, Accepted
<1> QED
  BY <1>1, <1>2 DEF IInv

\* Steps of the job that need not come.
Mishap == CallbackRaises \/ JobFails \/ \E n \in Node : Crash(n) \/ Arrive(n)

(* The steps of the job's thread and of its nodes. *)
LEMMA JobStep ==
  ASSUME IInv, Job \/ Mishap
  PROVE  IInv'
<1> USE StatusFacts, NodeIsArchive
<1>1. TypeOK'
  <2> USE DEF IInv, TypeOK, jobVars, tableVars, runVars, cancelVars, clientVars, askVars, importVars, fetchVars
  <2>1. CASE ListNodes
    BY <2>1 DEF ListNodes, Listing, Blank
  <2>2. CASE SetUp
    BY <2>2 DEF SetUp
  <2>3. CASE RunStart
    <3>1. StatusOf(record) \in Listing
      BY DEF StatusOf, Listing
    <3> QED
      BY <2>3, <3>1 DEF RunStart
  <2>4. CASE JobEnds
    <3>1. TableTypes'
      BY <2>4, DropEntryTypes DEF JobEnds
    <3> QED
      BY <2>4, <3>1 DEF JobEnds, TableTypes
  <2>5. ASSUME NEW n \in Node, NodeStart(n) PROVE TypeOK'
    BY <2>5 DEF NodeStart, Listing
  <2>6. ASSUME NEW n \in Node, Exit(n) PROVE TypeOK'
    <3>1. \A s \in LeftBySuccess \cup LeftByDelay \cup LeftByFailure :
            [left EXCEPT ![n] = s] \in [Node -> Manifest]
      OBVIOUS
    <3>2. left' \in [Node -> Manifest] /\ failed' \subseteq Node
      BY <2>6, <3>1 DEF Exit
    <3> QED
      BY <2>6, <3>2 DEF Exit
  <2>7. ASSUME NEW n \in Node, NodeEnd(n) PROVE TypeOK'
    <3>1. Verdict(n) \in Status
      BY <2>7 DEF NodeEnd, Verdict
    <3> QED
      BY <2>7, <3>1 DEF NodeEnd
  <2>8. ASSUME NEW n \in Node, NodeArchived(n) PROVE TypeOK'
    <3>1. reported' \in Listing
      BY <2>8 DEF NodeArchived, Listing
    <3> QED
      BY <2>8, <3>1 DEF NodeArchived
  <2>9. CASE CallbackRaises
    <3>1. Kill(alive)
      BY <2>9 DEF CallbackRaises
    <3>2. KilledTypes'
      BY <3>1, KillTypes DEF KilledTypes
    <3> QED
      <4>1. TableTypes'
        BY <2>9, DropEntryTypes DEF CallbackRaises
      <4> QED
        BY <2>9, <3>2, <4>1 DEF CallbackRaises, TableTypes, KilledTypes
  <2>10. CASE JobFails
    <3>1. TableTypes'
      BY <2>10, DropEntryTypes DEF JobFails
    <3> QED
      BY <2>10, <3>1 DEF JobFails, TableTypes
  <2>11. ASSUME NEW n \in Node, ReplayRaises(n) PROVE TypeOK'
    <3>1. KilledTypes' /\ TableTypes'
      BY <2>11, KillTypes, DropEntryTypes DEF ReplayRaises, KilledTypes
    <3> QED
      BY <2>11, <3>1 DEF ReplayRaises, TableTypes, KilledTypes
  <2>12. ASSUME NEW n \in Node, Crash(n) PROVE TypeOK'
    <3>1. KilledTypes'
      BY <2>12, KillTypes DEF Crash, KilledTypes
    <3> QED
      BY <2>12, <3>1 DEF Crash, KilledTypes
  <2>13. ASSUME NEW n \in Node, Arrive(n) PROVE TypeOK'
    <3>1. left' \in [Node -> Manifest]
      BY <2>13 DEF Arrive
    <3> QED
      BY <2>13, <3>1 DEF Arrive
  <2> QED
    BY <2>1, <2>2, <2>3, <2>4, <2>5, <2>6, <2>7, <2>8, <2>9, <2>10, <2>11, <2>12, <2>13 DEF Job, Mishap
<1>2. TableInv' /\ ClientInv' /\ CancelInv'
  <2> USE DEF IInv, TableInv, ClientInv, CancelInv, Accepted, jobVars, tableVars, runVars, cancelVars,
              clientVars, askVars, importVars, fetchVars
  <2>1. CASE ListNodes \/ SetUp \/ RunStart
    BY <2>1 DEF ListNodes, SetUp, RunStart
  <2>2. CASE JobEnds \/ JobFails
    BY <2>2 DEF JobEnds, JobFails, DropEntry, Idle
  <2>3. CASE CallbackRaises
    BY <2>3 DEF CallbackRaises, DropEntry
  <2>4. CASE \E n \in Node : NodeStart(n) \/ Exit(n) \/ NodeEnd(n) \/ NodeArchived(n)
    BY <2>4 DEF NodeStart, Exit, NodeEnd, NodeArchived
  <2>5. CASE \E n \in Node : ReplayRaises(n)
    BY <2>5 DEF ReplayRaises, Idle, DropEntry
  <2>6. CASE \E n \in Node : Crash(n) \/ Arrive(n)
    BY <2>6 DEF Crash, Arrive
  <2> QED
    BY <2>1, <2>2, <2>3, <2>4, <2>5, <2>6 DEF Job, Mishap
<1> QED
  BY <1>1, <1>2 DEF IInv

Requests ==
  \/ RemoteRun \/ CheckProgress
  \/ CancelRequest \/ CancelJob \/ (\E n \in Node : Scancel(n)) \/ CancelAnswer
  \/ DeleteJob \/ Stop \/ StopCancels \/ StopHalts

(* The steps of the server's other threads. *)
LEMMA RequestStep ==
  ASSUME IInv, Requests
  PROVE  IInv'
<1> USE StatusFacts, NodeIsArchive
<1>1. TypeOK'
  <2> USE DEF IInv, TypeOK, jobVars, tableVars, runVars, cancelVars, clientVars, askVars, importVars, fetchVars
  <2>1. CASE RemoteRun
    <3>1. reported' \in Listing
      BY <2>1 DEF RemoteRun, Listing, Blank
    <3> QED
      BY <2>1, <3>1 DEF RemoteRun
  <2>2. CASE CheckProgress
    <3>1. answer' \in JobStatus
      BY <2>2 DEF CheckProgress, JobState, JobStatus
    <3>2. message' \in {NoMessage} \cup Listing
      BY <2>2 DEF CheckProgress
    <3> QED
      BY <2>2, <3>1, <3>2 DEF CheckProgress
  <2>3. CASE CancelRequest \/ CancelAnswer \/ Stop
    BY <2>3 DEF CancelRequest, CancelAnswer, Stop
  <2>4. CASE CancelJob
    <3>1. Cancelable \subseteq Node
      BY DEF Cancelable
    <3>2. canceled' \in BOOLEAN /\ doomed' \subseteq Node
      BY <2>4, <3>1 DEF CancelJob
    <3> QED
      BY <2>4, <3>2 DEF CancelJob
  <2>5. ASSUME NEW n \in Node, Scancel(n) PROVE TypeOK'
    <3>1. KilledTypes'
      BY <2>5, KillTypes DEF Scancel, KilledTypes
    <3> QED
      BY <2>5, <3>1 DEF Scancel, KilledTypes
  <2>6. CASE DeleteJob
    <3>1. tar' \in [Archive -> {"absent", "partial", "whole"}] /\ stored' \in BOOLEAN
      BY <2>6 DEF DeleteJob, NoArchive
    <3> QED
      BY <2>6, <3>1 DEF DeleteJob
  <2>7. CASE StopCancels
    <3>1. KilledTypes' /\ canceled' \in BOOLEAN
      BY <2>7, KillTypes DEF StopCancels, KilledTypes
    <3> QED
      BY <2>7, <3>1 DEF StopCancels, KilledTypes
  <2>8. CASE StopHalts
    <3>1. KilledTypes'
      BY <2>8, KillTypes DEF StopHalts, KilledTypes
    <3> QED
      BY <2>8, <3>1 DEF StopHalts, KilledTypes
  <2> QED
    BY <2>1, <2>2, <2>3, <2>4, <2>5, <2>6, <2>7, <2>8 DEF Requests
<1>2. TableInv' /\ ClientInv' /\ CancelInv'
  <2> USE DEF IInv, TableInv, ClientInv, CancelInv, Accepted, jobVars, tableVars, runVars, cancelVars,
              clientVars, askVars, importVars, fetchVars
  <2>1. CASE RemoteRun
    BY <2>1 DEF RemoteRun
  <2>2. CASE CheckProgress
    BY <2>2 DEF CheckProgress, JobState, TypeOK
  <2>3. CASE CancelRequest \/ CancelAnswer \/ Stop
    BY <2>3 DEF CancelRequest, CancelAnswer, Stop
  <2>4. CASE CancelJob
    BY <2>4 DEF CancelJob, TypeOK
  <2>5. ASSUME NEW n \in Node, Scancel(n) PROVE TableInv' /\ ClientInv' /\ CancelInv'
    BY <2>5 DEF Scancel
  <2>6. CASE DeleteJob
    BY <2>6 DEF DeleteJob
  <2>7. CASE StopCancels \/ StopHalts
    BY <2>7 DEF StopCancels, StopHalts
  <2> QED
    BY <2>1, <2>2, <2>3, <2>4, <2>5, <2>6, <2>7 DEF Requests
<1> QED
  BY <1>1, <1>2 DEF IInv

ClientSteps ==
  \/ Post \/ PostFails \/ ImportPass \/ PollTimesOut \/ ServerGone \/ Client
  \/ Disconnect \/ Reconnect
  \/ \E a \in Archive : Fetch(a) \/ FetchFails(a)

(* What an import writes. *)
LEMMA ImportTypes ==
  ASSUME TypeOK, Import
  PROVE  crecord' \in [Node -> Status] /\ imported' \subseteq Archive
<1>1. PICK ready \in SUBSET {a \in fetched : local[a] = "partial"},
           torn \in SUBSET {a \in fetched : local[a] = "partial"} :
        LET there  == ready \cup {a \in fetched : local[a] = "whole"}
            before == IF 0 \in imported THEN crecord ELSE SetupRecord
            due    == view \ imported
            replay == {n \in due \cap there : HasManifest(n)}
            none   == {n \in due \ (torn \cup replay) : before[n] = SKIPPED}
        IN  IF 0 \notin imported \cup there THEN UNCHANGED importVars
            ELSE /\ imported' = imported \cup {0} \cup replay \cup none
                 /\ crecord' = [n \in Node |-> IF n \in replay THEN left[n] ELSE before[n]]
  BY DEF Import
<1> DEFINE there  == ready \cup {a \in fetched : local[a] = "whole"}
           before == IF 0 \in imported THEN crecord ELSE SetupRecord
           due    == view \ imported
           replay == {n \in due \cap there : HasManifest(n)}
           none   == {n \in due \ (torn \cup replay) : before[n] = SKIPPED}
<1>2. CASE 0 \notin imported \cup there
  BY <1>1, <1>2 DEF importVars, TypeOK
<1>3. CASE ~ (0 \notin imported \cup there)
  <2>1. before \in [Node -> Status]
    BY StatusFacts DEF TypeOK, SetupRecord
  <2>2. \A n \in replay : n \in Node /\ left[n] \in Status
    BY StatusFacts DEF HasManifest, TypeOK
  <2>3. replay \cup none \subseteq Archive
    BY NodeIsArchive DEF TypeOK
  <2>4. imported' = imported \cup {0} \cup replay \cup none
        /\ crecord' = [n \in Node |-> IF n \in replay THEN left[n] ELSE before[n]]
    BY <1>1, <1>3
  <2> HIDE DEF replay, none, before
  <2>5. crecord' \in [Node -> Status]
    BY <2>1, <2>2, <2>4
  <2>6. imported' \subseteq Archive
    BY <2>3, <2>4, NodeIsArchive DEF TypeOK
  <2> QED
    BY <2>5, <2>6
<1> QED
  BY <1>2, <1>3

(* What scheduling downloads writes. *)
LEMMA ScheduleTypes ==
  ASSUME TypeOK, NEW S \in SUBSET Archive, Schedule(S)
  PROVE  /\ fetched' \subseteq Archive /\ local' = local
         /\ fetch' \in [Archive -> {"no", "queued", "copying", "over", "failed"}]
BY DEF Schedule, TypeOK

(* The steps of the client. *)
LEMMA ClientStep ==
  ASSUME IInv, ClientSteps
  PROVE  IInv'
<1> USE StatusFacts, NodeIsArchive
<1>1. TypeOK'
  <2> USE DEF IInv, TypeOK, jobVars, tableVars, runVars, cancelVars, clientVars, askVars, importVars, fetchVars
  <2>1. CASE Post \/ Posted \/ PostFails \/ Poll \/ ServerGone \/ ReportUnknown
    BY <2>1, Assumptions DEF Post, Posted, PostFails, Poll, ServerGone, ReportUnknown, Assumptions
  <2>2. CASE PollTimesOut
    BY <2>2, Assumptions DEF PollTimesOut, Assumptions
  <2>3. CASE ImportPass
    BY <2>3, ImportTypes DEF ImportPass
  <2>4. CASE Finish
    BY <2>4, ImportTypes DEF Finish
  <2>5. CASE Report
    <3>1. crecord' \in [Node -> Status]
      BY <2>5 DEF Report, Listing
    <3>2. {a \in DOMAIN message : IsDone(message[a])} \subseteq Archive
      BY DEF Listing, NoMessage
    <3>3. /\ fetched' \subseteq Archive /\ local' = local
          /\ fetch' \in [Archive -> {"no", "queued", "copying", "over", "failed"}]
      BY <2>5, <3>2, ScheduleTypes DEF Report
    <3> QED
      BY <2>5, <3>1, <3>3 DEF Report
  <2>6. CASE Released
    <3>1. /\ fetched' \subseteq Archive /\ local' = local
          /\ fetch' \in [Archive -> {"no", "queued", "copying", "over", "failed"}]
      BY <2>6, ScheduleTypes DEF Released
    <3>2. release' \in {"no", "completed", "canceled"}
      BY <2>6 DEF Released
    <3> QED
      BY <2>6, <3>1, <3>2 DEF Released
  <2>7. CASE Disconnect
    BY <2>7 DEF Disconnect, NotFetched
  <2>8. CASE Reconnect
    <3>1. view' \subseteq Node
      BY <2>8, Assumptions DEF Reconnect, Assumptions, JobType
    <3>2. crecord' \in [Node -> Status]
      BY <2>8 DEF Reconnect
    <3> QED
      BY <2>8, <3>1, <3>2 DEF Reconnect
  <2>9. ASSUME NEW a \in Archive, Fetch(a) \/ FetchFails(a) PROVE TypeOK'
    BY <2>9 DEF Fetch, FetchNothing, FetchBegins, FetchEnds, FetchFails
  <2> QED
    BY <2>1, <2>2, <2>3, <2>4, <2>5, <2>6, <2>7, <2>8, <2>9 DEF ClientSteps, Client
<1>2. TableInv' /\ ClientInv' /\ CancelInv'
  <2> USE DEF IInv, TableInv, ClientInv, CancelInv, Accepted, jobVars, tableVars, runVars, cancelVars,
              clientVars, askVars, importVars, fetchVars
  <2>1. CASE Post \/ Posted \/ PostFails
    BY <2>1 DEF Post, Posted, PostFails
  <2>6. CASE Poll \/ ServerGone \/ ReportUnknown
    BY <2>6 DEF Poll, ServerGone, ReportUnknown
  <2>7. CASE PollTimesOut
    BY <2>7 DEF PollTimesOut
  <2>2. CASE ImportPass \/ Finish
    BY <2>2 DEF ImportPass, Finish
  <2>3. CASE Report \/ Released
    BY <2>3 DEF Report, Released
  <2>4. CASE Disconnect \/ Reconnect
    BY <2>4 DEF Disconnect, Reconnect, Waiting
  <2>5. ASSUME NEW a \in Archive, Fetch(a) \/ FetchFails(a) PROVE TableInv' /\ ClientInv' /\ CancelInv'
    BY <2>5 DEF Fetch, FetchNothing, FetchBegins, FetchEnds, FetchFails
  <2> QED
    BY <2>1, <2>2, <2>3, <2>4, <2>5, <2>6, <2>7 DEF ClientSteps, Client
<1> QED
  BY <1>1, <1>2 DEF IInv

(* Each action keeps types and the invariants of the tables. *)
LEMMA NextStep ==
  ASSUME IInv, [Next]_vars
  PROVE  IInv'
<1>1. CASE UNCHANGED vars
  BY <1>1 DEF IInv, TypeOK, TableInv, ClientInv, CancelInv, Accepted, vars, jobVars, tableVars, runVars,
     cancelVars, clientVars, askVars, importVars, fetchVars
<1>2. CASE Next
  BY <1>2, JobStep, RequestStep, ClientStep DEF Next, Mishap, Requests, ClientSteps
<1> QED
  BY <1>1, <1>2

(* What the tables say of the job's thread holds in every state. *)
THEOREM Invariant == Spec => []IInv
<1>1. Init => IInv
  BY InitInv
<1>2. IInv /\ [Next]_vars => IInv'
  BY NextStep
<1> QED
  BY <1>1, <1>2, PTL DEF Spec

(* Every variable keeps its type. *)
THEOREM TypeCorrect == Spec => []TypeOK
<1>1. IInv => TypeOK
  BY DEF IInv
<1> QED
  BY <1>1, Invariant, PTL

(* A job keeps its place until its thread is over: nobody is told before   *)
(* that it is completed, and nobody deletes its directory.                 *)
THEOREM JobsKeepTheirPlace == Spec => []RunningUntilOver
<1>1. IInv => RunningUntilOver
  BY DEF IInv, TableInv, ClientInv, RunningUntilOver
<1> QED
  BY <1>1, Invariant, PTL

(* Nothing is left of a job in the tables when its thread is over.         *)
THEOREM TablesAreDrained == Spec => []TablesDrained
<1>1. IInv => TablesDrained
  BY DEF IInv, TypeOK, TableInv, Accepted, TablesDrained
<1> QED
  BY <1>1, Invariant, PTL

(* Nobody is told that a job runs after its cancellation was answered.     *)
THEOREM CancellationSticks == Spec => CancelSticks
<1> DEFINE Step == cancel = "answered" /\ answer = "none" => answer' # "running"
<1>1. ASSUME IInv, [Next]_vars PROVE [Step]_vars
  <2> SUFFICES ASSUME cancel = "answered", answer = "none", Next PROVE answer' # "running"
    BY <1>1
  <2>1. CASE CheckProgress
    <3>1. canceled \/ entry = "absent"
      BY <1>1 DEF IInv, CancelInv, TableInv, TypeOK, Accepted
    <3>2. JobState # "running"
      BY <3>1 DEF JobState
    <3> QED
      BY <2>1, <3>2 DEF CheckProgress
  <2>2. CASE Job \/ Mishap
    BY <2>2 DEF Job, ListNodes, SetUp, RunStart, JobEnds, NodeStart, Exit, NodeEnd, NodeArchived, ReplayRaises,
       Mishap, CallbackRaises, JobFails, Crash, Arrive, clientVars, askVars
  <2>3. CASE Requests /\ ~ CheckProgress
    BY <2>3 DEF Requests, RemoteRun, CancelRequest, CancelJob, Scancel, CancelAnswer, DeleteJob, Stop,
       StopCancels, StopHalts, clientVars, askVars
  <2>4. CASE ClientSteps
    BY <2>4 DEF ClientSteps, Client, Post, Posted, PostFails, Poll, ServerGone, ReportUnknown, PollTimesOut,
       ImportPass, Finish, Report, Released, Disconnect, Reconnect, Fetch, FetchNothing, FetchBegins,
       FetchEnds, FetchFails, askVars
  <2> QED
    BY <2>1, <2>2, <2>3, <2>4 DEF Next, Mishap, Requests, ClientSteps
<1> QED
  BY <1>1, Invariant, PTL DEF Spec, CancelSticks

-----------------------------------------------------------------------------
(***************************************************************************)
(* A client that waits to the end has everything its nodes left.           *)
(***************************************************************************)
(* Ending processes touches nodes that are alive only. *)
LEMMA KillKeeps ==
  ASSUME TypeOK, NEW S, Kill(S)
  PROVE  /\ \A n \in Node \ alive : left'[n] = left[n] /\ (n \in failed' <=> n \in failed)
         /\ alive' = alive \ S /\ running' = running
         /\ alive = {} => failed' = failed
BY DEF Kill, TypeOK

(* The nodes that setup skips are nodes of the job. *)
LEMMA SkipsAreNodes ==
  ASSUME job \in Jobs
  PROVE  job.skips \subseteq Node
BY Assumptions DEF Assumptions, JobType

(* Nothing is fetched before the job runs. *)
LEMMA NotFetchedBefore ==
  ASSUME IInv, ResultInv, release # "canceled", thread \notin {"running", "over"}
  PROVE  \A a \in Archive : fetch[a] = "no"
<1>1. CASE client = "disconnected"
  BY <1>1 DEF ResultInv, FetchInv, NotFetched
<1>2. CASE client # "disconnected"
  <2>1. client \notin {"joining", "done"}
    BY DEF IInv, TypeOK, ClientInv, ResultInv, FetchInv
  <2> QED
    BY <1>2, <2>1 DEF ResultInv, FetchInv
<1> QED
  BY <1>1, <1>2

LEMMA ListNodesResults ==
  ASSUME IInv, ResultInv, ListNodes
  PROVE  ResultInv'
<1> USE StatusFacts, NodeIsArchive, SkipsAreNodes DEF jobVars, tableVars, runVars, cancelVars, clientVars, askVars, importVars, fetchVars, IInv, TypeOK, TableInv, ClientInv, CancelInv, Accepted, ResultInv
<1>1. EarlyInv'
  BY DEF ListNodes, EarlyInv, NotFetched
<1>2. BeforeRunInv'
  BY DEF ListNodes, BeforeRunInv
<1>3. SkipInv'
  BY DEF ListNodes, SkipInv
<1>4. AliveInv'
  BY DEF ListNodes, AliveInv
<1>5. OverInv'
  BY DEF ListNodes, OverInv, Over
<1>6. TruthInv'
  BY DEF ListNodes, TruthInv, Verdict, SkipInv, AliveInv, IsDone
<1>7. MessageInv'
  BY DEF ListNodes, MessageInv, Answered, Verdict, Over, BeforeRunInv, Blank, IsDone
<1>8. FetchInv'
  BY DEF ListNodes, FetchInv, Fetching, NotFetched
<1>9. ArchiveInv'
  BY DEF ListNodes, ArchiveInv, FetchInv, SkipInv, NotFetched
<1>10. ImportInv'
  BY DEF ListNodes, ImportInv, Over, HasManifest, SkipInv, OverInv, Verdict
<1>11. CompletedBringsAll'
  BY DEF ListNodes, CompletedBringsAll, HasManifest, FetchInv, Fetching, AliveInv, Verdict
<1> QED
  BY <1>1, <1>2, <1>3, <1>4, <1>5, <1>6, <1>7, <1>8, <1>9, <1>10, <1>11

LEMMA SetUpResults ==
  ASSUME IInv, ResultInv, SetUp
  PROVE  ResultInv'
<1> USE StatusFacts, NodeIsArchive, SkipsAreNodes DEF jobVars, tableVars, runVars, cancelVars, clientVars, askVars, importVars, fetchVars, IInv, TypeOK, TableInv, ClientInv, CancelInv, Accepted, ResultInv
<1>1. EarlyInv'
  BY DEF SetUp, EarlyInv, NotFetched
<1>2. BeforeRunInv'
  BY DEF SetUp, BeforeRunInv
<1>3. SkipInv'
  BY DEF SetUp, SkipInv, BeforeRunInv, JobType
<1>4. AliveInv'
  BY DEF SetUp, AliveInv, BeforeRunInv
<1>5. OverInv'
  BY DEF SetUp, OverInv, Over, BeforeRunInv
<1>6. TruthInv'
  BY DEF SetUp, TruthInv, Verdict, SkipInv, AliveInv, IsDone
<1>7. MessageInv'
  BY DEF SetUp, MessageInv, Answered, Verdict, Over, SkipInv, AliveInv
<1>8. FetchInv'
  BY DEF SetUp, FetchInv, Fetching, NotFetched
<1>9. ArchiveInv'
  BY NotFetchedBefore DEF SetUp, ArchiveInv
<1>10. ImportInv'
  BY DEF SetUp, ImportInv, Over, HasManifest, SkipInv, OverInv, Verdict
<1>11. CompletedBringsAll'
  BY DEF SetUp, CompletedBringsAll, HasManifest, FetchInv, Fetching, AliveInv, Verdict
<1> QED
  BY <1>1, <1>2, <1>3, <1>4, <1>5, <1>6, <1>7, <1>8, <1>9, <1>10, <1>11

LEMMA RunStartResults ==
  ASSUME IInv, ResultInv, RunStart
  PROVE  ResultInv'
<1> USE StatusFacts, NodeIsArchive, SkipsAreNodes DEF jobVars, tableVars, runVars, cancelVars, clientVars, askVars, importVars, fetchVars, IInv, TypeOK, TableInv, ClientInv, CancelInv, Accepted, ResultInv
<1>1. EarlyInv'
  BY DEF RunStart, StatusOf, EarlyInv, NotFetched
<1>2. BeforeRunInv'
  BY DEF RunStart, StatusOf, BeforeRunInv
<1>3. SkipInv'
  BY DEF RunStart, StatusOf, SkipInv
<1>4. AliveInv'
  BY DEF RunStart, StatusOf, AliveInv
<1>5. OverInv'
  BY DEF RunStart, OverInv, Over, BeforeRunInv
<1>6. TruthInv'
  BY DEF RunStart, StatusOf, TruthInv, BeforeRunInv, IsDone
<1>7. MessageInv'
  BY DEF RunStart, StatusOf, MessageInv, Answered, Verdict, Over, BeforeRunInv, Blank, IsDone
<1>8. FetchInv'
  BY DEF RunStart, StatusOf, FetchInv, Fetching, BeforeRunInv, Blank, IsDone
<1>9. ArchiveInv'
  BY NotFetchedBefore DEF RunStart, ArchiveInv
<1>10. ImportInv'
  BY DEF RunStart, StatusOf, ImportInv, Over, HasManifest, SkipInv, OverInv, Verdict
<1>11. CompletedBringsAll'
  BY DEF RunStart, StatusOf, CompletedBringsAll, HasManifest, FetchInv, Fetching, AliveInv, Verdict
<1> QED
  BY <1>1, <1>2, <1>3, <1>4, <1>5, <1>6, <1>7, <1>8, <1>9, <1>10, <1>11

LEMMA JobEndsResults ==
  ASSUME IInv, ResultInv, JobEnds
  PROVE  ResultInv'
<1> USE StatusFacts, NodeIsArchive, SkipsAreNodes DEF jobVars, tableVars, runVars, cancelVars, clientVars, askVars, importVars, fetchVars, IInv, TypeOK, TableInv, ClientInv, CancelInv, Accepted, ResultInv
<1>1. EarlyInv'
  BY DEF JobEnds, Idle, DropEntry, EarlyInv, NotFetched
<1>2. BeforeRunInv'
  BY DEF JobEnds, Idle, DropEntry, BeforeRunInv
<1>3. SkipInv'
  BY DEF JobEnds, Idle, DropEntry, SkipInv
<1>4. AliveInv'
  BY DEF JobEnds, Idle, DropEntry, AliveInv
<1>5. OverInv'
  BY DEF JobEnds, Idle, DropEntry, OverInv, Over
<1>6. TruthInv'
  BY DEF JobEnds, Idle, DropEntry, TruthInv, Verdict, SkipInv, AliveInv, IsDone
<1>7. MessageInv'
  BY DEF JobEnds, Idle, DropEntry, MessageInv, Answered, Verdict, Over, SkipInv, AliveInv
<1>8. FetchInv'
  BY DEF JobEnds, Idle, DropEntry, FetchInv, Fetching, NotFetched
<1>9. ArchiveInv'
  BY DEF JobEnds, Idle, DropEntry, ArchiveInv, FetchInv, SkipInv, NotFetched
<1>10. ImportInv'
  BY DEF JobEnds, Idle, DropEntry, ImportInv, Over, HasManifest, SkipInv, OverInv, Verdict
<1>11. CompletedBringsAll'
  BY DEF JobEnds, Idle, DropEntry, CompletedBringsAll, HasManifest, FetchInv, Fetching, AliveInv, Verdict
<1> QED
  BY <1>1, <1>2, <1>3, <1>4, <1>5, <1>6, <1>7, <1>8, <1>9, <1>10, <1>11

LEMMA JobFailsResults ==
  ASSUME IInv, ResultInv, JobFails
  PROVE  ResultInv'
<1> USE StatusFacts, NodeIsArchive, SkipsAreNodes DEF jobVars, tableVars, runVars, cancelVars, clientVars, askVars, importVars, fetchVars, IInv, TypeOK, TableInv, ClientInv, CancelInv, Accepted, ResultInv
<1>1. EarlyInv'
  BY DEF JobFails, DropEntry, EarlyInv, NotFetched
<1>2. BeforeRunInv'
  BY DEF JobFails, DropEntry, BeforeRunInv
<1>3. SkipInv'
  BY DEF JobFails, DropEntry, SkipInv
<1>4. AliveInv'
  BY DEF JobFails, DropEntry, AliveInv
<1>5. OverInv'
  BY DEF JobFails, DropEntry, OverInv, Over
<1>6. TruthInv'
  BY DEF JobFails, DropEntry, TruthInv, Verdict, SkipInv, AliveInv, IsDone
<1>7. MessageInv'
  BY DEF JobFails, DropEntry, MessageInv, Answered, Verdict, Over, SkipInv, AliveInv
<1>8. FetchInv'
  BY DEF JobFails, DropEntry, FetchInv, Fetching, NotFetched
<1>9. ArchiveInv'
  BY DEF JobFails, DropEntry, ArchiveInv, FetchInv, SkipInv, NotFetched
<1>10. ImportInv'
  BY DEF JobFails, DropEntry, ImportInv, Over, HasManifest, SkipInv, OverInv, Verdict
<1>11. CompletedBringsAll'
  BY DEF JobFails, DropEntry, CompletedBringsAll, HasManifest, FetchInv, Fetching, AliveInv, Verdict
<1> QED
  BY <1>1, <1>2, <1>3, <1>4, <1>5, <1>6, <1>7, <1>8, <1>9, <1>10, <1>11

LEMMA CallbackRaisesResults ==
  ASSUME IInv, ResultInv, CallbackRaises
  PROVE  ResultInv'
<1> USE StatusFacts, NodeIsArchive, SkipsAreNodes DEF jobVars, tableVars, runVars, cancelVars, clientVars, askVars, importVars, fetchVars, IInv, TypeOK, TableInv, ClientInv, CancelInv, Accepted, ResultInv
<1>a. /\ \A m \in Node \ alive : left'[m] = left[m] /\ (m \in failed' <=> m \in failed)
      /\ alive' = {}
      /\ running' = running
      /\ alive = {} => failed' = failed
  BY KillKeeps DEF CallbackRaises
<1>b. \A m \in Node : Over(m) => m \notin alive /\ Over(m)'
  BY <1>a DEF Over, CallbackRaises
<1>1. EarlyInv'
  BY DEF CallbackRaises, DropEntry, EarlyInv, NotFetched
<1>2. BeforeRunInv'
  BY <1>a, <1>b DEF CallbackRaises, DropEntry, BeforeRunInv
<1>3. SkipInv'
  BY <1>a, <1>b DEF CallbackRaises, DropEntry, SkipInv, AliveInv
<1>4. AliveInv'
  BY <1>a, <1>b DEF CallbackRaises, DropEntry, AliveInv
<1>5. OverInv'
  BY <1>a, <1>b DEF CallbackRaises, DropEntry, OverInv, Over
<1>6. TruthInv'
  BY <1>a, <1>b DEF CallbackRaises, DropEntry, TruthInv, Verdict, SkipInv, AliveInv, IsDone
<1>7. MessageInv'
  BY <1>a, <1>b DEF CallbackRaises, DropEntry, MessageInv, Answered, Verdict, SkipInv, AliveInv
<1>8. FetchInv'
  BY DEF CallbackRaises, DropEntry, FetchInv, Fetching, NotFetched
<1>9. ArchiveInv'
  BY DEF CallbackRaises, DropEntry, ArchiveInv, FetchInv, SkipInv, NotFetched
<1>10. ImportInv'
  BY <1>a, <1>b DEF CallbackRaises, DropEntry, ImportInv, HasManifest, SkipInv, OverInv, Verdict
<1>11. CompletedBringsAll'
  BY <1>a, <1>b DEF CallbackRaises, DropEntry, CompletedBringsAll, HasManifest, FetchInv, Fetching, AliveInv, Verdict
<1> QED
  BY <1>1, <1>2, <1>3, <1>4, <1>5, <1>6, <1>7, <1>8, <1>9, <1>10, <1>11

LEMMA ReplayRaisesResults ==
  ASSUME IInv, ResultInv, NEW n \in Node, ReplayRaises(n)
  PROVE  ResultInv'
<1> USE StatusFacts, NodeIsArchive, SkipsAreNodes DEF jobVars, tableVars, runVars, cancelVars, clientVars, askVars, importVars, fetchVars, IInv, TypeOK, TableInv, ClientInv, CancelInv, Accepted, ResultInv
<1>a. /\ \A m \in Node \ alive : left'[m] = left[m] /\ (m \in failed' <=> m \in failed)
      /\ alive' = {}
      /\ running' = running
      /\ alive = {} => failed' = failed
  BY KillKeeps DEF ReplayRaises
<1>b. \A m \in Node : Over(m) => m \notin alive /\ Over(m)'
  BY <1>a DEF Over, ReplayRaises
<1>1. EarlyInv'
  BY DEF ReplayRaises, Idle, DropEntry, EarlyInv, NotFetched
<1>2. BeforeRunInv'
  BY <1>a, <1>b DEF ReplayRaises, Idle, DropEntry, BeforeRunInv
<1>3. SkipInv'
  BY <1>a, <1>b DEF ReplayRaises, Idle, DropEntry, SkipInv, AliveInv
<1>4. AliveInv'
  BY <1>a, <1>b DEF ReplayRaises, Idle, DropEntry, AliveInv
<1>5. OverInv'
  BY <1>a, <1>b DEF ReplayRaises, Idle, DropEntry, OverInv, Over
<1>6. TruthInv'
  BY <1>a, <1>b DEF ReplayRaises, Idle, DropEntry, TruthInv, Verdict, SkipInv, AliveInv, IsDone
<1>7. MessageInv'
  BY <1>a, <1>b DEF ReplayRaises, Idle, DropEntry, MessageInv, Answered, Verdict, SkipInv, AliveInv
<1>8. FetchInv'
  BY DEF ReplayRaises, Idle, DropEntry, FetchInv, Fetching, NotFetched
<1>9. ArchiveInv'
  BY DEF ReplayRaises, Idle, DropEntry, ArchiveInv, FetchInv, SkipInv, NotFetched
<1>10. ImportInv'
  BY <1>a, <1>b DEF ReplayRaises, Idle, DropEntry, ImportInv, HasManifest, SkipInv, OverInv, Verdict
<1>11. CompletedBringsAll'
  BY <1>a, <1>b DEF ReplayRaises, Idle, DropEntry, CompletedBringsAll, HasManifest, FetchInv, Fetching, AliveInv, Verdict
<1> QED
  BY <1>1, <1>2, <1>3, <1>4, <1>5, <1>6, <1>7, <1>8, <1>9, <1>10, <1>11

LEMMA NodeStartResults ==
  ASSUME IInv, ResultInv, NEW n \in Node, NodeStart(n)
  PROVE  ResultInv'
<1> USE StatusFacts, NodeIsArchive, SkipsAreNodes DEF jobVars, tableVars, runVars, cancelVars, clientVars, askVars, importVars, fetchVars, IInv, TypeOK, TableInv, ClientInv, CancelInv, Accepted, ResultInv
<1>b. \A m \in Node : Over(m) => m # n /\ Over(m)'
  BY DEF Over, IsDone, NodeStart, Idle, CanStart
<1>1. EarlyInv'
  BY DEF NodeStart, Idle, CanStart, EarlyInv, NotFetched
<1>2. BeforeRunInv'
  BY <1>b DEF NodeStart, Idle, CanStart, BeforeRunInv
<1>3. SkipInv'
  BY <1>b DEF NodeStart, Idle, CanStart, SkipInv
<1>4. AliveInv'
  BY <1>b DEF NodeStart, Idle, CanStart, AliveInv
<1>5. OverInv'
  BY <1>b DEF NodeStart, Idle, CanStart, OverInv, Over
<1>6. TruthInv'
  BY <1>b DEF NodeStart, Idle, CanStart, TruthInv, Verdict, SkipInv, AliveInv, IsDone
<1>7. MessageInv'
  BY <1>b DEF NodeStart, Idle, CanStart, MessageInv, Answered, Verdict, SkipInv, AliveInv
<1>8. FetchInv'
  BY DEF NodeStart, Idle, CanStart, FetchInv, Fetching, TruthInv, SkipInv, IsDone
<1>9. ArchiveInv'
  BY DEF NodeStart, Idle, CanStart, ArchiveInv, FetchInv, SkipInv, NotFetched
<1>10. ImportInv'
  BY <1>b DEF NodeStart, Idle, CanStart, ImportInv, HasManifest, SkipInv, OverInv, Verdict
<1>11. CompletedBringsAll'
  BY <1>b DEF NodeStart, Idle, CanStart, CompletedBringsAll, HasManifest, FetchInv, Fetching, AliveInv, Verdict
<1> QED
  BY <1>1, <1>2, <1>3, <1>4, <1>5, <1>6, <1>7, <1>8, <1>9, <1>10, <1>11

LEMMA ExitResults ==
  ASSUME IInv, ResultInv, NEW n \in Node, Exit(n)
  PROVE  ResultInv'
<1> USE StatusFacts, NodeIsArchive, SkipsAreNodes DEF jobVars, tableVars, runVars, cancelVars, clientVars, askVars, importVars, fetchVars, IInv, TypeOK, TableInv, ClientInv, CancelInv, Accepted, ResultInv
<1>b. \A m \in Node : Over(m) => m # n /\ Over(m)'
  BY DEF Over, Exit
<1>1. EarlyInv'
  BY DEF Exit, EarlyInv, NotFetched
<1>2. BeforeRunInv'
  BY <1>b DEF Exit, BeforeRunInv
<1>3. SkipInv'
  BY <1>b DEF Exit, SkipInv, AliveInv
<1>4. AliveInv'
  BY <1>b DEF Exit, AliveInv
<1>5. OverInv'
  BY <1>b DEF Exit, OverInv, Over
<1>6. TruthInv'
  BY <1>b DEF Exit, TruthInv, Verdict, SkipInv, AliveInv, IsDone
<1>7. MessageInv'
  BY <1>b DEF Exit, MessageInv, Answered, Verdict, SkipInv, AliveInv
<1>8. FetchInv'
  BY DEF Exit, FetchInv, Fetching, NotFetched
<1>9. ArchiveInv'
  BY DEF Exit, ArchiveInv, FetchInv, SkipInv, NotFetched
<1>10. ImportInv'
  BY <1>b DEF Exit, ImportInv, HasManifest, SkipInv, OverInv, Verdict
<1>11. CompletedBringsAll'
  BY <1>b DEF Exit, CompletedBringsAll, HasManifest, FetchInv, Fetching, AliveInv, Verdict
<1> QED
  BY <1>1, <1>2, <1>3, <1>4, <1>5, <1>6, <1>7, <1>8, <1>9, <1>10, <1>11

LEMMA CrashResults ==
  ASSUME IInv, ResultInv, NEW n \in Node, Crash(n)
  PROVE  ResultInv'
<1> USE StatusFacts, NodeIsArchive, SkipsAreNodes DEF jobVars, tableVars, runVars, cancelVars, clientVars, askVars, importVars, fetchVars, IInv, TypeOK, TableInv, ClientInv, CancelInv, Accepted, ResultInv
<1>a. /\ \A m \in Node \ alive : left'[m] = left[m] /\ (m \in failed' <=> m \in failed)
      /\ alive' \subseteq alive
      /\ running' = running
      /\ alive = {} => failed' = failed
  BY KillKeeps DEF Crash
<1>b. \A m \in Node : Over(m) => m \notin alive /\ Over(m)'
  BY <1>a DEF Over, Crash
<1>1. EarlyInv'
  BY DEF Crash, EarlyInv, NotFetched
<1>2. BeforeRunInv'
  BY <1>a, <1>b DEF Crash, BeforeRunInv
<1>3. SkipInv'
  BY <1>a, <1>b DEF Crash, SkipInv, AliveInv
<1>4. AliveInv'
  BY <1>a, <1>b DEF Crash, AliveInv
<1>5. OverInv'
  BY <1>a, <1>b DEF Crash, OverInv, Over
<1>6. TruthInv'
  BY <1>a, <1>b DEF Crash, TruthInv, Verdict, SkipInv, AliveInv, IsDone
<1>7. MessageInv'
  BY <1>a, <1>b DEF Crash, MessageInv, Answered, Verdict, SkipInv, AliveInv
<1>8. FetchInv'
  BY DEF Crash, FetchInv, Fetching, NotFetched
<1>9. ArchiveInv'
  BY DEF Crash, ArchiveInv, FetchInv, SkipInv, NotFetched
<1>10. ImportInv'
  BY <1>a, <1>b DEF Crash, ImportInv, HasManifest, SkipInv, OverInv, Verdict
<1>11. CompletedBringsAll'
  BY <1>a, <1>b DEF Crash, CompletedBringsAll, HasManifest, FetchInv, Fetching, AliveInv, Verdict
<1> QED
  BY <1>1, <1>2, <1>3, <1>4, <1>5, <1>6, <1>7, <1>8, <1>9, <1>10, <1>11

LEMMA ArriveResults ==
  ASSUME IInv, ResultInv, NEW n \in Node, Arrive(n)
  PROVE  ResultInv'
<1> USE StatusFacts, NodeIsArchive, SkipsAreNodes DEF jobVars, tableVars, runVars, cancelVars, clientVars, askVars, importVars, fetchVars, IInv, TypeOK, TableInv, ClientInv, CancelInv, Accepted, ResultInv
<1>b. /\ \A m \in Node : Over(m) => Over(m)'
      /\ record[n] = RUNNING /\ n \notin failed /\ left[n] = "absent" /\ tar[n] # "whole"
  BY DEF Over, Arrive
<1>1. EarlyInv'
  BY DEF Arrive, EarlyInv, NotFetched
<1>2. BeforeRunInv'
  BY <1>b DEF Arrive, BeforeRunInv
<1>3. SkipInv'
  BY <1>b DEF Arrive, SkipInv
<1>4. AliveInv'
  BY <1>b DEF Arrive, AliveInv
<1>5. OverInv'
  BY <1>b DEF Arrive, OverInv, Over
<1>6. TruthInv'
  BY <1>b DEF Arrive, TruthInv, Verdict, SkipInv, AliveInv, IsDone
<1>7. MessageInv'
  <2>1. Verdict(n) = RUNNING /\ \A m \in Node : m # n => (Verdict(m))' = Verdict(m)
    BY <1>b DEF Arrive, Verdict
  <2> QED
    BY <1>b, <2>1 DEF Arrive, MessageInv, Answered, IsDone
<1>8. FetchInv'
  BY DEF Arrive, FetchInv, Fetching, NotFetched
<1>9. ArchiveInv'
  BY DEF Arrive, ArchiveInv, FetchInv, SkipInv, NotFetched
<1>10. ImportInv'
  BY <1>b DEF Arrive, ImportInv, HasManifest, SkipInv, OverInv, Verdict
<1>11. CompletedBringsAll'
  BY <1>b DEF Arrive, CompletedBringsAll, HasManifest, FetchInv, Fetching, AliveInv, Verdict
<1> QED
  BY <1>1, <1>2, <1>3, <1>4, <1>5, <1>6, <1>7, <1>8, <1>9, <1>10, <1>11

LEMMA NodeEndResults ==
  ASSUME IInv, ResultInv, NEW n \in Node, NodeEnd(n)
  PROVE  ResultInv'
<1> USE StatusFacts, NodeIsArchive, SkipsAreNodes DEF jobVars, tableVars, runVars, cancelVars, clientVars, askVars, importVars, fetchVars, IInv, TypeOK, TableInv, ClientInv, CancelInv, Accepted, ResultInv
<1>a. /\ Verdict(n) \in Done \cup {RUNNING} /\ record'[n] = Verdict(n) /\ n \notin alive'
      /\ n \in running /\ record[n] = RUNNING /\ n \notin job.skips
  BY DEF Verdict, NodeEnd, Ended, AliveInv, SkipInv
<1>b. \A m \in Node : Over(m) => m # n /\ Over(m)'
  BY <1>a DEF Over, NodeEnd, Idle
<1>c. Over(n)' /\ \A m \in Node : (Verdict(m))' = Verdict(m)
  BY <1>a DEF Over, Verdict, NodeEnd, Idle
<1>1. EarlyInv'
  BY DEF NodeEnd, Idle, EarlyInv, NotFetched
<1>2. BeforeRunInv'
  BY <1>a, <1>b, <1>c DEF NodeEnd, Idle, BeforeRunInv
<1>3. SkipInv'
  BY <1>a, <1>b, <1>c DEF NodeEnd, Idle, SkipInv
<1>4. AliveInv'
  BY <1>a, <1>b, <1>c DEF NodeEnd, Idle, AliveInv
<1>5. OverInv'
  BY <1>a, <1>b, <1>c DEF NodeEnd, Idle, OverInv, Over
<1>6. TruthInv'
  BY <1>a, <1>b, <1>c DEF NodeEnd, Idle, TruthInv, Verdict, SkipInv, AliveInv, IsDone
<1>7. MessageInv'
  BY <1>a, <1>b, <1>c DEF NodeEnd, Idle, MessageInv, Answered, Verdict, SkipInv, AliveInv
<1>8. FetchInv'
  BY DEF NodeEnd, Idle, FetchInv, Fetching, NotFetched
<1>9. ArchiveInv'
  BY <1>a DEF NodeEnd, Idle, ArchiveInv, OverInv, Over, SkipInv, IsDone
<1>10. ImportInv'
  BY <1>a, <1>b, <1>c DEF NodeEnd, Idle, ImportInv, HasManifest, SkipInv, OverInv, Verdict
<1>11. CompletedBringsAll'
  BY <1>a, <1>b, <1>c DEF NodeEnd, Idle, CompletedBringsAll, HasManifest, FetchInv, Fetching, AliveInv, Verdict
<1> QED
  BY <1>1, <1>2, <1>3, <1>4, <1>5, <1>6, <1>7, <1>8, <1>9, <1>10, <1>11

LEMMA NodeArchivedResults ==
  ASSUME IInv, ResultInv, NEW n \in Node, NodeArchived(n)
  PROVE  ResultInv'
<1> USE StatusFacts, NodeIsArchive, SkipsAreNodes DEF jobVars, tableVars, runVars, cancelVars, clientVars, askVars, importVars, fetchVars, IInv, TypeOK, TableInv, ClientInv, CancelInv, Accepted, ResultInv
<1>b. Over(n) /\ \A m \in Node : Over(m) => Over(m)'
  BY DEF Over, OverInv, NodeArchived
<1>c. n \notin job.skips /\ ~ IsDone(reported[n])
  BY DEF NodeArchived, SkipInv, TruthInv
<1>1. EarlyInv'
  BY DEF NodeArchived, EarlyInv, NotFetched
<1>2. BeforeRunInv'
  BY <1>b, <1>c DEF NodeArchived, BeforeRunInv
<1>3. SkipInv'
  BY <1>b, <1>c DEF NodeArchived, SkipInv
<1>4. AliveInv'
  BY <1>b, <1>c DEF NodeArchived, AliveInv
<1>5. OverInv'
  BY <1>b, <1>c DEF NodeArchived, OverInv, Over
<1>6. TruthInv'
  BY <1>b, <1>c DEF NodeArchived, TruthInv, Verdict, SkipInv, AliveInv, IsDone
<1>7. MessageInv'
  BY <1>b, <1>c DEF NodeArchived, MessageInv, Answered, Verdict
<1>8. FetchInv'
  BY <1>c DEF NodeArchived, FetchInv, Fetching
<1>9. ArchiveInv'
  BY DEF NodeArchived, ArchiveInv, FetchInv, SkipInv, NotFetched
<1>10. ImportInv'
  BY <1>b, <1>c DEF NodeArchived, ImportInv, HasManifest, SkipInv, OverInv, Verdict
<1>11. CompletedBringsAll'
  BY <1>b, <1>c DEF NodeArchived, CompletedBringsAll, HasManifest, FetchInv, Fetching, AliveInv, Verdict
<1> QED
  BY <1>1, <1>2, <1>3, <1>4, <1>5, <1>6, <1>7, <1>8, <1>9, <1>10, <1>11

LEMMA RemoteRunResults ==
  ASSUME IInv, ResultInv, RemoteRun
  PROVE  ResultInv'
<1> USE StatusFacts, NodeIsArchive, SkipsAreNodes DEF jobVars, tableVars, runVars, cancelVars, clientVars, askVars, importVars, fetchVars, IInv, TypeOK, TableInv, ClientInv, CancelInv, Accepted, ResultInv
<1>1. EarlyInv'
  BY DEF RemoteRun, EarlyInv, NotFetched
<1>2. BeforeRunInv'
  BY DEF RemoteRun, BeforeRunInv
<1>3. SkipInv'
  BY DEF RemoteRun, SkipInv
<1>4. AliveInv'
  BY DEF RemoteRun, AliveInv
<1>5. OverInv'
  BY DEF RemoteRun, OverInv, Over
<1>6. TruthInv'
  BY DEF RemoteRun, TruthInv, Verdict, SkipInv, AliveInv, IsDone
<1>7. MessageInv'
  BY DEF RemoteRun, MessageInv, Answered, Verdict, Over, SkipInv, AliveInv
<1>8. FetchInv'
  BY DEF RemoteRun, FetchInv, Fetching, NotFetched
<1>9. ArchiveInv'
  BY DEF RemoteRun, ArchiveInv, FetchInv, SkipInv, NotFetched
<1>10. ImportInv'
  BY DEF RemoteRun, ImportInv, Over, HasManifest, SkipInv, OverInv, Verdict
<1>11. CompletedBringsAll'
  BY DEF RemoteRun, CompletedBringsAll, HasManifest, FetchInv, Fetching, AliveInv, Verdict
<1> QED
  BY <1>1, <1>2, <1>3, <1>4, <1>5, <1>6, <1>7, <1>8, <1>9, <1>10, <1>11

LEMMA CheckProgressResults ==
  ASSUME IInv, ResultInv, CheckProgress
  PROVE  ResultInv'
<1> USE StatusFacts, NodeIsArchive, SkipsAreNodes DEF jobVars, tableVars, runVars, cancelVars, clientVars, askVars, importVars, fetchVars, IInv, TypeOK, TableInv, ClientInv, CancelInv, Accepted, ResultInv
<1>1. EarlyInv'
  BY DEF CheckProgress, JobState, EarlyInv, NotFetched
<1>2. BeforeRunInv'
  BY DEF CheckProgress, JobState, BeforeRunInv
<1>3. SkipInv'
  BY DEF CheckProgress, JobState, SkipInv
<1>4. AliveInv'
  BY DEF CheckProgress, JobState, AliveInv
<1>5. OverInv'
  BY DEF CheckProgress, JobState, OverInv, Over
<1>6. TruthInv'
  BY DEF CheckProgress, JobState, TruthInv, Verdict, SkipInv, AliveInv, IsDone
<1>7. MessageInv'
  <2> SUFFICES ASSUME Answered'
               PROVE  /\ \A a \in Archive : IsDone(message'[a]) => thread = "over" \/ IsDone(reported[a])
                      /\ \A a \in fetched : IsDone(message'[a])
                      /\ \A n \in Node \ job.skips :
                           IsDone(message'[n]) => Over(n) /\ message'[n] = Verdict(n)
    BY DEF CheckProgress, MessageInv, Over, Verdict
  <2>1. /\ message' = reported /\ entry = "nodes" /\ ~ canceled /\ server = "up"
        /\ client = "asking"
    BY DEF CheckProgress, JobState, Answered
  <2>2. thread # "over"
    BY <2>1
  <2>3. \A a \in fetched : IsDone(reported[a])
    BY <2>1, <2>2 DEF FetchInv
  <2>4. ASSUME NEW n \in Node \ job.skips, IsDone(reported[n])
        PROVE  Over(n) /\ reported[n] = Verdict(n)
    <3>1. thread = "running"
      BY <2>1, <2>2, <2>4 DEF BeforeRunInv, Blank, IsDone
    <3>2. reported[n] = Verdict(n) /\ tar[n] = "whole"
      BY <2>4, <3>1 DEF TruthInv
    <3>3. Over(n)
      BY <3>2 DEF OverInv
    <3> QED
      BY <2>2, <3>2, <3>3 DEF Verdict
  <2> QED
    BY <2>1, <2>3, <2>4
<1>8. FetchInv'
  BY DEF CheckProgress, JobState, FetchInv, Fetching, NotFetched
<1>9. ArchiveInv'
  BY DEF CheckProgress, JobState, ArchiveInv, FetchInv, SkipInv, NotFetched
<1>10. ImportInv'
  BY DEF CheckProgress, JobState, ImportInv, Over, HasManifest, SkipInv, OverInv, Verdict
<1>11. CompletedBringsAll'
  BY DEF CheckProgress, JobState, CompletedBringsAll, HasManifest, FetchInv, Fetching, AliveInv, Verdict
<1> QED
  BY <1>1, <1>2, <1>3, <1>4, <1>5, <1>6, <1>7, <1>8, <1>9, <1>10, <1>11

(* A cancellation or a stop touches nothing that a result passes through. *)
LEMMA QuietResults ==
  ASSUME IInv, ResultInv, CancelRequest \/ CancelAnswer \/ CancelJob \/ Stop
  PROVE  ResultInv'
<1> USE StatusFacts, NodeIsArchive, SkipsAreNodes DEF jobVars, tableVars, runVars, cancelVars, clientVars, askVars, importVars, fetchVars, IInv, TypeOK, TableInv, ClientInv, CancelInv, Accepted, ResultInv
<1>a. /\ UNCHANGED <<client, release, stored, fetch, view, tar, local, left, imported, crecord>>
      /\ UNCHANGED <<job, answer, message, thread, reported, fetched, alive, running, failed, record>>
  BY DEF CancelRequest, CancelAnswer, CancelJob, Stop
<1>1. EarlyInv'
  BY <1>a DEF CancelRequest, CancelAnswer, CancelJob, Stop, EarlyInv, NotFetched
<1>2. BeforeRunInv'
  BY <1>a DEF CancelRequest, CancelAnswer, CancelJob, Stop, BeforeRunInv
<1>3. SkipInv'
  BY <1>a DEF CancelRequest, CancelAnswer, CancelJob, Stop, SkipInv
<1>4. AliveInv'
  BY <1>a DEF CancelRequest, CancelAnswer, CancelJob, Stop, AliveInv
<1>5. OverInv'
  BY <1>a DEF CancelRequest, CancelAnswer, CancelJob, Stop, OverInv, Over
<1>6. TruthInv'
  BY <1>a DEF CancelRequest, CancelAnswer, CancelJob, Stop, TruthInv, Verdict, SkipInv, AliveInv, IsDone
<1>7. MessageInv'
  BY <1>a DEF MessageInv, Answered, Verdict, Over
<1>8. FetchInv'
  BY <1>a DEF CancelRequest, CancelAnswer, CancelJob, Stop, FetchInv, Fetching, NotFetched
<1>9. ArchiveInv'
  BY <1>a DEF CancelRequest, CancelAnswer, CancelJob, Stop, ArchiveInv, FetchInv, SkipInv, NotFetched
<1>10. ImportInv'
  BY <1>a DEF ImportInv, Over, HasManifest, Verdict
<1>11. CompletedBringsAll'
  BY <1>a DEF CompletedBringsAll, HasManifest, Verdict
<1> QED
  BY <1>1, <1>2, <1>3, <1>4, <1>5, <1>6, <1>7, <1>8, <1>9, <1>10, <1>11

LEMMA ScancelResults ==
  ASSUME IInv, ResultInv, NEW n \in Node, Scancel(n)
  PROVE  ResultInv'
<1> USE StatusFacts, NodeIsArchive, SkipsAreNodes DEF jobVars, tableVars, runVars, cancelVars, clientVars, askVars, importVars, fetchVars, IInv, TypeOK, TableInv, ClientInv, CancelInv, Accepted, ResultInv
<1>a. /\ \A m \in Node \ alive : left'[m] = left[m] /\ (m \in failed' <=> m \in failed)
      /\ alive' \subseteq alive
      /\ running' = running
      /\ alive = {} => failed' = failed
  BY KillKeeps DEF Scancel
<1>b. \A m \in Node : Over(m) => m \notin alive /\ Over(m)'
  BY <1>a DEF Over, Scancel
<1>1. EarlyInv'
  BY DEF Scancel, EarlyInv, NotFetched
<1>2. BeforeRunInv'
  BY <1>a, <1>b DEF Scancel, BeforeRunInv
<1>3. SkipInv'
  BY <1>a, <1>b DEF Scancel, SkipInv, AliveInv
<1>4. AliveInv'
  BY <1>a, <1>b DEF Scancel, AliveInv
<1>5. OverInv'
  BY <1>a, <1>b DEF Scancel, OverInv, Over
<1>6. TruthInv'
  BY <1>a, <1>b DEF Scancel, TruthInv, Verdict, SkipInv, AliveInv, IsDone
<1>7. MessageInv'
  BY <1>a, <1>b DEF Scancel, MessageInv, Answered, Verdict, SkipInv, AliveInv
<1>8. FetchInv'
  BY DEF Scancel, FetchInv, Fetching, NotFetched
<1>9. ArchiveInv'
  BY DEF Scancel, ArchiveInv, FetchInv, SkipInv, NotFetched
<1>10. ImportInv'
  BY <1>a, <1>b DEF Scancel, ImportInv, HasManifest, SkipInv, OverInv, Verdict
<1>11. CompletedBringsAll'
  BY <1>a, <1>b DEF Scancel, CompletedBringsAll, HasManifest, FetchInv, Fetching, AliveInv, Verdict
<1> QED
  BY <1>1, <1>2, <1>3, <1>4, <1>5, <1>6, <1>7, <1>8, <1>9, <1>10, <1>11

LEMMA StopCancelsResults ==
  ASSUME IInv, ResultInv, StopCancels
  PROVE  ResultInv'
<1> USE StatusFacts, NodeIsArchive, SkipsAreNodes DEF jobVars, tableVars, runVars, cancelVars, clientVars, askVars, importVars, fetchVars, IInv, TypeOK, TableInv, ClientInv, CancelInv, Accepted, ResultInv
<1>a. /\ \A m \in Node \ alive : left'[m] = left[m] /\ (m \in failed' <=> m \in failed)
      /\ alive' \subseteq alive
      /\ running' = running
      /\ alive = {} => failed' = failed
  BY KillKeeps DEF StopCancels
<1>b. \A m \in Node : Over(m) => m \notin alive /\ Over(m)'
  BY <1>a DEF Over, StopCancels
<1>1. EarlyInv'
  BY DEF StopCancels, EarlyInv, NotFetched
<1>2. BeforeRunInv'
  BY <1>a, <1>b DEF StopCancels, BeforeRunInv
<1>3. SkipInv'
  BY <1>a, <1>b DEF StopCancels, SkipInv, AliveInv
<1>4. AliveInv'
  BY <1>a, <1>b DEF StopCancels, AliveInv
<1>5. OverInv'
  BY <1>a, <1>b DEF StopCancels, OverInv, Over
<1>6. TruthInv'
  BY <1>a, <1>b DEF StopCancels, TruthInv, Verdict, SkipInv, AliveInv, IsDone
<1>7. MessageInv'
  BY <1>a, <1>b DEF StopCancels, MessageInv, Answered, Verdict, SkipInv, AliveInv
<1>8. FetchInv'
  BY DEF StopCancels, FetchInv, Fetching, NotFetched
<1>9. ArchiveInv'
  BY DEF StopCancels, ArchiveInv, FetchInv, SkipInv, NotFetched
<1>10. ImportInv'
  BY <1>a, <1>b DEF StopCancels, ImportInv, HasManifest, SkipInv, OverInv, Verdict
<1>11. CompletedBringsAll'
  BY <1>a, <1>b DEF StopCancels, CompletedBringsAll, HasManifest, FetchInv, Fetching, AliveInv, Verdict
<1> QED
  BY <1>1, <1>2, <1>3, <1>4, <1>5, <1>6, <1>7, <1>8, <1>9, <1>10, <1>11

LEMMA StopHaltsResults ==
  ASSUME IInv, ResultInv, StopHalts
  PROVE  ResultInv'
<1> USE StatusFacts, NodeIsArchive, SkipsAreNodes DEF jobVars, tableVars, runVars, cancelVars, clientVars, askVars, importVars, fetchVars, IInv, TypeOK, TableInv, ClientInv, CancelInv, Accepted, ResultInv
<1>a. /\ \A m \in Node \ alive : left'[m] = left[m] /\ (m \in failed' <=> m \in failed)
      /\ alive' \subseteq alive
      /\ running' = running
      /\ alive = {} => failed' = failed
  BY KillKeeps DEF StopHalts
<1>b. \A m \in Node : Over(m) => m \notin alive /\ Over(m)'
  BY <1>a DEF Over, StopHalts
<1>1. EarlyInv'
  BY DEF StopHalts, EarlyInv, NotFetched
<1>2. BeforeRunInv'
  BY <1>a, <1>b DEF StopHalts, BeforeRunInv
<1>3. SkipInv'
  BY <1>a, <1>b DEF StopHalts, SkipInv, AliveInv
<1>4. AliveInv'
  BY <1>a, <1>b DEF StopHalts, AliveInv
<1>5. OverInv'
  BY <1>a, <1>b DEF StopHalts, OverInv, Over
<1>6. TruthInv'
  BY <1>a, <1>b DEF StopHalts, TruthInv, Verdict, SkipInv, AliveInv, IsDone
<1>7. MessageInv'
  BY <1>a, <1>b DEF StopHalts, MessageInv, Answered, Verdict, SkipInv, AliveInv
<1>8. FetchInv'
  BY DEF StopHalts, FetchInv, Fetching, NotFetched
<1>9. ArchiveInv'
  BY DEF StopHalts, ArchiveInv, FetchInv, SkipInv, NotFetched
<1>10. ImportInv'
  BY <1>a, <1>b DEF StopHalts, ImportInv, HasManifest, SkipInv, OverInv, Verdict
<1>11. CompletedBringsAll'
  BY <1>a, <1>b DEF StopHalts, CompletedBringsAll, HasManifest, FetchInv, Fetching, AliveInv, Verdict
<1> QED
  BY <1>1, <1>2, <1>3, <1>4, <1>5, <1>6, <1>7, <1>8, <1>9, <1>10, <1>11

LEMMA DeleteJobResults ==
  ASSUME IInv, ResultInv, DeleteJob
  PROVE  ResultInv'
<1> USE StatusFacts, NodeIsArchive, SkipsAreNodes DEF jobVars, tableVars, runVars, cancelVars, clientVars, askVars, importVars, fetchVars, IInv, TypeOK, TableInv, ClientInv, CancelInv, Accepted, ResultInv
<1>1. EarlyInv'
  BY DEF DeleteJob, NoArchive, EarlyInv, NotFetched
<1>2. BeforeRunInv'
  BY DEF DeleteJob, NoArchive, BeforeRunInv
<1>3. SkipInv'
  BY DEF DeleteJob, NoArchive, SkipInv
<1>4. AliveInv'
  BY DEF DeleteJob, NoArchive, AliveInv
<1>5. OverInv'
  BY DEF DeleteJob, NoArchive, OverInv, Over
<1>6. TruthInv'
  BY DEF DeleteJob, NoArchive, TruthInv, Verdict, SkipInv, AliveInv, IsDone
<1>7. MessageInv'
  BY DEF DeleteJob, NoArchive, MessageInv, Answered, Verdict, Over, SkipInv, AliveInv
<1>8. FetchInv'
  BY DEF DeleteJob, NoArchive, FetchInv, Fetching, NotFetched
<1>9. ArchiveInv'
  BY DEF DeleteJob, NoArchive, ArchiveInv, FetchInv, SkipInv, NotFetched
<1>10. ImportInv'
  BY DEF DeleteJob, NoArchive, ImportInv, Over, HasManifest, SkipInv, OverInv, Verdict
<1>11. CompletedBringsAll'
  BY DEF DeleteJob, NoArchive, CompletedBringsAll, HasManifest, FetchInv, Fetching, AliveInv, Verdict
<1> QED
  BY <1>1, <1>2, <1>3, <1>4, <1>5, <1>6, <1>7, <1>8, <1>9, <1>10, <1>11

LEMMA AskingResults ==
  ASSUME IInv, ResultInv, Post \/ Posted \/ PostFails \/ Poll \/ PollTimesOut \/ ServerGone \/ ReportUnknown
  PROVE  ResultInv'
<1> USE StatusFacts, NodeIsArchive, SkipsAreNodes DEF jobVars, tableVars, runVars, cancelVars, clientVars, askVars, importVars, fetchVars, IInv, TypeOK, TableInv, ClientInv, CancelInv, Accepted, ResultInv
<1>1. EarlyInv'
  BY DEF Post, Posted, PostFails, Poll, PollTimesOut, ServerGone, ReportUnknown, EarlyInv, NotFetched
<1>2. BeforeRunInv'
  BY DEF Post, Posted, PostFails, Poll, PollTimesOut, ServerGone, ReportUnknown, BeforeRunInv
<1>3. SkipInv'
  BY DEF Post, Posted, PostFails, Poll, PollTimesOut, ServerGone, ReportUnknown, SkipInv
<1>4. AliveInv'
  BY DEF Post, Posted, PostFails, Poll, PollTimesOut, ServerGone, ReportUnknown, AliveInv
<1>5. OverInv'
  BY DEF Post, Posted, PostFails, Poll, PollTimesOut, ServerGone, ReportUnknown, OverInv, Over
<1>6. TruthInv'
  BY DEF Post, Posted, PostFails, Poll, PollTimesOut, ServerGone, ReportUnknown, TruthInv, Verdict, SkipInv, AliveInv, IsDone
<1>7. MessageInv'
  BY DEF Post, Posted, PostFails, Poll, PollTimesOut, ServerGone, ReportUnknown, MessageInv, Answered, Verdict, Over, SkipInv, AliveInv
<1>8. FetchInv'
  BY DEF Post, Posted, PostFails, Poll, PollTimesOut, ServerGone, ReportUnknown, FetchInv, Fetching, NotFetched
<1>9. ArchiveInv'
  BY DEF Post, Posted, PostFails, Poll, PollTimesOut, ServerGone, ReportUnknown, ArchiveInv, FetchInv, SkipInv, NotFetched
<1>10. ImportInv'
  BY DEF Post, Posted, PostFails, Poll, PollTimesOut, ServerGone, ReportUnknown, ImportInv, Over, HasManifest, SkipInv, OverInv, Verdict
<1>11. CompletedBringsAll'
  BY DEF Post, Posted, PostFails, Poll, PollTimesOut, ServerGone, ReportUnknown, CompletedBringsAll, HasManifest, FetchInv, Fetching, AliveInv, Verdict
<1> QED
  BY <1>1, <1>2, <1>3, <1>4, <1>5, <1>6, <1>7, <1>8, <1>9, <1>10, <1>11

LEMMA ReportResults ==
  ASSUME IInv, ResultInv, Report
  PROVE  ResultInv'
<1> USE StatusFacts, NodeIsArchive, SkipsAreNodes DEF jobVars, tableVars, runVars, cancelVars, clientVars, askVars, importVars, fetchVars, IInv, TypeOK, TableInv, ClientInv, CancelInv, Accepted, ResultInv
<1> DEFINE S == {x \in DOMAIN message : IsDone(message[x])}
<1>a. \A x \in S : x \in Archive /\ Answered /\ IsDone(message[x])
  BY DEF Report, Listing, NoMessage, Answered
<1>b. \A x \in S : thread = "over" \/ (thread = "running" /\ IsDone(reported[x]))
  BY <1>a DEF MessageInv, BeforeRunInv, Blank, IsDone
<1>c. /\ fetched' = fetched \cup S /\ local' = local
      /\ fetch' = [x \in Archive |-> IF x \in S \ fetched THEN "queued" ELSE fetch[x]]
  BY DEF Report, Schedule
<1> HIDE DEF S
<1>1. EarlyInv'
  BY <1>c DEF Report, EarlyInv, NotFetched
<1>2. BeforeRunInv'
  BY <1>c DEF Report, BeforeRunInv
<1>3. SkipInv'
  BY <1>c DEF Report, SkipInv
<1>4. AliveInv'
  BY <1>c DEF Report, AliveInv
<1>5. OverInv'
  BY <1>c DEF Report, OverInv, Over
<1>6. TruthInv'
  BY <1>c DEF Report, TruthInv, Verdict, SkipInv, AliveInv, IsDone
<1>7. MessageInv'
  BY <1>c DEF Report, MessageInv, Answered, Verdict, Over, SkipInv, AliveInv
<1>8. FetchInv'
  BY <1>a, <1>b, <1>c DEF Report, FetchInv, Fetching
<1>9. ArchiveInv'
  <2>1. \A x \in S \ job.skips : tar[x] = "whole" \/ thread = "over"
    BY <1>a, <1>b DEF TruthInv
  <2> QED
    BY <1>a, <1>c, <2>1 DEF Report, ArchiveInv, FetchInv
<1>10. ImportInv'
  <2>1. CASE message = NoMessage
    BY <1>c, <2>1 DEF Report, ImportInv, Over, HasManifest, Verdict
  <2>2. CASE message # NoMessage
    <3>1. Answered /\ message \in Listing /\ \A n \in Node : crecord'[n] = message[n]
      BY <2>2 DEF Report, Answered
    <3>2. \A n \in Node : IsDone(message[n]) => n \in S
      BY <3>1 DEF S, Listing
    <3>3. \A n \in Node \ job.skips : n \in S => Over(n) /\ message[n] = Verdict(n)
      BY <1>a, <3>1 DEF MessageInv
    <3>4. ASSUME NEW n \in Node, crecord'[n] = SKIPPED
          PROVE  n \in job.skips \/ (Over(n) /\ left[n] = SKIPPED /\ n \in fetched')
      <4>1. n \in S
        BY <3>1, <3>2, <3>4 DEF IsDone
      <4> QED
        BY <1>c, <3>1, <3>3, <3>4, <4>1 DEF Verdict
    <3>5. ASSUME NEW n \in imported \ {0}, n \notin job.skips
          PROVE  n \in fetched' /\ Over(n) /\ HasManifest(n) /\ crecord'[n] \in {left[n], Verdict(n)}
      <4>1. n \in Node /\ n \in fetched /\ Over(n) /\ HasManifest(n)
        BY <3>5 DEF ImportInv
      <4>2. IsDone(message[n])
        BY <3>1, <4>1 DEF MessageInv
      <4> QED
        BY <1>c, <3>1, <3>2, <3>3, <3>5, <4>1, <4>2
    <3> QED
      BY <3>4, <3>5 DEF Report, ImportInv, Over, HasManifest, Verdict
  <2> QED
    BY <2>1, <2>2
<1>11. CompletedBringsAll'
  BY <1>c DEF Report, CompletedBringsAll, HasManifest, FetchInv, Fetching, AliveInv, Verdict
<1> QED
  BY <1>1, <1>2, <1>3, <1>4, <1>5, <1>6, <1>7, <1>8, <1>9, <1>10, <1>11

LEMMA ReleasedResults ==
  ASSUME IInv, ResultInv, Released
  PROVE  ResultInv'
<1> USE StatusFacts, NodeIsArchive, SkipsAreNodes DEF jobVars, tableVars, runVars, cancelVars, clientVars, askVars, importVars, fetchVars, IInv, TypeOK, TableInv, ClientInv, CancelInv, Accepted, ResultInv
<1>1. EarlyInv'
  BY DEF Released, Schedule, EarlyInv, NotFetched
<1>2. BeforeRunInv'
  BY DEF Released, Schedule, BeforeRunInv
<1>3. SkipInv'
  BY DEF Released, Schedule, SkipInv
<1>4. AliveInv'
  BY DEF Released, Schedule, AliveInv
<1>5. OverInv'
  BY DEF Released, Schedule, OverInv, Over
<1>6. TruthInv'
  BY DEF Released, Schedule, TruthInv, Verdict, SkipInv, AliveInv, IsDone
<1>7. MessageInv'
  BY DEF Released, Schedule, MessageInv, Answered, Verdict, Over, SkipInv, AliveInv
<1>8. FetchInv'
  BY DEF Released, Schedule, FetchInv, Fetching, NotFetched
<1>9. ArchiveInv'
  BY DEF Released, Schedule, ArchiveInv, FetchInv, SkipInv, NotFetched
<1>10. ImportInv'
  BY DEF Released, Schedule, ImportInv, Over, HasManifest, SkipInv, OverInv, Verdict
<1>11. CompletedBringsAll'
  BY DEF Released, Schedule, CompletedBringsAll, HasManifest, FetchInv, Fetching, AliveInv, Verdict
<1> QED
  BY <1>1, <1>2, <1>3, <1>4, <1>5, <1>6, <1>7, <1>8, <1>9, <1>10, <1>11

LEMMA DisconnectResults ==
  ASSUME IInv, ResultInv, Disconnect
  PROVE  ResultInv'
<1> USE StatusFacts, NodeIsArchive, SkipsAreNodes DEF jobVars, tableVars, runVars, cancelVars, clientVars, askVars, importVars, fetchVars, IInv, TypeOK, TableInv, ClientInv, CancelInv, Accepted, ResultInv
<1>1. EarlyInv'
  BY DEF Disconnect, Waiting, EarlyInv, NotFetched
<1>2. BeforeRunInv'
  BY DEF Disconnect, Waiting, BeforeRunInv
<1>3. SkipInv'
  BY DEF Disconnect, Waiting, SkipInv
<1>4. AliveInv'
  BY DEF Disconnect, Waiting, AliveInv
<1>5. OverInv'
  BY DEF Disconnect, Waiting, OverInv, Over
<1>6. TruthInv'
  BY DEF Disconnect, Waiting, TruthInv, Verdict, SkipInv, AliveInv, IsDone
<1>7. MessageInv'
  BY DEF Disconnect, Waiting, MessageInv, Answered, Verdict, Over, SkipInv, AliveInv
<1>8. FetchInv'
  BY DEF Disconnect, Waiting, FetchInv, Fetching, NotFetched
<1>9. ArchiveInv'
  BY DEF Disconnect, Waiting, ArchiveInv, FetchInv, SkipInv, NotFetched
<1>10. ImportInv'
  BY DEF Disconnect, Waiting, ImportInv, Over, HasManifest, SkipInv, OverInv, Verdict
<1>11. CompletedBringsAll'
  BY DEF Disconnect, Waiting, CompletedBringsAll, HasManifest, FetchInv, Fetching, AliveInv, Verdict
<1> QED
  BY <1>1, <1>2, <1>3, <1>4, <1>5, <1>6, <1>7, <1>8, <1>9, <1>10, <1>11

LEMMA ReconnectResults ==
  ASSUME IInv, ResultInv, Reconnect
  PROVE  ResultInv'
<1> USE StatusFacts, NodeIsArchive, SkipsAreNodes DEF jobVars, tableVars, runVars, cancelVars, clientVars, askVars, importVars, fetchVars, IInv, TypeOK, TableInv, ClientInv, CancelInv, Accepted, ResultInv
<1>1. EarlyInv'
  BY DEF Reconnect, EarlyInv, NotFetched
<1>2. BeforeRunInv'
  BY DEF Reconnect, BeforeRunInv
<1>3. SkipInv'
  BY DEF Reconnect, SkipInv
<1>4. AliveInv'
  BY DEF Reconnect, AliveInv
<1>5. OverInv'
  BY DEF Reconnect, OverInv, Over
<1>6. TruthInv'
  BY DEF Reconnect, TruthInv, Verdict, SkipInv, AliveInv, IsDone
<1>7. MessageInv'
  BY DEF Reconnect, MessageInv, Answered, Verdict, Over, SkipInv, AliveInv
<1>8. FetchInv'
  BY DEF Reconnect, FetchInv, Fetching, NotFetched
<1>9. ArchiveInv'
  BY DEF Reconnect, ArchiveInv, FetchInv, SkipInv, NotFetched
<1>10. ImportInv'
  BY DEF Reconnect, ImportInv, Over, HasManifest, SkipInv, OverInv, Verdict
<1>11. CompletedBringsAll'
  BY DEF Reconnect, CompletedBringsAll, HasManifest, FetchInv, Fetching, AliveInv, Verdict
<1> QED
  BY <1>1, <1>2, <1>3, <1>4, <1>5, <1>6, <1>7, <1>8, <1>9, <1>10, <1>11

LEMMA FetchNothingResults ==
  ASSUME IInv, ResultInv, NEW a \in Archive, FetchNothing(a)
  PROVE  ResultInv'
<1> USE StatusFacts, NodeIsArchive, SkipsAreNodes DEF jobVars, tableVars, runVars, cancelVars, clientVars, askVars, importVars, fetchVars, IInv, TypeOK, TableInv, ClientInv, CancelInv, Accepted, ResultInv
<1>1. EarlyInv'
  BY DEF FetchNothing, EarlyInv, NotFetched
<1>2. BeforeRunInv'
  BY DEF FetchNothing, BeforeRunInv
<1>3. SkipInv'
  BY DEF FetchNothing, SkipInv
<1>4. AliveInv'
  BY DEF FetchNothing, AliveInv
<1>5. OverInv'
  BY DEF FetchNothing, OverInv, Over
<1>6. TruthInv'
  BY DEF FetchNothing, TruthInv, Verdict, SkipInv, AliveInv, IsDone
<1>7. MessageInv'
  BY DEF FetchNothing, MessageInv, Answered, Verdict, Over, SkipInv, AliveInv
<1>8. FetchInv'
  BY DEF FetchNothing, FetchInv, Fetching, NotFetched
<1>9. ArchiveInv'
  BY DEF FetchNothing, ArchiveInv, FetchInv, SkipInv, NotFetched
<1>10. ImportInv'
  BY DEF FetchNothing, ImportInv, Over, HasManifest, SkipInv, OverInv, Verdict
<1>11. CompletedBringsAll'
  BY DEF FetchNothing, CompletedBringsAll, HasManifest, FetchInv, Fetching, AliveInv, Verdict
<1> QED
  BY <1>1, <1>2, <1>3, <1>4, <1>5, <1>6, <1>7, <1>8, <1>9, <1>10, <1>11

LEMMA FetchBeginsResults ==
  ASSUME IInv, ResultInv, NEW a \in Archive, FetchBegins(a)
  PROVE  ResultInv'
<1> USE StatusFacts, NodeIsArchive, SkipsAreNodes DEF jobVars, tableVars, runVars, cancelVars, clientVars, askVars, importVars, fetchVars, IInv, TypeOK, TableInv, ClientInv, CancelInv, Accepted, ResultInv
<1>1. EarlyInv'
  BY DEF FetchBegins, EarlyInv, NotFetched
<1>2. BeforeRunInv'
  BY DEF FetchBegins, BeforeRunInv
<1>3. SkipInv'
  BY DEF FetchBegins, SkipInv
<1>4. AliveInv'
  BY DEF FetchBegins, AliveInv
<1>5. OverInv'
  BY DEF FetchBegins, OverInv, Over
<1>6. TruthInv'
  BY DEF FetchBegins, TruthInv, Verdict, SkipInv, AliveInv, IsDone
<1>7. MessageInv'
  BY DEF FetchBegins, MessageInv, Answered, Verdict, Over, SkipInv, AliveInv
<1>8. FetchInv'
  BY DEF FetchBegins, FetchInv, Fetching, NotFetched
<1>9. ArchiveInv'
  BY DEF FetchBegins, ArchiveInv, FetchInv, SkipInv, NotFetched
<1>10. ImportInv'
  BY DEF FetchBegins, ImportInv, Over, HasManifest, SkipInv, OverInv, Verdict
<1>11. CompletedBringsAll'
  BY DEF FetchBegins, CompletedBringsAll, HasManifest, FetchInv, Fetching, AliveInv, Verdict
<1> QED
  BY <1>1, <1>2, <1>3, <1>4, <1>5, <1>6, <1>7, <1>8, <1>9, <1>10, <1>11

LEMMA FetchEndsResults ==
  ASSUME IInv, ResultInv, NEW a \in Archive, FetchEnds(a)
  PROVE  ResultInv'
<1> USE StatusFacts, NodeIsArchive, SkipsAreNodes DEF jobVars, tableVars, runVars, cancelVars, clientVars, askVars, importVars, fetchVars, IInv, TypeOK, TableInv, ClientInv, CancelInv, Accepted, ResultInv
<1>1. EarlyInv'
  BY DEF FetchEnds, EarlyInv, NotFetched
<1>2. BeforeRunInv'
  BY DEF FetchEnds, BeforeRunInv, ArchiveInv
<1>3. SkipInv'
  BY DEF FetchEnds, SkipInv
<1>4. AliveInv'
  BY DEF FetchEnds, AliveInv
<1>5. OverInv'
  BY DEF FetchEnds, OverInv, Over, ArchiveInv
<1>6. TruthInv'
  BY DEF FetchEnds, TruthInv, Verdict, SkipInv, AliveInv, IsDone
<1>7. MessageInv'
  BY DEF FetchEnds, MessageInv, Answered, Verdict, Over, SkipInv, AliveInv
<1>8. FetchInv'
  BY DEF FetchEnds, FetchInv, Fetching, NotFetched
<1>9. ArchiveInv'
  BY DEF FetchEnds, ArchiveInv, FetchInv, SkipInv, NotFetched
<1>10. ImportInv'
  BY DEF FetchEnds, ImportInv, Over, HasManifest, SkipInv, OverInv, Verdict
<1>11. CompletedBringsAll'
  BY DEF FetchEnds, CompletedBringsAll, HasManifest, FetchInv, Fetching, AliveInv, Verdict
<1> QED
  BY <1>1, <1>2, <1>3, <1>4, <1>5, <1>6, <1>7, <1>8, <1>9, <1>10, <1>11

LEMMA FetchFailsResults ==
  ASSUME IInv, ResultInv, NEW a \in Archive, FetchFails(a)
  PROVE  ResultInv'
<1> USE StatusFacts, NodeIsArchive, SkipsAreNodes DEF jobVars, tableVars, runVars, cancelVars, clientVars, askVars, importVars, fetchVars, IInv, TypeOK, TableInv, ClientInv, CancelInv, Accepted, ResultInv
<1>1. EarlyInv'
  BY DEF FetchFails, EarlyInv, NotFetched
<1>2. BeforeRunInv'
  BY DEF FetchFails, BeforeRunInv
<1>3. SkipInv'
  BY DEF FetchFails, SkipInv
<1>4. AliveInv'
  BY DEF FetchFails, AliveInv
<1>5. OverInv'
  BY DEF FetchFails, OverInv, Over
<1>6. TruthInv'
  BY DEF FetchFails, TruthInv, Verdict, SkipInv, AliveInv, IsDone
<1>7. MessageInv'
  BY DEF FetchFails, MessageInv, Answered, Verdict, Over, SkipInv, AliveInv
<1>8. FetchInv'
  BY DEF FetchFails, FetchInv, Fetching, NotFetched
<1>9. ArchiveInv'
  BY DEF FetchFails, ArchiveInv, FetchInv, SkipInv, NotFetched
<1>10. ImportInv'
  BY DEF FetchFails, ImportInv, Over, HasManifest, SkipInv, OverInv, Verdict
<1>11. CompletedBringsAll'
  BY DEF FetchFails, CompletedBringsAll, HasManifest, FetchInv, Fetching, AliveInv, Verdict
<1> QED
  BY <1>1, <1>2, <1>3, <1>4, <1>5, <1>6, <1>7, <1>8, <1>9, <1>10, <1>11

(* What an import leaves: of what it has imported, and of what it knows to *)
(* be skipped, it has what the nodes left, and it imports all that is      *)
(* there as a whole.                                                       *)
LEMMA ImportKeeps ==
  ASSUME IInv, ResultInv, Import
  PROVE  /\ imported' # {} => 0 \in imported'
         /\ \A n \in Node : crecord'[n] = SKIPPED =>
              n \in job.skips \/ (Over(n) /\ left[n] = SKIPPED /\ n \in fetched)
         /\ \A n \in imported' \ {0} :
              \/ n \in job.skips
              \/ n \in fetched /\ Over(n) /\ HasManifest(n) /\ crecord'[n] \in {left[n], Verdict(n)}
         /\ 0 \in fetched /\ local[0] = "whole" =>
              \A n \in view \cap fetched : local[n] = "whole" /\ HasManifest(n) => n \in imported'
<1> USE NodeIsArchive, StatusFacts, SkipsAreNodes DEF IInv, TypeOK
<1>1. PICK ready \in SUBSET {a \in fetched : local[a] = "partial"},
           torn \in SUBSET {a \in fetched : local[a] = "partial"} :
        LET there  == ready \cup {a \in fetched : local[a] = "whole"}
            before == IF 0 \in imported THEN crecord ELSE SetupRecord
            due    == view \ imported
            replay == {n \in due \cap there : HasManifest(n)}
            none   == {n \in due \ (torn \cup replay) : before[n] = SKIPPED}
        IN  IF 0 \notin imported \cup there THEN UNCHANGED importVars
            ELSE /\ imported' = imported \cup {0} \cup replay \cup none
                 /\ crecord' = [n \in Node |-> IF n \in replay THEN left[n] ELSE before[n]]
  BY DEF Import
<1> DEFINE there  == ready \cup {a \in fetched : local[a] = "whole"}
           before == IF 0 \in imported THEN crecord ELSE SetupRecord
           due    == view \ imported
           replay == {n \in due \cap there : HasManifest(n)}
           none   == {n \in due \ (torn \cup replay) : before[n] = SKIPPED}
<1>2. CASE 0 \notin imported \cup there
  <2>1. UNCHANGED <<crecord, imported>>
    BY <1>1, <1>2 DEF importVars
  <2>2. ~ (0 \in fetched /\ local[0] = "whole")
    BY <1>2
  <2> QED
    BY <2>1, <2>2 DEF ResultInv, ImportInv
<1>3. CASE 0 \in imported \cup there
  <2>1. /\ imported' = imported \cup {0} \cup replay \cup none
        /\ crecord' = [n \in Node |-> IF n \in replay THEN left[n] ELSE before[n]]
    BY <1>1, <1>3
  <2>2. \A n \in replay : n \in Node /\ n \in fetched /\ Over(n) /\ HasManifest(n) /\ n \notin imported
    BY DEF ResultInv, OverInv
  <2>3. \A n \in Node : before[n] = SKIPPED =>
          n \in job.skips \/ (Over(n) /\ left[n] = SKIPPED /\ n \in fetched)
    BY DEF ResultInv, ImportInv, SetupRecord
  <2>4. \A n \in imported \ {0} :
          /\ n \in Node
          /\ n \in job.skips \/ (n \in fetched /\ Over(n) /\ HasManifest(n) /\ before[n] \in {left[n], Verdict(n)})
    BY DEF ResultInv, ImportInv
  <2>5. \A n \in none : n \in Node /\ before[n] = SKIPPED /\ n \notin replay
    OBVIOUS
  <2>6. \A n \in view \cap fetched :
          local[n] = "whole" /\ HasManifest(n) => n \in imported \cup replay
    OBVIOUS
  <2> HIDE DEF there, before, due, replay, none
  <2>7. \A n \in Node : crecord'[n] = IF n \in replay THEN left[n] ELSE before[n]
    BY <2>1
  <2>8. \A n \in Node : crecord'[n] = SKIPPED =>
          n \in job.skips \/ (Over(n) /\ left[n] = SKIPPED /\ n \in fetched)
    BY <2>2, <2>3, <2>7
  <2>9. ASSUME NEW n \in imported' \ {0}, n \notin job.skips
        PROVE  n \in fetched /\ Over(n) /\ HasManifest(n) /\ crecord'[n] \in {left[n], Verdict(n)}
    <3>1. CASE n \in replay
      BY <3>1, <2>2, <2>7
    <3>2. CASE n \in imported
      BY <3>2, <2>2, <2>4, <2>7, <2>9
    <3>3. CASE n \in none
      BY <3>3, <2>3, <2>5, <2>7, <2>9 DEF HasManifest
    <3> QED
      BY <2>1, <2>9, <3>1, <3>2, <3>3
  <2> QED
    BY <2>1, <2>6, <2>8, <2>9
<1> QED
  BY <1>2, <1>3

LEMMA ImportPassResults ==
  ASSUME IInv, ResultInv, ImportPass
  PROVE  ResultInv'
<1> USE NodeIsArchive DEF jobVars, tableVars, runVars, cancelVars, askVars, fetchVars, ResultInv
<1>1. Import /\ client = "loop"
  BY DEF ImportPass
<1>2. upload = "accepted"
  BY <1>1 DEF IInv, ClientInv
<1>3. EarlyInv' /\ BeforeRunInv' /\ SkipInv' /\ AliveInv' /\ OverInv' /\ TruthInv'
  BY <1>2 DEF ImportPass, EarlyInv, BeforeRunInv, SkipInv, AliveInv, OverInv, Over, TruthInv, Verdict
<1>4. MessageInv' /\ FetchInv' /\ ArchiveInv' /\ CompletedBringsAll'
  BY <1>1 DEF ImportPass, MessageInv, Answered, Over, FetchInv, Fetching, ArchiveInv, CompletedBringsAll
<1>5. ImportInv'
  BY <1>1, ImportKeeps DEF ImportPass, ImportInv, Over, HasManifest, Verdict
<1> QED
  BY <1>3, <1>4, <1>5

LEMMA FinishResults ==
  ASSUME IInv, ResultInv, Finish
  PROVE  ResultInv'
<1> USE NodeIsArchive DEF jobVars, tableVars, runVars, cancelVars, askVars, fetchVars, ResultInv
<1>1. Import /\ client = "joining" /\ client' = "done" /\ ~ Fetching
  BY DEF Finish
<1>2. upload = "accepted"
  BY <1>1 DEF IInv, ClientInv
<1>3. EarlyInv' /\ BeforeRunInv' /\ SkipInv' /\ AliveInv' /\ OverInv' /\ TruthInv'
  BY <1>2 DEF Finish, EarlyInv, BeforeRunInv, SkipInv, AliveInv, OverInv, Over, TruthInv, Verdict
<1>4. MessageInv' /\ FetchInv' /\ ArchiveInv'
  BY <1>1 DEF Finish, MessageInv, Answered, FetchInv, Fetching, ArchiveInv
<1>5. ImportInv'
  BY <1>1, ImportKeeps DEF Finish, ImportInv, Over, HasManifest, Verdict
<1>6. CompletedBringsAll'
  <2> SUFFICES ASSUME release = "completed", stored, \A a \in Archive : fetch[a] # "failed",
                      NEW n \in view, tar[0] = "whole", tar[n] = "whole"
               PROVE  /\ local[n] = "whole"
                      /\ HasManifest(n) => n \in imported' /\ crecord'[n] \in {left[n], Verdict(n)}
    BY DEF Finish, CompletedBringsAll, HasManifest, Verdict
  <2>1. n \in fetched /\ 0 \in fetched /\ n \in Node
    BY <1>1 DEF FetchInv, IInv, TypeOK
  <2>2. fetch[n] = "over" /\ fetch[0] = "over"
    BY <1>1, <2>1 DEF FetchInv, Fetching, IInv, TypeOK
  <2>3. local[n] = "whole" /\ local[0] = "whole"
    BY <2>1, <2>2 DEF ArchiveInv
  <2>4. HasManifest(n) => n \in imported'
    BY <1>1, <2>1, <2>3, ImportKeeps
  <2>5. n \notin job.skips
    BY DEF SkipInv
  <2> QED
    BY <1>1, <2>1, <2>3, <2>4, <2>5, ImportKeeps
<1> QED
  BY <1>3, <1>4, <1>5, <1>6

(* Nothing has been reported when the client starts. *)
LEMMA InitResults == Init => ResultInv
<1> SUFFICES ASSUME Init PROVE ResultInv
  OBVIOUS
<1> USE StatusFacts, NodeIsArchive DEF Init
<1>1. EarlyInv /\ BeforeRunInv /\ AliveInv /\ TruthInv /\ MessageInv /\ CompletedBringsAll
  BY DEF EarlyInv, BeforeRunInv, AliveInv, TruthInv, MessageInv, Answered, CompletedBringsAll, NoArchive, Blank
<1>2. SkipInv /\ OverInv
  BY SkipsAreNodes DEF SkipInv, OverInv, NoArchive
<1>3. FetchInv /\ ArchiveInv /\ ImportInv
  BY DEF FetchInv, ArchiveInv, ImportInv, NotFetched, Fetching
<1> QED
  BY <1>1, <1>2, <1>3 DEF ResultInv

(* Each action keeps ResultInv. *)
LEMMA ResultStep ==
  ASSUME IInv, ResultInv, [Next]_vars
  PROVE  ResultInv'
<1>1. CASE UNCHANGED vars
  BY <1>1 DEF vars, jobVars, tableVars, runVars, cancelVars, clientVars, askVars, importVars, fetchVars,
     ResultInv, EarlyInv, BeforeRunInv, SkipInv, AliveInv, OverInv, Over, TruthInv, Verdict, MessageInv,
     Answered, FetchInv, Fetching, ArchiveInv, ImportInv, CompletedBringsAll, HasManifest
<1>2. CASE Job \/ Mishap
  BY <1>2, ListNodesResults, SetUpResults, RunStartResults, JobEndsResults, JobFailsResults,
     CallbackRaisesResults, NodeStartResults, ExitResults, NodeEndResults, NodeArchivedResults,
     ReplayRaisesResults, CrashResults, ArriveResults DEF Job, Mishap
<1>3. CASE Requests
  BY <1>3, RemoteRunResults, CheckProgressResults, QuietResults, ScancelResults, StopCancelsResults,
     StopHaltsResults, DeleteJobResults DEF Requests
<1>4. CASE ClientSteps
  BY <1>4, AskingResults, ReportResults, ReleasedResults, DisconnectResults, ReconnectResults,
     FetchNothingResults, FetchBeginsResults, FetchEndsResults, FetchFailsResults, ImportPassResults,
     FinishResults DEF ClientSteps, Client, Fetch
<1> QED
  BY <1>1, <1>2, <1>3, <1>4 DEF Next, Mishap, Requests, ClientSteps

(* A client that waits to the end of a job that is then over, and whose    *)
(* downloads all work, has what every node that it asked for has left, and *)
(* of each the status that is in its manifest or that its exit code gave.  *)
THEOREM ResultsArrive == Spec => []CompletedBringsAll
<1>1. Init => IInv /\ ResultInv
  BY InitInv, InitResults
<1>2. IInv /\ ResultInv /\ [Next]_vars => (IInv /\ ResultInv)'
  BY NextStep, ResultStep
<1>3. ResultInv => CompletedBringsAll
  BY DEF ResultInv
<1> QED
  BY <1>1, <1>2, <1>3, PTL DEF Spec
=============================================================================

---------------------------- MODULE NodeProcess -----------------------------
(***************************************************************************)
(* The process of one node: SchedulerNode.run() with execute() and halt(), *)
(* Task.run_task() watching over the tool, and the wrappers of docker.py   *)
(* and slurm.py that have run() done elsewhere.                            *)
(*                                                                         *)
(* "outer" is the process the task scheduler forked; "inner" is run_node   *)
(* in a container or on a compute node.  The tool is a process with, at    *)
(* most, one helper of its own.  Interrupts (Ctrl-C) and kills arrive      *)
(* between any two steps.                                                  *)
(***************************************************************************)
EXTENDS NodeOutcome, Integers, FiniteSets

CONSTANTS
  Settings,       \* the nodes considered (see SettingType)
  MaxInterrupts   \* bound: interrupts that reach the node

(***************************************************************************)
(* runner: who executes the node; tool: Task.run() in Python, an           *)
(* executable, or one on a terminal with a breakpoint; timeout: one is     *)
(* set; keepOn: option.continue; enforce: enforce_outputfiles, and the     *)
(* node is no builtin.                                                     *)
(***************************************************************************)
SettingType ==
  [runner  : {"local", "docker", "slurm"},
   tool    : {"python", "exe", "breakpoint"},
   timeout : BOOLEAN,
   keepOn  : BOOLEAN,
   enforce : BOOLEAN]

ASSUME Assumptions == Settings \subseteq SettingType /\ MaxInterrupts \in Nat

VARIABLES
  cfg,         \* the node's setting; never changes
  pc,          \* where each process is
  code,        \* the exit code each process has, or is about to have
  status,      \* the node's status in the record of whoever runs run()
  error,       \* SchedulerNode.__error
  errors,      \* the errors metric is above zero
  rc,          \* the tool's return code
  outputs,     \* do the files in outputs/ match the task's
  alive,       \* processes of the tool that are alive
  listed,      \* those __terminate_exe() knows of
  manifest,    \* the node's output manifest, as it was written
  visible,     \* the outer process sees what the inner one wrote
  interrupts,  \* interrupts that have arrived
  excuses      \* what went wrong that the code does not handle

control == <<pc, code>>
record  == <<status, error, errors, outputs>>
tool    == <<rc, alive, listed>>
disk    == <<manifest, visible>>
outside == <<interrupts, excuses>>
vars    == <<cfg, control, record, tool, disk, outside>>

Procs == {"outer", "inner"}
Local == cfg.runner = "local"

\* The process that executes SchedulerNode.run().
Worker == IF Local THEN "outer" ELSE "inner"

RunSteps  == {"setup", "pre", "version", "run", "term", "kill", "post", "check",
              "save", "saving", "verdict", "outputs", "leave"}
WrapSteps == {"prepare", "wait", "fetch", "stop"}
HaltSteps == {"halt", "halting"}
Place     == {"off", "gone"} \cup RunSteps \cup WrapSteps \cup HaltSteps

ToolProcs == {"main", "helper"}

\* What can leave a process of the tool behind, and what the manifest of a
\* node that failed.
Abandoning == {"killed", "poll", "orphan", "left", "unkilled", "unstopped"}
Misleading == {"killed", "raised", "unsaved", "late"}

Seen == IF visible THEN manifest ELSE "absent"

Init ==
  /\ cfg \in Settings
  /\ pc = IF Local THEN [p \in Procs |-> IF p = "outer" THEN "setup" ELSE "off"]
          ELSE [p \in Procs |-> IF p = "outer" THEN "prepare" ELSE "off"]
  /\ code = [p \in Procs |-> 0]
  /\ status = PENDING
  /\ error = FALSE
  /\ errors = FALSE
  /\ rc = "none"
  /\ outputs = "unknown"
  /\ alive = {}
  /\ listed = {}
  /\ manifest = "absent"
  /\ visible = Local
  /\ interrupts = 0
  /\ excuses = {}

At(p, s) == pc[p] = s

Goto(p, s) == pc' = [pc EXCEPT ![p] = s] /\ UNCHANGED code

\* The process ends with exit code c; docker.py first stops its container.
End(p, c) ==
  /\ pc' = [pc EXCEPT ![p] = IF p = "outer" /\ cfg.runner = "docker" THEN "stop" ELSE "gone"]
  /\ code' = [code EXCEPT ![p] = c]

\* What the inner process writes reaches the outer one late on a network
\* file system.
Put(p, s) ==
  /\ manifest' = s
  /\ visible' = (visible \/ p = "outer" \/ cfg.runner # "slurm")

Excuse(e) == excuses' = excuses \cup {e} /\ UNCHANGED interrupts

-----------------------------------------------------------------------------
(***************************************************************************)
(* SchedulerNode.halt()                                                    *)
(***************************************************************************)
\* Mutant: the manifest is left as it is.
HaltWithoutManifest(p) ==
  /\ At(p, "halt")
  /\ End(p, 1)
  /\ UNCHANGED <<cfg, record, tool, disk, outside>>

HaltOpen(p) ==
  /\ At(p, "halt")
  /\ Goto(p, "halting")
  /\ Put(p, "torn")
  /\ UNCHANGED <<cfg, record, tool, outside>>

HaltWrite(p) ==
  /\ At(p, "halting")
  /\ End(p, 1)
  /\ Put(p, ERROR)
  /\ UNCHANGED <<cfg, record, tool, outside>>

\* Nothing raised in halt() gets out: the directory may be gone, the disk
\* full.
HaltUnsaved(p) ==
  /\ pc[p] \in HaltSteps
  /\ End(p, 1)
  /\ Excuse("unsaved")
  /\ UNCHANGED <<cfg, record, tool, disk>>

Halt(p) == HaltOpen(p) \/ HaltWrite(p) \/ HaltUnsaved(p)

-----------------------------------------------------------------------------
(***************************************************************************)
(* SchedulerNode.run() and execute(), by the worker.                       *)
(***************************************************************************)
Setup ==
  /\ At(Worker, "setup")
  /\ \/ Goto(Worker, "pre") \/ Goto(Worker, "halt")   \* inputs, validate()
     \/ End(Worker, 1)                                \* raises outside execute()
  /\ UNCHANGED <<cfg, record, tool, disk, outside>>

\* TaskSkip: the files of the inputs are forwarded, no tool is run.
PreProcessSkips ==
  /\ At(Worker, "pre")
  /\ status' = SKIPPED
  /\ Goto(Worker, "check")
  /\ UNCHANGED <<cfg, error, errors, outputs, tool, disk, outside>>

PreProcess ==
  /\ At(Worker, "pre")
  /\ \/ Goto(Worker, "version") \/ Goto(Worker, "halt")
  /\ UNCHANGED <<cfg, record, tool, disk, outside>>

\* The executable and its version are right, and the tool is started.
StartTool ==
  /\ At(Worker, "version")
  /\ Goto(Worker, "run")
  /\ alive' = IF cfg.tool = "python" THEN {} ELSE {"main"}
  /\ UNCHANGED <<cfg, record, rc, listed, disk, outside>>

NoTool ==
  /\ At(Worker, "version")
  /\ Goto(Worker, "halt")
  /\ UNCHANGED <<cfg, record, tool, disk, outside>>

\* Mutant: the return code of the tool is not looked at.
ToolEndedUnchecked ==
  /\ At(Worker, "run")
  /\ IF cfg.tool = "python" THEN rc' \in {"zero", "bad"}
     ELSE "main" \notin alive /\ UNCHANGED rc
  /\ Goto(Worker, "post")
  /\ UNCHANGED <<cfg, record, alive, listed, disk, outside>>

ToolEnded ==
  /\ At(Worker, "run")
  /\ IF cfg.tool = "python" THEN rc' \in {"zero", "bad"}
     ELSE "main" \notin alive /\ UNCHANGED rc
  /\ error' = (rc' = "bad")
  /\ Goto(Worker, "post")
  /\ UNCHANGED <<cfg, status, errors, outputs, alive, listed, disk, outside>>

\* Task.run() raises, ...
PythonRaises ==
  /\ At(Worker, "run")
  /\ cfg.tool = "python"
  /\ Goto(Worker, "halt")
  /\ UNCHANGED <<cfg, record, tool, disk, outside>>

\* ... or the poll loop does, with anything but its three exceptions.
PollRaises ==
  /\ At(Worker, "run")
  /\ cfg.tool # "python"
  /\ Goto(Worker, "halt")
  /\ Excuse("poll")
  /\ UNCHANGED <<cfg, record, tool, disk>>

Watched == At(Worker, "run") /\ cfg.tool = "exe" /\ "main" \in alive

\* Mutant: the time is looked at only when the tool has ended.
TimeoutUnwatched ==
  /\ At(Worker, "run")
  /\ cfg.tool = "exe"
  /\ "main" \notin alive
  /\ cfg.timeout
  /\ Goto(Worker, "term")
  /\ UNCHANGED <<cfg, record, tool, disk, outside>>

Timeout ==
  /\ Watched
  /\ cfg.timeout
  /\ Goto(Worker, "term")
  /\ UNCHANGED <<cfg, record, tool, disk, outside>>

OutOfMemory ==
  /\ Watched
  /\ Goto(Worker, "term")
  /\ UNCHANGED <<cfg, record, tool, disk, outside>>

\* Mutant: only the tool itself is terminated, not its children.
TerminateMainOnly ==
  /\ At(Worker, "term")
  /\ listed' = {"main"}
  /\ excuses' = IF "main" \notin alive /\ alive # {} THEN excuses \cup {"orphan"} ELSE excuses
  /\ Goto(Worker, "kill")
  /\ UNCHANGED <<cfg, record, rc, alive, disk, interrupts>>

(***************************************************************************)
(* __terminate_exe(): terminate() for the tool and its descendants, a wait *)
(* and kill() for those still there.  A helper whose parent has died is no *)
(* descendant any more.                                                    *)
(***************************************************************************)
Terminate ==
  /\ At(Worker, "term")
  /\ listed' = IF "main" \in alive THEN alive ELSE {}
  /\ excuses' = IF alive \subseteq listed' THEN excuses ELSE excuses \cup {"orphan"}
  /\ Goto(Worker, "kill")
  /\ UNCHANGED <<cfg, record, rc, alive, disk, interrupts>>

KillSurvivors ==
  /\ At(Worker, "kill")
  /\ alive' = alive \ listed
  /\ rc' = IF "main" \in alive THEN "bad" ELSE rc
  /\ Goto(Worker, "halt")
  /\ UNCHANGED <<cfg, record, listed, disk, outside>>

\* psutil raises for one of them (it may not be signalled, or is gone when
\* kill() comes to it), which ends the round with the others untouched.
TerminateRaises ==
  /\ pc[Worker] \in {"term", "kill"}
  /\ \E killed \in SUBSET (alive \cap listed) :
       /\ alive' = alive \ killed
       /\ rc' = IF "main" \in killed THEN "bad" ELSE rc
  /\ Goto(Worker, "halt")
  /\ excuses' = IF alive' = {} THEN excuses ELSE excuses \cup {"unkilled"}
  /\ UNCHANGED <<cfg, record, listed, disk, interrupts>>

PostProcess ==
  /\ At(Worker, "post")
  /\ error' \in {error, TRUE}
  /\ Goto(Worker, "check")
  /\ UNCHANGED <<cfg, status, errors, outputs, tool, disk, outside>>

\* check_logfile() and the metrics the task recorded itself.
CheckLogfile ==
  /\ At(Worker, "check")
  /\ errors' \in IF status = SKIPPED THEN {FALSE} ELSE BOOLEAN
  /\ Goto(Worker, "save")
  /\ UNCHANGED <<cfg, status, error, outputs, tool, disk, outside>>

SaveOpen ==
  /\ At(Worker, "save")
  /\ status' = IF error THEN ERROR ELSE IF status = SKIPPED THEN SKIPPED ELSE SUCCESS
  /\ Goto(Worker, "saving")
  /\ Put(Worker, "torn")
  /\ UNCHANGED <<cfg, error, errors, outputs, tool, outside>>

SaveWrite ==
  /\ At(Worker, "saving")
  /\ Goto(Worker, "verdict")
  /\ Put(Worker, status)
  /\ UNCHANGED <<cfg, record, tool, outside>>

\* The log, the disk, a test case, a message: run() halts the node.
ExecuteRaises ==
  /\ pc[Worker] \in {"check", "saving", "verdict", "outputs"}
  /\ Goto(Worker, "halt")
  /\ UNCHANGED <<cfg, record, tool, disk, outside>>

Verdict ==
  /\ At(Worker, "verdict")
  /\ IF error \/ (errors /\ ~ cfg.keepOn)
       THEN Goto(Worker, "halt") ELSE Goto(Worker, "outputs")
  /\ UNCHANGED <<cfg, record, tool, disk, outside>>

\* __report_output_files()
ReportOutputFiles ==
  /\ At(Worker, "outputs")
  /\ outputs' \in {"match", "differ"}
  /\ IF outputs' = "differ" /\ cfg.enforce
       THEN Goto(Worker, "halt") ELSE Goto(Worker, "leave")
  /\ UNCHANGED <<cfg, status, error, errors, tool, disk, outside>>

Leave ==
  /\ At(Worker, "leave")
  /\ End(Worker, 0)
  /\ UNCHANGED <<cfg, record, tool, disk, outside>>

-----------------------------------------------------------------------------
(***************************************************************************)
(* DockerSchedulerNode.run() and SlurmSchedulerNode.run(), around it.      *)
(***************************************************************************)
\* The image or the partition, the configuration of the inner run, ...
PrepareFails ==
  /\ At("outer", "prepare")
  /\ \/ cfg.runner = "docker" /\ Goto("outer", "halt")
     \/ End("outer", 1)
  /\ UNCHANGED <<cfg, record, tool, disk, outside>>

\* ... and run_node in the container, or srun.
LaunchInner ==
  /\ At("outer", "prepare")
  /\ pc' = [pc EXCEPT !["outer"] = "wait", !["inner"] = "setup"]
  /\ UNCHANGED <<cfg, code, record, tool, disk, outside>>

InnerEnded ==
  /\ At("outer", "wait")
  /\ At("inner", "gone")
  /\ \/ code["inner"] # 0 /\ Goto("outer", "halt")
     \/ code["inner"] = 0 /\ cfg.runner = "docker" /\ End("outer", 0)
     \/ code["inner"] = 0 /\ cfg.runner = "slurm" /\ Goto("outer", "fetch")
  /\ UNCHANGED <<cfg, record, tool, disk, outside>>

\* The stream of the container breaks, or the log cannot be read.
WaitRaises ==
  /\ At("outer", "wait")
  /\ cfg.runner = "slurm" => At("inner", "gone")
  /\ End("outer", 1)
  /\ Excuse("raised")
  /\ UNCHANGED <<cfg, record, tool, disk>>

\* container.stop(): whatever runs in the container ends with it.
StopContainer ==
  /\ At("outer", "stop")
  /\ pc' = [p \in Procs |-> IF p = "outer" \/ pc[p] # "off" THEN "gone" ELSE pc[p]]
  /\ code' = [code EXCEPT !["inner"] = IF At("inner", "gone") THEN @ ELSE 1]
  /\ alive' = {}
  /\ UNCHANGED <<cfg, record, rc, listed, disk, outside>>

StopFails ==
  /\ At("outer", "stop")
  /\ ~ At("inner", "off")
  /\ pc' = [pc EXCEPT !["outer"] = "gone"]
  /\ Excuse("unstopped")
  /\ UNCHANGED <<cfg, code, record, tool, disk>>

\* The manifest is there, or was not created on time: either way run()
\* returns.
Fetch ==
  /\ At("outer", "fetch")
  /\ End("outer", 0)
  /\ UNCHANGED <<cfg, record, tool, disk, outside>>

\* The directory of the manifest cannot be listed yet.
FetchRaises ==
  /\ At("outer", "fetch")
  /\ ~ visible
  /\ End("outer", 1)
  /\ Excuse("late")
  /\ UNCHANGED <<cfg, record, tool, disk>>

-----------------------------------------------------------------------------
(***************************************************************************)
(* The tool, the file system, interrupts and kills.                        *)
(***************************************************************************)
\* A helper started after __terminate_exe() has listed them is not known.
Fork ==
  /\ alive = {"main"}
  /\ alive' = ToolProcs
  /\ excuses' = IF listed = {} THEN excuses ELSE excuses \cup {"orphan"}
  /\ UNCHANGED <<cfg, control, record, rc, listed, disk, interrupts>>

\* The tool ends, by itself or by a signal it was sent; a helper it started
\* goes with it or stays.
MainEnds ==
  /\ "main" \in alive
  /\ alive' \in {{}, alive \ {"main"}}
  /\ rc' \in {"zero", "bad"}
  /\ excuses' = IF alive' # {} /\ listed = {} THEN excuses \cup {"orphan"} ELSE excuses
  /\ UNCHANGED <<cfg, control, record, listed, disk, interrupts>>

HelperEnds ==
  /\ "helper" \in alive
  /\ alive' = alive \ {"helper"}
  /\ UNCHANGED <<cfg, control, record, rc, listed, disk, outside>>

Propagate ==
  /\ ~ visible
  /\ manifest # "absent"
  /\ visible' = TRUE
  /\ UNCHANGED <<cfg, control, record, tool, manifest, outside>>

(***************************************************************************)
(* KeyboardInterrupt in the outer process.  In execute() it leads to       *)
(* halt(), after terminating the tool that is polled; in halt() it is      *)
(* swallowed; elsewhere it ends the process.  A tool with a breakpoint has *)
(* the terminal to itself.                                                 *)
(***************************************************************************)
InterruptedAt(s) ==
  \/ /\ s \in {"setup", "leave", "prepare", "fetch"} \cup HaltSteps
     /\ End("outer", 1)
     /\ UNCHANGED excuses
  \/ /\ s \in RunSteps \ {"setup", "leave", "run", "term", "kill"} \/ (s = "run" /\ cfg.tool = "python")
     /\ Goto("outer", "halt")
     /\ UNCHANGED excuses
  \/ /\ s = "run" /\ cfg.tool = "exe"
     /\ Goto("outer", "term")
     /\ UNCHANGED excuses
  \/ /\ s \in {"term", "kill"}
     /\ Goto("outer", "halt")
     /\ excuses' = excuses \cup {"left"}
  \/ /\ s = "wait"
     /\ End("outer", 1)
     /\ excuses' = IF cfg.runner = "slurm" /\ ~ At("inner", "gone")
                   THEN excuses \cup {"left"} ELSE excuses
  \/ /\ s = "stop"
     /\ pc' = [pc EXCEPT !["outer"] = "gone"]
     /\ code' = [code EXCEPT !["outer"] = 1]
     /\ excuses' = excuses \cup {"unstopped"}

KeyboardInterrupt ==
  /\ interrupts < MaxInterrupts
  /\ interrupts' = interrupts + 1
  /\ InterruptedAt(pc["outer"])
  /\ UNCHANGED <<cfg, record, tool, disk>>

\* A signal without a handler: nothing is cleaned up.
Kill(p) ==
  /\ pc[p] \notin {"off", "gone"}
  /\ pc' = [pc EXCEPT ![p] = "gone"]
  /\ code' = [code EXCEPT ![p] = 1]
  /\ \/ p = "outer" /\ Excuse("killed")
     \/ p = "inner" /\ cfg.runner = "slurm" /\ Excuse("orphan")
     \/ p = "inner" /\ cfg.runner = "docker" /\ UNCHANGED outside
  /\ UNCHANGED <<cfg, record, tool, disk>>

-----------------------------------------------------------------------------
\* What the processes do of themselves, sooner or later.
Run ==
  \/ \E p \in Procs : Halt(p)
  \/ Setup \/ PreProcessSkips \/ PreProcess \/ StartTool \/ NoTool
  \/ Timeout \/ Terminate \/ KillSurvivors
  \/ PostProcess \/ CheckLogfile \/ ExecuteRaises
  \/ SaveOpen \/ SaveWrite \/ Verdict \/ ReportOutputFiles \/ Leave
  \/ PrepareFails \/ LaunchInner \/ InnerEnded \/ StopContainer \/ StopFails
  \/ Fetch \/ FetchRaises

Poll == cfg.tool # "python" /\ ToolEnded

Ended ==
  /\ At("outer", "gone")
  /\ pc["inner"] \in {"off", "gone"}
  /\ alive = {}
  /\ visible \/ manifest = "absent"
  /\ UNCHANGED vars

Next ==
  \/ Run
  \/ ToolEnded \/ PythonRaises \/ PollRaises \/ OutOfMemory \/ TerminateRaises
  \/ WaitRaises
  \/ Fork \/ MainEnds \/ HelperEnds \/ Propagate
  \/ KeyboardInterrupt
  \/ \E p \in Procs : Kill(p)
  \/ Ended

Spec == Init /\ [][Next]_vars

(***************************************************************************)
(* Both processes go on.  The tool need not end, nor Task.run() return.    *)
(***************************************************************************)
Fairness == WF_vars(Run) /\ WF_vars(Poll)

FairSpec == Spec /\ Fairness

-----------------------------------------------------------------------------
TypeOK ==
  /\ cfg \in Settings
  /\ pc \in [Procs -> Place]
  /\ code \in [Procs -> {0, 1}]
  /\ status \in {PENDING, SKIPPED, SUCCESS, ERROR}
  /\ error \in BOOLEAN
  /\ errors \in BOOLEAN
  /\ rc \in {"none", "zero", "bad"}
  /\ outputs \in {"unknown", "match", "differ"}
  /\ alive \subseteq ToolProcs
  /\ listed \subseteq ToolProcs
  /\ manifest \in Manifest
  /\ visible \in BOOLEAN
  /\ interrupts \in 0 .. MaxInterrupts
  /\ excuses \subseteq Abandoning \cup Misleading

Returned == At("outer", "gone") /\ code["outer"] = 0

\* Nothing happened to the process that its own error handling cannot repair.
Undisturbed == interrupts = 0 /\ excuses \cap Misleading = {}

(* The exit code and the manifest a process leaves are those the task      *)
(* scheduler is built on: a manifest of a node that did well, or none yet  *)
(* on a network file system, with 0; with 1 a failed node's, or none.  In  *)
(* particular the SUCCESS execute() saves before it looks at the errors    *)
(* metric and the output files does not stay there to be reused.           *)
OutcomeFits ==
  At("outer", "gone") =>
    /\ code["outer"] = 0 =>
         Seen \in LeftBySuccess \cup IF cfg.runner = "slurm" THEN LeftByDelay ELSE {}
    /\ code["outer"] = 1 /\ Undisturbed => Seen \in LeftByFailure
    /\ Seen \in LeftByKill

(* A process that returns a SUCCESS has earned it, whoever ran the node:   *)
(* the tool returned 0, post-processing and the log are clean or the user  *)
(* asked to go on, and the files are those the task declares.  A skipped   *)
(* node has run no tool.                                                   *)
SuccessIsEarned ==
  Returned /\ Seen # "absent" =>
    /\ rc = IF Seen = SUCCESS THEN "zero" ELSE "none"
    /\ ~ error
    /\ errors => cfg.keepOn
    /\ outputs = "differ" => ~ cfg.enforce

(* A process of the tool outlives the node's process only for a reason the *)
(* code does not handle: the node's process was killed, an interrupt cut   *)
(* the termination short or left srun alone, the poll loop raised, psutil  *)
(* raised for one process and the rest was not killed, the container could *)
(* not be stopped, or a helper lost its parent.                            *)
ToolEndsWithNode == At("outer", "gone") /\ excuses \cap Abandoning = {} => alive = {}

(* The process of a node with a timeout ends, whatever its tool does.      *)
TimedNodeEnds ==
  (cfg.timeout /\ cfg.tool = "exe") => <>(At("outer", "gone"))

-----------------------------------------------------------------------------
(***************************************************************************)
(* The inductive invariant the proofs use.                                 *)
(***************************************************************************)
Early == {"setup", "pre", "version"}
Late  == {"post", "check", "save", "saving", "verdict", "outputs", "leave"}
Over  == {"off", "gone"}

\* The inner process ended well / the outer one is about to say so.
InnerDone == At("inner", "gone") /\ code["inner"] = 0
Vouched   == At("outer", "fetch") \/ (pc["outer"] \in {"stop", "gone"} /\ code["outer"] = 0)

(* Who runs what: a wrapper writes or vouches only when run_node is over.  *)
PlaceInv ==
  /\ Local => /\ At("inner", "off")
              /\ pc["outer"] \in RunSteps \cup HaltSteps \cup {"gone"}
  /\ ~ Local => /\ pc["outer"] \in WrapSteps \cup HaltSteps \cup {"gone"}
                /\ pc["inner"] \in RunSteps \cup HaltSteps \cup Over
                /\ At("outer", "prepare") => At("inner", "off")
                /\ pc["outer"] \in HaltSteps => pc["inner"] \in Over /\ ~ InnerDone
                /\ Vouched => InnerDone
                /\ At("outer", "fetch") => cfg.runner = "slurm"
                /\ At("outer", "stop") => cfg.runner = "docker"
                /\ cfg.runner = "slurm" /\ At("outer", "gone") /\ excuses \cap Abandoning = {} =>
                     pc["inner"] \in Over

\* The worker's part ended with exit code 0.
WorkerDone == At(Worker, "gone") /\ code[Worker] = 0

Good ==
  /\ ~ error
  /\ \/ status = SKIPPED /\ rc = "none"
     \/ status = SUCCESS /\ rc = "zero"

(* What run() knows of the tool and of the manifest at each of its steps.  *)
RecordInv ==
  /\ pc[Worker] \in Early => rc = "none" /\ alive = {}
  /\ pc[Worker] \in {"off"} \cup Early \cup {"run", "term", "kill", "post"} => status = PENDING
  /\ pc[Worker] \in {"off"} \cup Early \cup {"run"} => ~ error
  /\ At(Worker, "off") => alive = {} /\ rc = "none"
  /\ At(Worker, "run") /\ cfg.tool = "python" => alive = {}
  /\ At(Worker, "run") /\ cfg.tool # "python" /\ "main" \notin alive => rc # "none"
  /\ pc[Worker] \in Late \/ WorkerDone => "main" \notin alive
  /\ pc[Worker] \in {"post", "check", "save"} =>
       \/ status = SKIPPED /\ rc = "none" /\ ~ error
       \/ status = PENDING /\ (error \/ rc = "zero")
  /\ pc[Worker] \in {"saving", "verdict"} => Good \/ (error /\ status = ERROR)
  /\ pc[Worker] \in {"outputs", "leave"} \/ WorkerDone =>
       Good /\ (errors => cfg.keepOn) /\ manifest = status
  /\ At(Worker, "verdict") => manifest = status
  /\ At(Worker, "leave") \/ WorkerDone => (outputs = "differ" => ~ cfg.enforce)

(* Who may still be alive of the tool, as long as nothing unhandled        *)
(* happened.  A killed run_node leaves its tool to the container.          *)
ToolInv ==
  excuses \cap Abandoning = {} =>
    /\ pc[Worker] \in {"run", "term"} => listed = {} /\ ("helper" \in alive => "main" \in alive)
    /\ At(Worker, "kill") => alive \subseteq listed
    /\ pc[Worker] \in Late \cup HaltSteps => alive = {}
    /\ At(Worker, "gone") => \/ alive = {}
                             \/ cfg.runner = "docker" /\ pc["outer"] # "gone"
    /\ pc[Worker] \in {"off"} \cup Early => listed = {}
    /\ cfg.runner = "docker" /\ At("outer", "gone") => pc["inner"] \in Over /\ alive = {}

(* What is on disk when a process ends with 1.                             *)
DiskInv ==
  /\ cfg.runner # "slurm" => visible \/ manifest = "absent"
  /\ pc[Worker] \in {"off"} \cup Early /\ ~ pc["outer"] \in HaltSteps
       /\ ~ (pc["outer"] \in {"stop", "gone"}) => manifest = "absent"
  /\ pc["outer"] \in {"stop", "gone"} /\ code["outer"] = 1 /\ Undisturbed =>
       manifest \in LeftByFailure /\ pc["inner"] \in Over

IInv ==
  /\ TypeOK
  /\ PlaceInv
  /\ RecordInv
  /\ ToolInv
  /\ DiskInv
=============================================================================

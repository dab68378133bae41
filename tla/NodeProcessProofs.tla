------------------------- MODULE NodeProcessProofs --------------------------
(***************************************************************************)
(* For every set of settings and any number of interrupts: IInv of         *)
(* NodeProcess is an inductive invariant, and with it the outcomes of a    *)
(* node's process are those the task scheduler reckons with.  One lemma    *)
(* per action; the invariant's vocabulary is expanded throughout.          *)
(***************************************************************************)
EXTENDS NodeProcess, TLAPS

USE DEF Assumptions, SettingType, IInv, TypeOK, PlaceInv, RecordInv, ToolInv, DiskInv, Good,
        InnerDone, Vouched, WorkerDone, Early, Late, Over, Worker, Local, Procs, Place,
        RunSteps, WrapSteps, HaltSteps, ToolProcs, Abandoning, Misleading, Undisturbed, At,
        Goto, End, Put, Excuse, Manifest, LeftByFailure, control, record, tool, disk,
        outside, PENDING, SUCCESS, ERROR, SKIPPED

-----------------------------------------------------------------------------
(* The invariant holds when the process has been forked.                   *)
LEMMA Initially == ASSUME Assumptions, Init PROVE IInv
<1> USE DEF Init
<1>1. TypeOK
  <2>1. pc \in [Procs -> Place] /\ code \in [Procs -> {0, 1}]
    OBVIOUS
  <2>2. visible \in BOOLEAN
    OBVIOUS
  <2>3. interrupts \in 0 .. MaxInterrupts
    OBVIOUS
  <2> QED
    BY <2>1, <2>2, <2>3
<1>2. /\ pc["outer"] = IF Local THEN "setup" ELSE "prepare"
      /\ pc["inner"] = "off"
      /\ pc[Worker] = IF Local THEN "setup" ELSE "off"
  OBVIOUS
<1>3. PlaceInv
  BY <1>2
<1>4. RecordInv
  BY <1>2
<1>5. ToolInv
  BY <1>2
<1>6. DiskInv
  BY <1>2
<1> QED
  BY <1>1, <1>3, <1>4, <1>5, <1>6

-----------------------------------------------------------------------------
(* halt(), in whichever process calls it.                                  *)
LEMMA HaltOpenStep == ASSUME Assumptions, IInv, NEW p \in Procs, HaltOpen(p) PROVE IInv'
<1>1. TypeOK'
  BY SMTT(40) DEF HaltOpen
<1>2. PlaceInv'
  BY SMTT(40) DEF HaltOpen
<1>3. RecordInv'
  BY SMTT(40) DEF HaltOpen
<1>4. ToolInv'
  BY SMTT(40) DEF HaltOpen
<1>5. DiskInv'
  <2>1. cfg.runner # "slurm" => visible'
    BY DEF HaltOpen
  <2>2. cfg'.runner # "slurm" => visible' \/ manifest' = "absent"
    BY <2>1 DEF HaltOpen
  <2>3. pc'["outer"] \in {"stop", "gone"} /\ code'["outer"] = 1 /\ Undisturbed' =>
          manifest' \in LeftByFailure /\ pc'["inner"] \in Over
    BY SMTT(40) DEF HaltOpen
  <2>4. pc'[Worker'] \in {"off"} \cup Early => pc'["outer"] \in {"stop", "gone"} \cup HaltSteps
    BY SMTT(40) DEF HaltOpen
  <2> QED
    BY <2>2, <2>3, <2>4
<1> QED
  BY <1>1, <1>2, <1>3, <1>4, <1>5

LEMMA HaltWriteStep == ASSUME Assumptions, IInv, NEW p \in Procs, HaltWrite(p) PROVE IInv'
<1>1. TypeOK'
  BY SMTT(40) DEF HaltWrite
<1>2. PlaceInv'
  BY SMTT(40) DEF HaltWrite
<1>3. RecordInv'
  BY SMTT(40) DEF HaltWrite
<1>4. ToolInv'
  BY SMTT(40) DEF HaltWrite
<1>5. DiskInv'
  <2>1. cfg.runner # "slurm" => visible'
    BY DEF HaltWrite
  <2>2. cfg'.runner # "slurm" => visible' \/ manifest' = "absent"
    BY <2>1 DEF HaltWrite
  <2>3. pc'["outer"] \in {"stop", "gone"} /\ code'["outer"] = 1 /\ Undisturbed' =>
          manifest' \in LeftByFailure /\ pc'["inner"] \in Over
    BY SMTT(40) DEF HaltWrite
  <2>4. pc'[Worker'] \in {"off"} \cup Early => pc'["outer"] \in {"stop", "gone"} \cup HaltSteps
    BY SMTT(40) DEF HaltWrite
  <2> QED
    BY <2>2, <2>3, <2>4
<1> QED
  BY <1>1, <1>2, <1>3, <1>4, <1>5

LEMMA HaltUnsavedStep == ASSUME Assumptions, IInv, NEW p \in Procs, HaltUnsaved(p) PROVE IInv'
  BY SMTT(40) DEF HaltUnsaved

-----------------------------------------------------------------------------
(* run() and execute(), up to the tool.                                    *)
LEMMA SetupStep == ASSUME Assumptions, IInv, Setup PROVE IInv'
  BY SMTT(40) DEF Setup

LEMMA PreProcessSkipsStep == ASSUME Assumptions, IInv, PreProcessSkips PROVE IInv'
<1>1. TypeOK'
  BY SMTT(40) DEF PreProcessSkips
<1>2. PlaceInv'
  BY SMTT(40) DEF PreProcessSkips
<1>3. RecordInv'
  BY SMTT(40) DEF PreProcessSkips
<1>4. ToolInv'
  BY SMTT(40) DEF PreProcessSkips
<1>5. DiskInv'
  BY SMTT(40) DEF PreProcessSkips
<1> QED
  BY <1>1, <1>2, <1>3, <1>4, <1>5

LEMMA PreProcessStep == ASSUME Assumptions, IInv, PreProcess PROVE IInv'
  BY SMTT(40) DEF PreProcess

LEMMA StartToolStep == ASSUME Assumptions, IInv, StartTool PROVE IInv'
  BY SMTT(40) DEF StartTool

LEMMA NoToolStep == ASSUME Assumptions, IInv, NoTool PROVE IInv'
  BY SMTT(40) DEF NoTool

-----------------------------------------------------------------------------
(* The tool is watched, or terminated.                                     *)
LEMMA ToolEndedStep == ASSUME Assumptions, IInv, ToolEnded PROVE IInv'
<1>1. CASE rc' = "bad"
  <2>1. error' = TRUE
    BY <1>1 DEF ToolEnded
  <2> QED
    BY <1>1, <2>1, SMTT(40) DEF ToolEnded
<1>2. CASE rc' # "bad"
  <2>1. error' = FALSE
    BY <1>2 DEF ToolEnded
  <2> QED
    BY <1>2, <2>1, SMTT(40) DEF ToolEnded
<1> QED
  BY <1>1, <1>2

LEMMA PythonRaisesStep == ASSUME Assumptions, IInv, PythonRaises PROVE IInv'
  BY SMTT(40) DEF PythonRaises

LEMMA PollRaisesStep == ASSUME Assumptions, IInv, PollRaises PROVE IInv'
  BY SMTT(40) DEF PollRaises

LEMMA TimeoutStep == ASSUME Assumptions, IInv, Timeout PROVE IInv'
  BY SMTT(40) DEF Timeout, Watched

LEMMA OutOfMemoryStep == ASSUME Assumptions, IInv, OutOfMemory PROVE IInv'
  BY SMTT(40) DEF OutOfMemory, Watched

LEMMA TerminateStep == ASSUME Assumptions, IInv, Terminate PROVE IInv'
  BY SMTT(40) DEF Terminate

LEMMA KillSurvivorsStep == ASSUME Assumptions, IInv, KillSurvivors PROVE IInv'
  BY SMTT(40) DEF KillSurvivors

LEMMA TerminateRaisesStep == ASSUME Assumptions, IInv, TerminateRaises PROVE IInv'
<1>1. alive' \subseteq alive /\ rc' \in {rc, "bad"}
  BY DEF TerminateRaises
<1>2. (excuses' = excuses /\ alive' = {}) \/ excuses' = excuses \cup {"unkilled"}
  BY DEF TerminateRaises
<1>3. TypeOK'
  BY <1>1, <1>2, SMTT(40) DEF TerminateRaises
<1>4. PlaceInv'
  BY <1>2, SMTT(40) DEF TerminateRaises
<1>5. RecordInv'
  BY <1>1, SMTT(40) DEF TerminateRaises
<1>6. ToolInv'
  BY <1>2, SMTT(40) DEF TerminateRaises
<1>7. DiskInv'
  BY <1>2, SMTT(40) DEF TerminateRaises
<1> QED
  BY <1>3, <1>4, <1>5, <1>6, <1>7

-----------------------------------------------------------------------------
(* What follows the tool.                                                  *)
LEMMA PostProcessStep == ASSUME Assumptions, IInv, PostProcess PROVE IInv'
<1>1. error' = error \/ error' = TRUE
  BY DEF PostProcess
<1>2. CASE error' = error
  BY <1>2, SMTT(40) DEF PostProcess
<1>3. CASE error' = TRUE
  BY <1>3, SMTT(40) DEF PostProcess
<1> QED
  BY <1>1, <1>2, <1>3

LEMMA CheckLogfileStep == ASSUME Assumptions, IInv, CheckLogfile PROVE IInv'
<1>1. errors' \in BOOLEAN
  BY DEF CheckLogfile
<1>2. TypeOK'
  BY <1>1, SMTT(40) DEF CheckLogfile
<1>3. PlaceInv' /\ ToolInv' /\ DiskInv'
  BY SMTT(40) DEF CheckLogfile
<1>4. RecordInv'
  BY SMTT(40) DEF CheckLogfile
<1> QED
  BY <1>2, <1>3, <1>4

LEMMA ExecuteRaisesStep == ASSUME Assumptions, IInv, ExecuteRaises PROVE IInv'
  BY SMTT(40) DEF ExecuteRaises

LEMMA SaveOpenStep == ASSUME Assumptions, IInv, SaveOpen PROVE IInv'
<1>1. TypeOK'
  BY SMTT(40) DEF SaveOpen
<1>2. PlaceInv'
  BY SMTT(40) DEF SaveOpen
<1>3. RecordInv'
  BY SMTT(40) DEF SaveOpen
<1>4. ToolInv'
  BY SMTT(40) DEF SaveOpen
<1>5. DiskInv'
  <2>1. cfg.runner # "slurm" => visible'
    BY DEF SaveOpen
  <2>2. cfg'.runner # "slurm" => visible' \/ manifest' = "absent"
    BY <2>1 DEF SaveOpen
  <2>3. pc'["outer"] \in {"stop", "gone"} /\ code'["outer"] = 1 /\ Undisturbed' => FALSE
    BY SMTT(40) DEF SaveOpen
  <2>4. pc'[Worker'] \notin {"off"} \cup Early
    BY SMTT(40) DEF SaveOpen
  <2> QED
    BY <2>2, <2>3, <2>4
<1> QED
  BY <1>1, <1>2, <1>3, <1>4, <1>5

LEMMA SaveWriteStep == ASSUME Assumptions, IInv, SaveWrite PROVE IInv'
<1>1. TypeOK'
  BY SMTT(40) DEF SaveWrite
<1>2. PlaceInv'
  BY SMTT(40) DEF SaveWrite
<1>3. RecordInv'
  BY SMTT(40) DEF SaveWrite
<1>4. ToolInv'
  BY SMTT(40) DEF SaveWrite
<1>5. DiskInv'
  <2>1. cfg.runner # "slurm" => visible'
    BY DEF SaveWrite
  <2>2. cfg'.runner # "slurm" => visible' \/ manifest' = "absent"
    BY <2>1 DEF SaveWrite
  <2>3. pc'["outer"] \in {"stop", "gone"} /\ code'["outer"] = 1 /\ Undisturbed' => FALSE
    BY SMTT(40) DEF SaveWrite
  <2>4. pc'[Worker'] \notin {"off"} \cup Early
    BY SMTT(40) DEF SaveWrite
  <2> QED
    BY <2>2, <2>3, <2>4
<1> QED
  BY <1>1, <1>2, <1>3, <1>4, <1>5

LEMMA VerdictStep == ASSUME Assumptions, IInv, Verdict PROVE IInv'
  BY SMTT(40) DEF Verdict

LEMMA ReportOutputFilesStep == ASSUME Assumptions, IInv, ReportOutputFiles PROVE IInv'
  BY SMTT(40) DEF ReportOutputFiles

LEMMA LeaveStep == ASSUME Assumptions, IInv, Leave PROVE IInv'
  BY SMTT(40) DEF Leave

-----------------------------------------------------------------------------
(* The wrappers of docker.py and slurm.py.                                 *)
LEMMA PrepareFailsStep == ASSUME Assumptions, IInv, PrepareFails PROVE IInv'
  BY SMTT(40) DEF PrepareFails

LEMMA LaunchInnerStep == ASSUME Assumptions, IInv, LaunchInner PROVE IInv'
  BY SMTT(40) DEF LaunchInner

LEMMA InnerEndedStep == ASSUME Assumptions, IInv, InnerEnded PROVE IInv'
  BY SMTT(40) DEF InnerEnded

LEMMA WaitRaisesStep == ASSUME Assumptions, IInv, WaitRaises PROVE IInv'
  BY SMTT(40) DEF WaitRaises

LEMMA StopContainerStep == ASSUME Assumptions, IInv, StopContainer PROVE IInv'
  BY SMTT(40) DEF StopContainer

LEMMA StopFailsStep == ASSUME Assumptions, IInv, StopFails PROVE IInv'
  BY SMTT(40) DEF StopFails

LEMMA FetchStep == ASSUME Assumptions, IInv, Fetch PROVE IInv'
  BY SMTT(40) DEF Fetch

LEMMA FetchRaisesStep == ASSUME Assumptions, IInv, FetchRaises PROVE IInv'
  BY SMTT(40) DEF FetchRaises

-----------------------------------------------------------------------------
(* The tool itself, the file system, interrupts and kills.                 *)
LEMMA ForkStep == ASSUME Assumptions, IInv, Fork PROVE IInv'
  BY SMTT(40) DEF Fork

LEMMA MainEndsStep == ASSUME Assumptions, IInv, MainEnds PROVE IInv'
<1>1. TypeOK'
  <2>1. alive' \subseteq alive /\ rc' \in {"zero", "bad"}
    BY DEF MainEnds
  <2>2. excuses' \subseteq Abandoning \cup Misleading
    BY DEF MainEnds
  <2> QED
    BY <2>1, <2>2 DEF MainEnds
<1>2. PlaceInv'
  BY SMTT(40) DEF MainEnds
<1>3. RecordInv'
  BY SMTT(40) DEF MainEnds
<1>4. ToolInv'
  <2>1. CASE alive' = {}
    BY <2>1, SMTT(40) DEF MainEnds
  <2>2. CASE alive' # {} /\ listed = {}
    BY <2>2, SMTT(40) DEF MainEnds
  <2>3. CASE alive' # {} /\ listed # {}
    <3>1. excuses' = excuses /\ alive' \subseteq alive /\ "main" \in alive
      BY <2>3 DEF MainEnds
    <3>2. UNCHANGED <<cfg, pc, listed>>
      BY DEF MainEnds
    <3> QED
      BY <2>3, <3>1, <3>2, SMTT(100) DEF MainEnds
  <2> QED
    BY <2>1, <2>2, <2>3
<1>5. DiskInv'
  BY SMTT(40) DEF MainEnds
<1> QED
  BY <1>1, <1>2, <1>3, <1>4, <1>5

LEMMA HelperEndsStep == ASSUME Assumptions, IInv, HelperEnds PROVE IInv'
  BY SMTT(40) DEF HelperEnds

LEMMA PropagateStep == ASSUME Assumptions, IInv, Propagate PROVE IInv'
  BY SMTT(40) DEF Propagate

LEMMA KeyboardInterruptStep == ASSUME Assumptions, IInv, KeyboardInterrupt PROVE IInv'
<1>1. TypeOK'
  <2>1. interrupts' \in 0 .. MaxInterrupts
    BY DEF KeyboardInterrupt
  <2>2. excuses' \subseteq Abandoning \cup Misleading
    BY DEF KeyboardInterrupt, InterruptedAt
  <2>3. pc' \in [Procs -> Place] /\ code' \in [Procs -> {0, 1}]
    BY DEF KeyboardInterrupt, InterruptedAt
  <2> QED
    BY <2>1, <2>2, <2>3 DEF KeyboardInterrupt
<1>2. PlaceInv'
  BY SMTT(40) DEF KeyboardInterrupt, InterruptedAt
<1>3. RecordInv'
  BY SMTT(40) DEF KeyboardInterrupt, InterruptedAt
<1>4. ToolInv'
  BY SMTT(40) DEF KeyboardInterrupt, InterruptedAt
<1>5. DiskInv'
  BY SMTT(40) DEF KeyboardInterrupt, InterruptedAt
<1> QED
  BY <1>1, <1>2, <1>3, <1>4, <1>5

LEMMA KillStep == ASSUME Assumptions, IInv, NEW p \in Procs, Kill(p) PROVE IInv'
<1>1. TypeOK'
  <2>1. excuses' \subseteq Abandoning \cup Misleading
    BY DEF Kill
  <2>2. pc' \in [Procs -> Place] /\ code' \in [Procs -> {0, 1}]
    BY DEF Kill
  <2> QED
    BY <2>1, <2>2 DEF Kill
<1>2. PlaceInv'
  BY SMTT(40) DEF Kill
<1>3. RecordInv'
  BY SMTT(40) DEF Kill
<1>4. ToolInv'
  BY SMTT(40) DEF Kill
<1>5. DiskInv'
  BY SMTT(40) DEF Kill
<1> QED
  BY <1>1, <1>2, <1>3, <1>4, <1>5

-----------------------------------------------------------------------------
(* Every step preserves the invariant.                                     *)
LEMMA Inductive == ASSUME Assumptions, IInv, [Next]_vars PROVE IInv'
<1>1. CASE Run
  <2>1. CASE \E p \in Procs : Halt(p)
    BY <2>1, HaltOpenStep, HaltWriteStep, HaltUnsavedStep DEF Halt
  <2>2. CASE ~ \E p \in Procs : Halt(p)
    BY <1>1, <2>2, SetupStep, PreProcessSkipsStep, PreProcessStep, StartToolStep, NoToolStep,
       TimeoutStep, TerminateStep, KillSurvivorsStep, PostProcessStep,
       CheckLogfileStep, ExecuteRaisesStep, SaveOpenStep, SaveWriteStep, VerdictStep,
       ReportOutputFilesStep, LeaveStep, PrepareFailsStep, LaunchInnerStep,
       InnerEndedStep, StopContainerStep, StopFailsStep, FetchStep, FetchRaisesStep
       DEF Run
  <2> QED
    BY <2>1, <2>2
<1>2. ASSUME NEW p \in Procs, Kill(p) PROVE IInv'
  BY <1>2, KillStep
<1>3. CASE UNCHANGED vars
  BY <1>3 DEF vars, Seen
<1> QED
  BY <1>1, <1>2, <1>3, ToolEndedStep, PythonRaisesStep, PollRaisesStep, OutOfMemoryStep,
     TerminateRaisesStep, WaitRaisesStep, ForkStep, MainEndsStep, HelperEndsStep, PropagateStep,
     KeyboardInterruptStep
     DEF Next, Ended

HIDE DEF IInv, TypeOK, PlaceInv, RecordInv, ToolInv, DiskInv

(* The inductive invariant holds in every reachable state.                 *)
THEOREM Invariant == Spec => []IInv
<1>1. Init => IInv
  BY Initially, Assumptions
<1>2. IInv /\ [Next]_vars => IInv'
  BY Inductive, Assumptions
<1> QED
  BY <1>1, <1>2, PTL DEF Spec

(* Every variable keeps its type.                                          *)
THEOREM TypeCorrect == Spec => []TypeOK
<1>1. IInv => TypeOK
  BY DEF IInv
<1> QED
  BY <1>1, Invariant, PTL

(* Exit code and manifest are those the task scheduler is built on.        *)
THEOREM OutcomesFit == Spec => []OutcomeFits
<1>1. IInv => OutcomeFits
  BY SMTT(40) DEF OutcomeFits, Seen, LeftBySuccess, LeftByDelay, LeftByKill, IInv, TypeOK, PlaceInv, RecordInv, DiskInv
<1> QED
  BY <1>1, Invariant, PTL

(* A SUCCESS returned with exit code 0 has been earned.                    *)
THEOREM SuccessesAreEarned == Spec => []SuccessIsEarned
<1>1. IInv => SuccessIsEarned
  BY SMTT(40) DEF SuccessIsEarned, Returned, Seen, IInv, TypeOK, PlaceInv, RecordInv
<1> QED
  BY <1>1, Invariant, PTL

(* The tool ends with the node, but for the listed reasons.                *)
THEOREM ToolsEndWithNodes == Spec => []ToolEndsWithNode
<1>1. IInv => ToolEndsWithNode
  <2> SUFFICES ASSUME IInv, At("outer", "gone"), excuses \cap Abandoning = {}
               PROVE  alive = {}
    BY DEF ToolEndsWithNode
  <2> USE DEF IInv, TypeOK, PlaceInv, RecordInv, ToolInv
  <2>1. CASE cfg.runner = "local"
    BY <2>1
  <2>2. CASE cfg.runner = "docker"
    BY <2>2
  <2>3. CASE cfg.runner = "slurm"
    BY <2>3
  <2> QED
    BY <2>1, <2>2, <2>3, Assumptions
<1> QED
  BY <1>1, Invariant, PTL
=============================================================================

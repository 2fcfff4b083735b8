------------------------------ MODULE Pipeline ------------------------------
(***************************************************************************)
(* scripts/pipeline/orchestrator.py: main and SkillPipeline.run, the five  *)
(* STEPs of one command line run (Self), composed with the AtomicWriter it *)
(* publishes through, the retry loop of its STEP 4 gate, and other runs on *)
(* the same output directory, which appear as AtomicWriter processes.      *)
(*                                                                         *)
(* The checks of STEP 4 (validator, kubectl, container build) are external *)
(* programs or pure functions: a check is its outcome.                     *)
(***************************************************************************)
EXTENDS Integers, Sequences, FiniteSets

CONSTANTS
  Writers, NoOne, Before, Modes, MaxCounter, MaxMinute, Earlier, Faults,
  MaxAttempts,
  Self,        \* the run of main
  Engines      \* build configurations tried; "unlimited" is a known engine
               \* with build_timeout_seconds = 0

\* Those of AtomicWriter and RetryLoop.
ASSUME WritersAssumption == /\ NoOne \notin Writers /\ Before \notin Writers
                            /\ NoOne # Before
ASSUME ModesAssumption ==
  Modes \subseteq {"overwrite", "suffix", "prompt", "no_callback"}
ASSUME BoundsAssumption ==
  /\ MaxCounter \in Nat \ {0, 1}
  /\ MaxMinute \in Nat
  /\ Earlier \subseteq 0 .. MaxCounter - 1 /\ Earlier # {}
ASSUME FaultsAssumption ==
  Faults \subseteq {"enter", "rmtree", "replace", "cleanup"}
ASSUME AttemptsAssumption == MaxAttempts \in Nat \ {0}

ASSUME SelfAssumption == Self \in Writers /\ Self # NoOne /\ Self # Before
ASSUME EnginesAssumption ==
  Engines \subseteq {"skip", "known", "unlimited", "unknown"}
\* main passes no prompt_callback, so nobody is asked about output_dir.
ASSUME CommandLineAssumption == "prompt" \notin Modes

VARIABLES
  entry, staging, aged, minute, pc, mode, target, victim, collect, exc,
  handlers, committed, bailedOut,           \* of AtomicWriter
  phase, attempt, outcome, log, verdict,    \* of the current retry loop
  engine,        \* build.engine, and whether a build has a time limit
  validTag,      \* build.image_tag is a valid image reference
  step,          \* where run() is
  passed,        \* the checks of STEP 4 that let the run go on, with outcomes
  summary,       \* validation.skipped of summary.json
  troubleshoot,  \* what troubleshoot.md says of the check that gave up
  exitCode       \* what the process returned

writerVars == <<entry, staging, aged, minute, pc, mode, target, victim,
                collect, exc, handlers, committed, bailedOut>>
loopVars == <<phase, attempt, outcome, log, verdict>>
config == <<engine, validTag>>
record == <<passed, summary, troubleshoot>>
vars == <<writerVars, loopVars, config, step, record, exitCode>>

Writer == INSTANCE AtomicWriter
Loop == INSTANCE RetryLoop WITH FixOutcomes <- {"not_applied"}

-----------------------------------------------------------------------------

Checks == {"validation", "dry_run", "build"}
NotRun == "not_run"
NotWritten == [check |-> "none", attempts |-> 0]
Running == -1

Steps == {"setup", "inputs", "analysis", "writer", "generate"} \cup Checks
           \cup {"package", "commit", "end"}

\* K8sValidator.validate: exit code 0, 2 or 1 of the report, or an exception.
ValidationOutcomes == {"ok", "warn", "failed", "error"}

\* KubectlDryRunner.dry_run: skipped without kubectl or without a cluster; a
\* timeout is an exception.
DryRunOutcomes == {"ok", "skipped", "failed", "error"}

\* BuildRunner.build: skipped without an engine; a timeout is a failure.  The
\* runner is told "skip" in place of an engine that main does not know.
BuildOutcomes ==
  IF engine = "unknown" THEN {"skipped"}
  ELSE {"ok", "skipped", "failed", "error"}

Outcomes(check) == CASE check = "validation" -> ValidationOutcomes
                     [] check = "dry_run" -> DryRunOutcomes
                     [] check = "build" -> BuildOutcomes

TypeOK ==
  /\ Writer!TypeOK
  /\ Loop!TypeOK
  /\ engine \in Engines
  /\ validTag \in BOOLEAN
  /\ step \in Steps
  /\ passed \in [Checks -> {NotRun, "ok", "warn", "skipped"}]
  /\ summary \subseteq {"kubectl_dry_run", "container_build"}
  /\ troubleshoot \in [check : Checks, attempts : 1 .. MaxAttempts]
                        \cup {NotWritten}
  /\ exitCode \in {Running, 0, 1, 2, 130, 143}

Init ==
  /\ Writer!Init
  /\ Loop!Init
  /\ engine \in Engines
  /\ validTag \in BOOLEAN
  /\ step = "setup"
  /\ passed = [check \in Checks |-> NotRun]
  /\ summary = {}
  /\ troubleshoot = NotWritten
  /\ exitCode = Running

-----------------------------------------------------------------------------
(* Before the writer: dependencies and configuration, STEP 1 and STEP 2.   *)

Following(early) == CASE early = "setup" -> "inputs"
                      [] early = "inputs" -> "analysis"
                      [] early = "analysis" -> "writer"

EarlyStep ==
  /\ pc[Self] = "new"
  /\ step \in {"setup", "inputs", "analysis"}
  /\ step' = Following(step)
  /\ UNCHANGED <<writerVars, loopVars, config, record, exitCode>>

\* A bad timeout, replica count or port, an unknown stack, an unreadable file.
EarlyError ==
  /\ pc[Self] = "new"
  /\ step \in {"setup", "inputs", "analysis"}
  /\ step' = "end"
  /\ exitCode' = 1
  /\ UNCHANGED <<writerVars, loopVars, config, record>>

EnterWriter ==
  /\ step = "writer"
  /\ Writer!Enter(Self)
  /\ step' = IF pc'[Self] = "body" THEN "generate" ELSE step
  /\ UNCHANGED <<loopVars, config, record, exitCode>>

-----------------------------------------------------------------------------
(* STEP 3, STEP 4 and STEP 5, in the body of the with block.               *)

\* Dockerfile and manifests are written; the validation loop is called.
Generate ==
  /\ step = "generate"
  /\ validTag
  /\ Writer!WriteFiles(Self)
  /\ Loop!Call
  /\ step' = "validation"
  /\ UNCHANGED <<config, record, exitCode>>

\* generate_deployment and generate_statefulset raise InvalidImageError.
RejectTag ==
  /\ step = "generate"
  /\ ~ validTag
  /\ Writer!BodyRaises(Self)
  /\ UNCHANGED <<loopVars, config, step, record, exitCode>>

\* A missing template, a full disk: any exception but BailOutError leaves the
\* block.
BodyFails ==
  /\ step \in {"generate", "package"} \cup Checks
  /\ phase \in {"idle", "returned"}
  /\ Writer!BodyRaises(Self)
  /\ UNCHANGED <<loopVars, config, step, record, exitCode>>

\* One check is under way; the loop records it.
TryCheck ==
  /\ step \in Checks
  /\ pc[Self] = "body"
  /\ Loop!Operate(Outcomes(step))
  /\ UNCHANGED <<writerVars, config, step, record, exitCode>>

\* The fix stubs of this version never apply anything.
TryFix ==
  /\ step \in Checks
  /\ pc[Self] = "body"
  /\ Loop!TryFix
  /\ UNCHANGED <<writerVars, config, step, record, exitCode>>

\* Mutants of NextStep: an engine that is not known is treated like "skip"; a
\* passed dry run starts the gate afresh.
NextStepKnownOnly(check) ==
  CASE check = "validation" -> "dry_run"
    [] check = "dry_run" -> IF engine \notin {"skip", "unknown"} THEN "build"
                            ELSE "package"
    [] check = "build" -> "package"

NextStepAfresh(check) ==
  CASE check = "validation" -> "dry_run"
    [] check = "dry_run" -> "validation"
    [] check = "build" -> "package"

\* The build is opt-in, and the image tag is looked at again.
NextStep(check) ==
  CASE check = "validation" -> "dry_run"
    [] check = "dry_run" -> IF engine # "skip" /\ validTag THEN "build"
                            ELSE "package"
    [] check = "build" -> "package"

PassCheck ==
  /\ step \in Checks
  /\ pc[Self] = "body"
  /\ phase = "returned" /\ verdict = "success"
  /\ passed' = [passed EXCEPT ![step] = outcome]
  /\ step' = NextStep(step)
  /\ IF step' \in Checks THEN Loop!Call ELSE UNCHANGED loopVars
  /\ UNCHANGED <<writerVars, config, summary, troubleshoot, exitCode>>

\* Mutants of BailOut: attempts are counted from 0; troubleshoot.md is left to
\* the caller, after the rename.
BailOutFromZero ==
  /\ step \in Checks
  /\ phase = "returned" /\ verdict = "bailout"
  /\ Writer!BodyBailsOut(Self)
  /\ troubleshoot' = [check |-> step, attempts |-> Len(log) - 1]
  /\ UNCHANGED <<loopVars, config, step, passed, summary, exitCode>>

BailOutUnexplained ==
  /\ step \in Checks
  /\ phase = "returned" /\ verdict = "bailout"
  /\ Writer!BodyBailsOut(Self)
  /\ UNCHANGED <<loopVars, config, step, record, exitCode>>

\* _raise_bailout writes troubleshoot.md; run() calls bailout_commit.
BailOut ==
  /\ step \in Checks
  /\ phase = "returned" /\ verdict = "bailout"
  /\ Writer!BodyBailsOut(Self)
  /\ troubleshoot' = [check |-> step, attempts |-> Len(log)]
  /\ UNCHANGED <<loopVars, config, step, passed, summary, exitCode>>

\* Mutant of SkippedNames: the optional build is forgotten.
SkippedNamesOfDryRun ==
  IF passed["dry_run"] = "skipped" THEN {"kubectl_dry_run"} ELSE {}

\* collect_validation_outcome, then OutputPackager.write.
SkippedNames ==
  {IF check = "dry_run" THEN "kubectl_dry_run" ELSE "container_build" :
     check \in {c \in {"dry_run", "build"} : passed[c] = "skipped"}}

Package ==
  /\ step = "package"
  /\ Writer!WriteFiles(Self)
  /\ summary' = SkippedNames
  /\ step' = "commit"
  /\ UNCHANGED <<loopVars, config, passed, troubleshoot, exitCode>>

CallCommit ==
  /\ step = "commit"
  /\ Writer!CallCommit(Self)
  /\ UNCHANGED <<loopVars, config, step, record, exitCode>>

\* The writer's own steps: commit, bailout_commit, __exit__.
WriterStep ==
  /\ exitCode = Running
  /\ Writer!Commit(Self) \/ Writer!BailoutCommit(Self) \/ Writer!Leave(Self)
  /\ UNCHANGED <<loopVars, config, step, record, exitCode>>

-----------------------------------------------------------------------------
(* main: from the result, or the exception, to the exit code.              *)

\* Mutant of ReportCode: any exit code but 0 of the report is a failure.
ReportCodeStrict == IF passed["validation"] = "ok" THEN 0 ELSE 1

\* PackagingResult.validation_exit_code, through _compute_cli_exit_code.
ReportCode == IF passed["validation"] = "warn" THEN 2 ELSE 0

\* Mutant of CodesFor: a run that a signal stopped counts as failed.
CodesForSignalAsError(exception) ==
  CASE exception = "none" -> {ReportCode}
    [] exception \in {"bailout", "abort", "error", "signal"} -> {1}
    [] exception = "killed" -> {130, 143}

CodesFor(exception) ==
  CASE exception = "none" -> {ReportCode}
    [] exception \in {"bailout", "abort", "error"} -> {1}
    [] exception = "signal" -> {130}
    [] exception = "killed" -> {130, 143}

Return ==
  /\ exitCode = Running
  /\ pc[Self] = "done"
  /\ exitCode' \in CodesFor(exc[Self])
  /\ step' = "end"
  /\ UNCHANGED <<writerVars, loopVars, config, record>>

-----------------------------------------------------------------------------
(* Signals, crashes and other runs.                                        *)

\* A signal, or a kill, strikes this run wherever it is.
Interrupt ==
  /\ exitCode = Running
  /\ \/ Writer!SignalHandler(Self) \/ Writer!DefaultSignal(Self)
     \/ Writer!Crash(Self)
  /\ UNCHANGED <<loopVars, config, step, record, exitCode>>

\* A rival that is killed takes no further steps; AtomicWriter's own runs
\* cover what signals and time do to it.
Others ==
  /\ \E v \in Writers \ {Self} : Writer!Run(v)
  /\ UNCHANGED <<loopVars, config, step, record, exitCode>>

RunStep ==
  \/ EarlyStep \/ EnterWriter \/ Generate \/ RejectTag \/ TryCheck \/ TryFix
  \/ PassCheck \/ BailOut \/ Package \/ CallCommit \/ WriterStep \/ Return

Next == RunStep \/ EarlyError \/ BodyFails \/ Interrupt \/ Others

Spec == Init /\ [][Next]_vars

\* Every check has a time limit but a build with build_timeout_seconds = 0.
MayHang == step = "build" /\ phase = "operate" /\ engine = "unlimited"

FairSpec == Spec /\ WF_vars(RunStep /\ ~ MayHang)

-----------------------------------------------------------------------------
(* Safety.                                                                 *)

Published ==
  \E p \in Writer!Path :
    p.kind # "failed" /\ entry[p] = [state |-> "whole", owner |-> Self]

Requested == {"validation", "dry_run"} \cup IF engine = "skip" THEN {}
                                            ELSE {"build"}

\* No result reaches a published name, at any moment and whatever interrupts
\* the run later, unless every check that was asked for let it through.
GateBeforePublish ==
  Published => \A check \in Requested : passed[check] # NotRun

\* The exit code tells a caller what happened to the files: 0 and 2 after a
\* commit that returned, with 2 exactly for warnings; 1 only if no result of
\* this run was published.
ExitCodeTellsTruth ==
  /\ exitCode \in {0, 2} => /\ committed[Self]
                            /\ exitCode = 2 <=> passed["validation"] = "warn"
  /\ exitCode = 1 => ~ committed[Self] /\ ~ Published

\* A published summary.json lists a check as skipped exactly when it was asked
\* for and did not run.
SkippedIsTold ==
  Published =>
    /\ "kubectl_dry_run" \in summary <=> passed["dry_run"] = "skipped"
    /\ "container_build" \in summary <=>
         "build" \in Requested /\ passed["build"] = "skipped"

\* The evidence that a failed run leaves explains the failure: it names the
\* check that gave up, all earlier ones having passed, and the one attempt that
\* was made at it, no fix function ever applying anything; and nothing of this
\* run is published (_raise_bailout, _fix_k8s_failures, bailout_commit).
EvidenceExplains ==
  \A p \in Writer!Path :
    entry[p] = [state |-> "evidence", owner |-> Self] =>
      /\ p.kind = "failed"
      /\ troubleshoot # NotWritten
      /\ passed[troubleshoot.check] = NotRun
      /\ troubleshoot.attempts = 1
      /\ troubleshoot.check = "dry_run" => passed["validation"] # NotRun
      /\ troubleshoot.check = "build" => passed["dry_run"] # NotRun
      /\ ~ Published

StepsLeft ==
  CASE step = "setup" -> 10
    [] step = "inputs" -> 9
    [] step = "analysis" -> 8
    [] step = "writer" -> 7
    [] step = "generate" -> 6
    [] step = "validation" -> 5
    [] step = "dry_run" -> 4
    [] step = "build" -> 3
    [] step = "package" -> 2
    [] step = "commit" -> 1
    [] step = "end" -> 0

\* What a run has before it, the most significant part first.
Distance ==
  <<IF exitCode = Running THEN 1 ELSE 0, Writer!Rank(pc[Self]), StepsLeft,
    Loop!Remaining, Writer!Left(Self)>>

Closer(after, before) ==
  \E i \in 1 .. 5 :
    /\ after[i] \in 0 .. before[i] - 1
    /\ \A j \in 1 .. i - 1 : after[j] = before[j]

\* No run goes round in circles: whatever its checks answer, each of its steps
\* and whatever strikes it brings it nearer to its exit code, and other runs
\* never take it back.
RunCountsDown ==
  [][Closer(Distance', Distance) \/ (UNCHANGED Distance /\ Others)]_vars

-----------------------------------------------------------------------------
(* Refinement of Release.                                                  *)

Seen ==
  IF Published THEN "result"
  ELSE IF \E p \in Writer!Path :
            entry[p] = [state |-> "evidence", owner |-> Self]
    THEN "evidence" ELSE "nothing"

\* How far the writer is; a failure is an error of the run, or strikes it.
RunStatus ==
  IF \/ exitCode # Running /\ pc[Self] = "new"
     \/ pc[Self] # "crashed" /\ exc[Self] \in {"error", "abort"}
    THEN "refused"
  ELSE IF Writer!StatusOf(Self) = "failed" THEN "cut"
  ELSE Writer!StatusOf(Self)

Promise == INSTANCE Release WITH
  requested <- Requested,
  gaveUp <- troubleshoot.check,
  status <- RunStatus,
  shown <- Seen

\* A run does what Release promises: in whatever order checks, retries, the
\* writer's calls, rivals, signals and crashes come, what is shown, and then
\* the exit code, follow the gate (SkillPipeline.run, main).
ImplementsRelease == Promise!Spec

-----------------------------------------------------------------------------
(* Liveness, under FairSpec.                                               *)

\* A run ends, unless it builds an image without a time limit.
Ends == <>(exitCode # Running \/ pc[Self] = "crashed" \/ engine = "unlimited")

-----------------------------------------------------------------------------
(* What the documentation says, where the code does something else.        *)

\* README.md:223-237: after exit codes 0, 1 and 2 the CI script reads
\* k8s-output/summary.json as the report of the run that has just ended ("FAIL:
\* check summary.json" for 1).
SummaryIsOfThisRun ==
  exitCode \in 0 .. 2 /\ entry[Writer!Out].state = "whole"
    => entry[Writer!Out].owner = Self
=============================================================================

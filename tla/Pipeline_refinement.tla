-------------------------- MODULE Pipeline_refinement --------------------------
(***************************************************************************)
(* A pipeline run implements Release: every interleaving of its checks,    *)
(* retries, writer's calls, rivals, signals and crashes is, seen through   *)
(* Seen, RunStatus and the exit code, one that Release allows.  And what   *)
(* AtomicWriter promises holds of the writers as the pipeline drives them. *)
(***************************************************************************)
EXTENDS Pipeline_proofs

Committing == {"resolve", "prompt", "rm_begin", "rm_files", "rm_dir",
               "suffix_scan", "replace"}

\* troubleshoot.md is there exactly on the way out through bailout_commit; what
\* commit is about to rename is complete, and goes to a name of a result.
WayInv ==
  /\ pc[Self] \in Entered \cup {"body", "flag"} \cup Committing
       => troubleshoot = NotWritten
  /\ pc[Self] \in BailingOut => troubleshoot # NotWritten
  /\ pc[Self] \in Entered \cup {"body"} => target[Self] = Writer!Out
  /\ pc[Self] \in Committing =>
       /\ staging[Self] \in {"whole", "absent"}
       /\ DOMAIN target[Self] = {"kind", "minute", "n"}
       /\ target[Self].kind # "failed"

\* What the loop holds is an answer of the check that it runs.
OutcomeInv == step \in Checks /\ outcome # "none" => outcome \in Outcomes(step)

-----------------------------------------------------------------------------
(* Where a run's evidence and its result come from.                        *)

\* Another run, or a step that is none of this run's calls, keeps it.
LEMMA ElsewhereKeepsWay ==
  ASSUME WayInv, Elsewhere, UNCHANGED troubleshoot
  PROVE  WayInv'
  BY DEF WayInv, Elsewhere, BailingOut, Entered, Committing

\* So does every call of this run.
LEMMA OwnKeepsWay ==
  ASSUME WayInv, SelfInv, UNCHANGED troubleshoot,
         \/ Writer!Enter(Self) \/ Writer!WriteFiles(Self)
         \/ Writer!BodyRaises(Self)
         \/ Writer!CallCommit(Self) \/ Writer!Commit(Self)
         \/ Writer!BailoutCommit(Self) \/ Writer!Leave(Self)
         \/ Writer!SignalHandler(Self) \/ Writer!DefaultSignal(Self)
         \/ Writer!Crash(Self)
  PROVE  WayInv'
<1> USE SelfAssumption
    DEF SelfInv, WayInv, Domains, BailingOut, Committing, Entered,
        Writer!Goto, Writer!Raise, Writer!flags, Writer!private
<1>1. CASE Writer!Enter(Self)
  BY <1>1
  DEF Writer!Enter, Writer!RegisterSigint, Writer!RegisterSigterm,
      Writer!GcList, Writer!GcRemove, Writer!GcDone, Writer!MakeStaging,
      Writer!EnterFails, Writer!Entering
<1>2. CASE \/ Writer!WriteFiles(Self) \/ Writer!BodyRaises(Self)
  BY <1>2 DEF Writer!WriteFiles, Writer!BodyRaises
<1>3. CASE Writer!CallCommit(Self)
  BY <1>3 DEF Writer!CallCommit, Writer!Out
<1>4. CASE \/ Writer!ResolveFinalPath(Self) \/ Writer!OverwriteBegin(Self)
           \/ Writer!OverwriteFiles(Self) \/ Writer!OverwriteEnd(Self)
           \/ Writer!OverwriteFails(Self)
  BY <1>4
  DEF Writer!ResolveFinalPath, Writer!OverwriteBegin,
      Writer!OverwriteFiles, Writer!OverwriteEnd, Writer!OverwriteFails,
      Writer!StartOverwrite, Writer!StartSuffix, Writer!Abort
<1>5. CASE Writer!DoSuffix(Self) \/ Writer!BailoutScan(Self)
  BY <1>5
  DEF Writer!DoSuffix, Writer!BailoutScan, Writer!ProbeSlot, Writer!Abort
<1>6. CASE \/ Writer!CommitReplace(Self) \/ Writer!CommitFlag(Self)
           \/ Writer!BailoutReplace(Self) \/ Writer!BailoutFlag(Self)
  BY <1>6
  DEF Writer!CommitReplace, Writer!Replace, Writer!ReplaceFails,
      Writer!CommitFlag, Writer!BailoutReplace, Writer!BailoutFlag
<1>7. CASE Writer!Leave(Self)
  BY <1>7
  DEF Writer!Leave, Writer!Exit, Writer!RestoreSigint, Writer!RestoreSigterm
<1>8. CASE \/ Writer!SignalHandler(Self) \/ Writer!DefaultSignal(Self)
           \/ Writer!Crash(Self)
  BY <1>8
  DEF Writer!SignalHandler, Writer!DefaultSignal, Writer!Crash,
      Writer!AfterSignal, Writer!Gone, Writer!InBlock, Writer!Entering
<1> QED
  BY <1>1, <1>2, <1>3, <1>4, <1>5, <1>6, <1>7, <1>8
  DEF Writer!Commit, Writer!BailoutCommit

\* Each step keeps it; BailOut is the one that writes troubleshoot.md.
LEMMA NextWay == SelfInv /\ WayInv /\ [Next]_vars => WayInv'
<1> SUFFICES ASSUME SelfInv, WayInv, [Next]_vars PROVE WayInv'
  OBVIOUS
<1>1. CASE UNCHANGED <<pc, target, staging, troubleshoot>>
  BY <1>1 DEF WayInv
<1>2. CASE Others
  BY <1>2, RivalIsElsewhere, ElsewhereKeepsWay DEF Others, SelfInv, record
<1>3. CASE \/ EnterWriter \/ Generate \/ RejectTag \/ BodyFails
           \/ Package \/ CallCommit \/ WriterStep \/ Interrupt
  <2>1. \/ Writer!Enter(Self) \/ Writer!WriteFiles(Self)
        \/ Writer!BodyRaises(Self)
        \/ Writer!CallCommit(Self) \/ Writer!Commit(Self)
        \/ Writer!BailoutCommit(Self) \/ Writer!Leave(Self)
        \/ Writer!SignalHandler(Self) \/ Writer!DefaultSignal(Self)
        \/ Writer!Crash(Self)
    BY <1>3 DEF EnterWriter, Generate, RejectTag, BodyFails, Package,
                CallCommit, WriterStep, Interrupt
  <2>2. UNCHANGED troubleshoot
    BY <1>3 DEF EnterWriter, Generate, RejectTag, BodyFails, Package,
                CallCommit, WriterStep, Interrupt, record
  <2> QED BY <2>1, <2>2, OwnKeepsWay
<1>4. CASE BailOut
  <2>1. /\ troubleshoot' = [check |-> step, attempts |-> Len(log)]
        /\ step \in Checks /\ pc'[Self] = "bailout_scan"
    BY <1>4, SelfAssumption
    DEF BailOut, Writer!BodyBailsOut, Writer!Goto, SelfInv, Domains
  <2>2. troubleshoot'.check = step /\ NotWritten.check = "none"
    BY <2>1 DEF NotWritten
  <2>3. troubleshoot' # NotWritten
    BY <2>1, <2>2 DEF Checks
  <2> QED BY <2>1, <2>3 DEF WayInv, BailingOut, Committing, Entered
<1>5. CASE \/ EarlyStep \/ EarlyError \/ TryCheck \/ TryFix \/ PassCheck
           \/ Return \/ UNCHANGED vars
  BY <1>1, <1>5 DEF EarlyStep, EarlyError, TryCheck, TryFix, PassCheck, Return,
                    vars, writerVars, record
<1> QED BY <1>2, <1>3, <1>4, <1>5 DEF Next, RunStep

\* It holds before the run has done anything.
LEMMA InitWay == Init => WayInv
  BY SelfAssumption
  DEF Init, Writer!Init, WayInv, BailingOut, Committing, Entered

\* Each step keeps the loop's outcome one of its check.
LEMMA NextOutcome == OutcomeInv /\ [Next]_vars => OutcomeInv'
<1> SUFFICES ASSUME OutcomeInv, [Next]_vars PROVE OutcomeInv'
  OBVIOUS
<1> USE DEF OutcomeInv
<1>1. CASE TryCheck \/ TryFix
  <2>1. \A check : Outcomes(check)' = Outcomes(check)
    BY <1>1 DEF TryCheck, TryFix, Outcomes, BuildOutcomes, config
  <2> QED BY <1>1, <2>1 DEF TryCheck, TryFix, Loop!Operate, Loop!TryFix
<1>2. CASE Generate
  BY <1>2 DEF Generate, Loop!Call
<1>3. CASE PassCheck
  <2>1. step' \in Checks => outcome' = "none"
    BY <1>3 DEF PassCheck, Loop!Call
  <2> QED BY <2>1
<1>4. CASE \/ EarlyStep \/ EarlyError \/ EnterWriter \/ RejectTag \/ BodyFails
           \/ BailOut \/ Package \/ CallCommit \/ WriterStep \/ Return
           \/ Interrupt \/ Others \/ UNCHANGED vars
  <2>1. /\ UNCHANGED <<outcome, engine>>
        /\ step' = step \/ step' \notin Checks
    BY <1>4
    DEF EarlyStep, EarlyError, EnterWriter, RejectTag, BodyFails, BailOut,
        Package, CallCommit, WriterStep, Return, Interrupt, Others, vars,
        loopVars, config, Following, Checks
  <2>2. Outcomes(step)' = Outcomes(step) \/ step' \notin Checks
    BY <2>1 DEF Outcomes, BuildOutcomes
  <2> QED BY <2>1, <2>2
<1> QED BY <1>1, <1>2, <1>3, <1>4 DEF Next, RunStep

\* No check has run yet.
LEMMA InitOutcome == Init => OutcomeInv
  BY DEF Init, Loop!Init, OutcomeInv

KnownInv ==
  /\ TypeOK /\ GateInv /\ SelfInv /\ TaleInv /\ ReturnInv
  /\ WayInv /\ OutcomeInv

\* The invariants that the refinement rests on, for any rivals, engines, modes
\* and faults.
THEOREM KnownHolds == Spec => []KnownInv
<1> QED
  BY InitWay, InitOutcome, NextWay, NextOutcome, TaleHolds, LoopTypes,
     PipelineTypes, PTL
  DEF KnownInv, Spec

-----------------------------------------------------------------------------
(* What a step changes of what a caller sees.                              *)

\* How the status may go on while nothing appears.
Moves(s, t) ==
  \/ s = t
  \/ s = "published" /\ t = "ok"
  \/ s = "preserved" /\ t = "bailed"
  \/ s = "running" /\ t = "refused"
  \/ s \in {"running", "published", "preserved", "refused"} /\ t = "cut"

Renames ==
  \/ pc[Self] = "replace" /\ Writer!Replace(Self, "flag")
  \/ pc[Self] = "bailout_replace" /\ Writer!Replace(Self, "bailout_flag")

\* While a run is going on, an error or a signal ends what its caller waits for.
LEMMA RaisingMoves ==
  ASSUME SelfInv, exitCode = Running, exitCode' = Running,
         pc[Self] \notin Writer!Gone, pc'[Self] # "crashed",
         \/ exc[Self] = "none" /\ pc[Self] \notin {"flag", "bailout_flag"}
              /\ ~ committed[Self] /\ exc'[Self] \in {"error", "abort"}
         \/ exc'[Self] \in {"signal", "killed"}
  PROVE  Moves(RunStatus, RunStatus')
<1>1. CASE exc'[Self] \in {"error", "abort"}
  <2>1. RunStatus' = "refused"
    BY <1>1 DEF RunStatus
  <2>2. RunStatus = "running"
    BY <1>1 DEF RunStatus, Writer!StatusOf, Writer!Gone
  <2> QED BY <2>1, <2>2 DEF Moves
<1>2. CASE exc'[Self] \in {"signal", "killed"}
  <2>1. RunStatus' = "cut"
    BY <1>2 DEF RunStatus, Writer!StatusOf
  <2>2. RunStatus \in {"running", "published", "preserved", "refused", "cut"}
    BY DEF RunStatus, Writer!StatusOf, Writer!Gone
  <2> QED BY <2>1, <2>2 DEF Moves
<1> QED BY <1>1, <1>2

\* Each call of this run moves its status on so, unless it is the rename.
LEMMA OwnMoves ==
  ASSUME SelfInv, exitCode = Running, exitCode' = Running,
         \/ Writer!Enter(Self) \/ Writer!WriteFiles(Self)
         \/ Writer!BodyRaises(Self) \/ Writer!BodyBailsOut(Self)
         \/ Writer!CallCommit(Self) \/ Writer!Commit(Self)
         \/ Writer!BailoutCommit(Self) \/ Writer!Leave(Self)
         \/ Writer!SignalHandler(Self) \/ Writer!DefaultSignal(Self)
         \/ Writer!Crash(Self)
  PROVE  Moves(RunStatus, RunStatus') \/ Renames
<1> DEFINE Goal == Moves(RunStatus, RunStatus')
           Tame == /\ exc'[Self] = exc[Self] /\ committed'[Self] = committed[Self]
                   /\ {pc[Self], pc'[Self]} \cap
                        {"done", "crashed", "flag", "bailout_flag"} = {}
           Raises == /\ pc[Self] \in Entered \cup Writer!InBlock
                     /\ pc[Self] \notin {"flag", "bailout_flag"}
                     /\ pc'[Self] # "crashed"
                     /\ exc'[Self] \in {"error", "abort"}
<1> USE SelfAssumption
    DEF Domains, Writer!Goto, Writer!Raise, Writer!flags, Writer!private
<1>0. Domains
  BY DEF SelfInv
<1>1. Tame => Goal
  BY DEF RunStatus, Writer!StatusOf, Moves
<1>2. Raises => Goal
  <2> SUFFICES ASSUME Raises PROVE Goal
    OBVIOUS
  <2>1. /\ exc[Self] = "none" /\ ~ committed[Self]
        /\ pc[Self] \notin Writer!Gone
    BY DEF SelfInv, Entered, Leaving, Writer!Gone, Writer!InBlock,
           Writer!Restoring
  <2> HIDE DEF Domains
  <2> QED BY <2>1, RaisingMoves
<1>3. CASE Writer!Enter(Self)
  <2>1. CASE Writer!EnterFails(Self)
    <3>1. Raises
      BY <1>0, <2>1 DEF Writer!EnterFails, Writer!Entering, Entered
    <3> QED BY <3>1, <1>2
  <2>2. CASE ~ Writer!EnterFails(Self)
    <3>1. Tame
      BY <1>0, <1>3, <2>2
      DEF Writer!Enter, Writer!RegisterSigint, Writer!RegisterSigterm,
          Writer!GcList, Writer!GcRemove, Writer!GcDone, Writer!MakeStaging
    <3> QED BY <3>1, <1>1
  <2> QED BY <2>1, <2>2
<1>4. CASE \/ Writer!WriteFiles(Self) \/ Writer!BodyBailsOut(Self)
           \/ Writer!CallCommit(Self)
  <2>1. Tame
    BY <1>0, <1>4
    DEF Writer!WriteFiles, Writer!BodyBailsOut, Writer!CallCommit
  <2> QED BY <2>1, <1>1
<1>5. CASE Writer!BodyRaises(Self)
  <2>1. Raises
    BY <1>0, <1>5 DEF Writer!BodyRaises, Writer!InBlock
  <2> QED BY <2>1, <1>2
<1>6. CASE \/ Writer!ResolveFinalPath(Self) \/ Writer!OverwriteBegin(Self)
           \/ Writer!OverwriteFiles(Self) \/ Writer!OverwriteEnd(Self)
           \/ Writer!OverwriteFails(Self)
  <2>1. Tame \/ Raises
    BY <1>0, <1>6
    DEF Writer!ResolveFinalPath, Writer!OverwriteBegin,
        Writer!OverwriteFiles, Writer!OverwriteEnd, Writer!OverwriteFails,
        Writer!StartOverwrite, Writer!StartSuffix, Writer!Abort,
        Writer!InBlock
  <2> QED BY <2>1, <1>1, <1>2
<1>7. CASE Writer!DoSuffix(Self) \/ Writer!BailoutScan(Self)
  <2>1. Tame \/ Raises
    BY <1>0, <1>7
    DEF Writer!DoSuffix, Writer!BailoutScan, Writer!ProbeSlot, Writer!Abort,
        Writer!InBlock
  <2> QED BY <2>1, <1>1, <1>2
<1>8. CASE Writer!CommitReplace(Self) \/ Writer!BailoutReplace(Self)
  <2>1. Renames \/ Raises
    BY <1>0, <1>8
    DEF Writer!CommitReplace, Writer!BailoutReplace, Renames,
        Writer!ReplaceFails, Writer!InBlock
  <2> QED BY <2>1, <1>2
<1>9. CASE Writer!CommitFlag(Self)
  <2>1. /\ pc[Self] = "flag" /\ pc'[Self] = "exit" /\ committed'[Self]
        /\ exc'[Self] = exc[Self]
    BY <1>0, <1>9 DEF Writer!CommitFlag
  <2>2. exc[Self] = "none"
    BY <2>1 DEF SelfInv, Writer!InBlock
  <2> QED BY <2>1, <2>2 DEF RunStatus, Writer!StatusOf, Moves
<1>10. CASE Writer!BailoutFlag(Self)
  <2>1. /\ pc[Self] = "bailout_flag" /\ pc'[Self] = "exit"
        /\ exc'[Self] = "bailout"
    BY <1>0, <1>10 DEF Writer!BailoutFlag
  <2>2. exc[Self] = "none"
    BY <2>1 DEF SelfInv, Writer!InBlock
  <2> QED BY <2>1, <2>2 DEF RunStatus, Writer!StatusOf, Moves
<1>11. CASE Writer!Exit(Self) \/ Writer!RestoreSigint(Self)
  <2>1. Tame
    BY <1>0, <1>11 DEF Writer!Exit, Writer!RestoreSigint
  <2> QED BY <2>1, <1>1
<1>12. CASE Writer!RestoreSigterm(Self)
  <2>1. /\ pc[Self] = "restore_term" /\ pc'[Self] = "done"
        /\ exc'[Self] = exc[Self] /\ committed'[Self] = committed[Self]
    BY <1>0, <1>12 DEF Writer!RestoreSigterm
  <2>2. exc[Self] = "none" => committed[Self]
    BY <2>1 DEF SelfInv, Leaving
  <2>3. exc[Self] \in {"none", "error", "abort", "bailout", "signal", "killed"}
    BY DEF SelfInv
  <2> QED BY <2>1, <2>2, <2>3 DEF RunStatus, Writer!StatusOf, Moves
<1>13. CASE Writer!SignalHandler(Self) \/ Writer!DefaultSignal(Self)
  <2>1. /\ pc[Self] \notin Writer!Gone /\ pc'[Self] # "crashed"
        /\ exc'[Self] \in {"signal", "killed"}
    BY <1>0, <1>13
    DEF Writer!SignalHandler, Writer!DefaultSignal, Writer!AfterSignal
  <2> HIDE DEF Domains
  <2> QED BY <2>1, RaisingMoves
<1>14. CASE Writer!Crash(Self)
  <2>1. /\ pc[Self] \notin Writer!Gone /\ pc'[Self] = "crashed"
    BY <1>0, <1>14 DEF Writer!Crash
  <2>2. RunStatus' = "cut"
    BY <2>1 DEF RunStatus, Writer!StatusOf
  <2>3. RunStatus \in {"running", "published", "preserved", "refused", "cut"}
    BY <2>1 DEF RunStatus, Writer!StatusOf, Writer!Gone
  <2> QED BY <2>2, <2>3 DEF Moves
<1> QED
  BY <1>3, <1>4, <1>5, <1>6, <1>7, <1>8, <1>9, <1>10, <1>11, <1>12, <1>13,
     <1>14
  DEF Writer!Commit, Writer!BailoutCommit, Writer!Leave

-----------------------------------------------------------------------------
(* What the parent directory shows of the run.                             *)

\* In terms of the entries in its name.
LEMMA SeenIs ==
  Seen = IF Published THEN "result"
         ELSE IF Mine("evidence") # {} THEN "evidence" ELSE "nothing"
  BY DEF Seen, Mine

\* Only steps that touch entries change it.
LEMMA SameEntries ==
  ASSUME UNCHANGED entry
  PROVE  Seen' = Seen
  BY DEF Seen, Published

\* Of this run's calls only the two renames do.
LEMMA OwnShows ==
  ASSUME SelfInv,
         \/ Writer!Enter(Self) \/ Writer!WriteFiles(Self)
         \/ Writer!BodyRaises(Self) \/ Writer!BodyBailsOut(Self)
         \/ Writer!CallCommit(Self) \/ Writer!Commit(Self)
         \/ Writer!BailoutCommit(Self) \/ Writer!Leave(Self)
         \/ Writer!SignalHandler(Self) \/ Writer!DefaultSignal(Self)
         \/ Writer!Crash(Self)
  PROVE  Seen' = Seen \/ Renames
<1>1. CASE \/ Writer!OverwriteBegin(Self) \/ Writer!OverwriteFiles(Self)
           \/ Writer!OverwriteEnd(Self)
  <2>1. /\ DOMAIN entry = Writer!Path
        /\ pc[Self] \in {"rm_begin", "rm_files", "rm_dir"}
    BY <1>1 DEF Writer!OverwriteBegin, Writer!OverwriteFiles,
                Writer!OverwriteEnd, SelfInv, Domains
  <2>2. ~ Published /\ Mine("evidence") = {}
    BY <2>1 DEF SelfInv, HasEvidence, Leaving, BailingOut, Writer!Gone
  <2>3. /\ Mine("whole")' \subseteq Mine("whole")
        /\ Mine("evidence")' \subseteq Mine("evidence")
    BY <1>1, <2>1, RemovalIs, RemovalAddsNothing, SelfAssumption
  <2>4. ~ Published'
    <3>1. Published' => \E p \in Mine("whole")' : p.kind # "failed"
      BY DEF Published, Mine
    <3> QED BY <2>2, <2>3, <3>1, PublishedIsMine
  <2>5. ~ \E p \in Writer!Path :
            entry'[p] = [state |-> "evidence", owner |-> Self]
    BY <2>2, <2>3 DEF Mine
  <2>6. Seen' = "nothing"
    BY <2>4, <2>5 DEF Seen
  <2> QED BY <2>2, <2>6, SeenIs
<1>2. \/ UNCHANGED entry
      \/ Writer!OverwriteBegin(Self) \/ Writer!OverwriteFiles(Self)
      \/ Writer!OverwriteEnd(Self)
      \/ Renames
  BY DEF Renames, Writer!Enter, Writer!RegisterSigint, Writer!RegisterSigterm,
     Writer!GcList, Writer!GcRemove, Writer!GcDone, Writer!MakeStaging,
     Writer!EnterFails, Writer!WriteFiles, Writer!BodyRaises,
     Writer!BodyBailsOut, Writer!CallCommit, Writer!Commit,
     Writer!ResolveFinalPath, Writer!OverwriteFails, Writer!DoSuffix,
     Writer!ProbeSlot, Writer!CommitReplace, Writer!ReplaceFails,
     Writer!CommitFlag, Writer!BailoutCommit, Writer!BailoutScan,
     Writer!BailoutReplace, Writer!BailoutFlag, Writer!Leave, Writer!Exit,
     Writer!RestoreSigint, Writer!RestoreSigterm, Writer!SignalHandler,
     Writer!DefaultSignal, Writer!Crash
<1> QED BY <1>1, <1>2, SameEntries

\* Nobody's rmtree opens a failed run's directory, and no rename lands on one.
LEMMA EvidenceStays ==
  ASSUME SelfInv, NEW w \in Writers, Writer!Run(w), NEW p \in Mine("evidence")
  PROVE  p \in Mine("evidence")'
<1>1. /\ DOMAIN entry = Writer!Path /\ p \in Writer!Path /\ p.kind = "failed"
      /\ entry[p].state = "evidence" /\ p # Writer!Out
  BY DEF SelfInv, Domains, Mine, Writer!Out
<1>2. entry'[p] = entry[p]
  <2>1. CASE \/ Writer!OverwriteBegin(w) \/ Writer!OverwriteFiles(w)
             \/ Writer!OverwriteEnd(w)
    <3>1. CASE \E s \in {"torn", "empty"} :
                 entry' = [entry EXCEPT ![Writer!Out].state = s]
      BY <1>1, <3>1
    <3> QED BY <1>1, <2>1, <3>1, RemovalIs
  <2>2. CASE \E next \in {"flag", "bailout_flag"} : Writer!Replace(w, next)
    BY <1>1, <2>2 DEF Writer!Replace, Writer!CanReplace
  <2>3. \/ UNCHANGED entry
        \/ Writer!OverwriteBegin(w) \/ Writer!OverwriteFiles(w)
        \/ Writer!OverwriteEnd(w)
        \/ \E next \in {"flag", "bailout_flag"} : Writer!Replace(w, next)
    BY DEF Writer!Run, Writer!Enter, Writer!RegisterSigint,
       Writer!RegisterSigterm, Writer!GcList, Writer!GcRemove, Writer!GcDone,
       Writer!MakeStaging, Writer!EnterFails, Writer!Body, Writer!WriteFiles,
       Writer!BodyRaises, Writer!LeaveWithoutCommit, Writer!BodyBailsOut,
       Writer!CallCommit, Writer!Commit, Writer!ResolveFinalPath,
       Writer!OverwriteFails, Writer!DoSuffix, Writer!ProbeSlot,
       Writer!CommitReplace, Writer!ReplaceFails, Writer!CommitFlag,
       Writer!BailoutCommit, Writer!BailoutScan, Writer!BailoutReplace,
       Writer!BailoutFlag, Writer!Leave, Writer!Exit, Writer!RestoreSigint,
       Writer!RestoreSigterm
  <2> QED BY <2>1, <2>2, <2>3
<1> QED BY <1>1, <1>2 DEF Mine

\* A rival can only take a result away.
LEMMA RivalShows ==
  ASSUME SelfInv, NEW w \in Writers, w # Self, Writer!Run(w)
  PROVE  Seen' = Seen \/ (Seen = "result" /\ Seen' = "nothing")
<1>1. Elsewhere
  BY RivalIsElsewhere DEF SelfInv
<1>2. Mine("evidence")' = Mine("evidence")
  BY <1>1, EvidenceStays DEF Elsewhere
<1>3. Published' => Published
  <2>1. Published' => \E p \in Mine("whole")' : p.kind # "failed"
    BY DEF Published, Mine
  <2> QED BY <1>1, <2>1, PublishedIsMine DEF Elsewhere
<1>4. (\E p \in Writer!Path :
         entry'[p] = [state |-> "evidence", owner |-> Self])
        <=> Mine("evidence") # {}
  BY <1>2 DEF Mine
<1>5. Seen' = IF Published' THEN "result"
              ELSE IF Mine("evidence") # {} THEN "evidence" ELSE "nothing"
  BY <1>4 DEF Seen
<1>6. Published => Mine("evidence") = {}
  BY DEF SelfInv, HasEvidence
<1> QED BY <1>3, <1>5, <1>6, SeenIs

-----------------------------------------------------------------------------
(* Every step is a step of Release, or none.                               *)

Visible == <<Requested, passed, troubleshoot.check, RunStatus, Seen, exitCode>>

Allowed == Promise!Next \/ UNCHANGED Visible

\* A step that shows nothing moves at most the status.
LEMMA SilentAllowed ==
  ASSUME UNCHANGED <<config, passed, troubleshoot, exitCode>>, Seen' = Seen,
         exitCode = Running, Moves(RunStatus, RunStatus')
  PROVE  Allowed
<1>1. Requested' = Requested
  BY DEF Requested, config
<1>2. CASE RunStatus' = RunStatus
  BY <1>1, <1>2 DEF Allowed, Visible
<1>3. CASE RunStatus' # RunStatus
  <2>1. \/ Promise!Report("published", "ok")
        \/ Promise!Report("preserved", "bailed")
        \/ Promise!Refuse \/ Promise!Cut
    BY <1>3 DEF Moves, Promise!Report, Promise!Refuse, Promise!Cut
  <2>2. Promise!Move
    BY <2>1 DEF Promise!Move
  <2> QED BY <1>1, <2>2 DEF Allowed, Promise!Next, Running
<1> QED BY <1>2, <1>3

\* A step that leaves everything a caller sees as it is.
LEMMA HiddenAllowed ==
  ASSUME UNCHANGED <<entry, pc, exc, committed, config, passed, troubleshoot,
                     exitCode>>
  PROVE  Allowed
<1>1. Seen' = Seen
  BY SameEntries
<1>2. RunStatus' = RunStatus /\ Requested' = Requested
  BY DEF RunStatus, Writer!StatusOf, Requested, config
<1> QED BY <1>1, <1>2 DEF Allowed, Visible

\* In the body of the with block a run is still running, for its caller.
LEMMA BodyRuns ==
  ASSUME SelfInv, pc[Self] \in {"body", "replace", "bailout_replace"}
  PROVE  RunStatus = "running"
  BY DEF SelfInv, Leaving, Writer!Gone, Writer!InBlock, Writer!Restoring,
         RunStatus, Writer!StatusOf

\* The check under way is the one that is due.
LEMMA StepIsDue ==
  ASSUME KnownInv, step \in Checks
  PROVE  step \in Requested /\ Promise!IsDue(step)
<1>1. passed[step] = "not_run"
  BY DEF KnownInv, TaleInv, NotRun
<1>2. step \in Requested
  BY DEF KnownInv, TaleInv, Requested, Checks
<1>3. /\ step \in {"dry_run", "build"} => passed["validation"] # "not_run"
      /\ step = "build" => passed["dry_run"] # "not_run"
  BY DEF KnownInv, GateInv, StepInv, NotRun
<1>4. \A i, j \in 1 .. 3 :
        i < j /\ Promise!Order[j] = step
          => Promise!Order[i] \notin Promise!Missing
  BY <1>3 DEF Promise!Order, Promise!Missing, Checks
<1> QED BY <1>1, <1>2, <1>4 DEF Promise!IsDue, Promise!Missing

\* A check that passes is let through.
LEMMA PassAllowed ==
  ASSUME KnownInv, PassCheck
  PROVE  Allowed
<1>1. /\ step \in Checks /\ pc[Self] = "body"
      /\ passed' = [passed EXCEPT ![step] = outcome]
      /\ UNCHANGED <<entry, pc, exc, committed, engine, troubleshoot, exitCode>>
      /\ phase = "returned" /\ verdict = "success"
  BY DEF PassCheck, writerVars, config
<1>2. outcome \in Promise!Answers(step)
  <2>1. outcome \in {"ok", "warn", "skipped"}
    BY <1>1 DEF KnownInv, ReturnInv
  <2>2. outcome \in Outcomes(step)
    BY <1>1, <2>1 DEF KnownInv, OutcomeInv
  <2> QED BY <1>1, <2>1, <2>2
          DEF Outcomes, ValidationOutcomes, DryRunOutcomes, BuildOutcomes,
              Checks, Promise!Answers
<1>3. RunStatus = "running" /\ troubleshoot.check = "none"
  BY <1>1, BodyRuns DEF KnownInv, WayInv, NotWritten
<1>4. RunStatus' = RunStatus /\ Requested' = Requested /\ Seen' = Seen
  BY <1>1, SameEntries DEF RunStatus, Writer!StatusOf, Requested
<1>5. exitCode = -1
  BY <1>1 DEF KnownInv, TaleInv, Checks, Running
<1>6. step \in Requested /\ Promise!LetThrough(step)
  BY <1>1, <1>2, <1>3, <1>4, StepIsDue DEF Promise!LetThrough
<1>7. Promise!Move
  BY <1>6 DEF Promise!Move
<1> QED BY <1>4, <1>5, <1>7 DEF Allowed, Promise!Next

\* A check that gives up ends the checking.
LEMMA BailOutAllowed ==
  ASSUME KnownInv, BailOut
  PROVE  Allowed
<1>1. /\ step \in Checks /\ pc[Self] = "body" /\ pc'[Self] = "bailout_scan"
      /\ troubleshoot' = [check |-> step, attempts |-> Len(log)]
      /\ UNCHANGED <<entry, exc, committed, engine, passed, exitCode>>
  BY SelfAssumption
  DEF BailOut, Writer!BodyBailsOut, Writer!Goto, Writer!flags, config,
      KnownInv, SelfInv, Domains
<1>2. RunStatus = "running" /\ troubleshoot.check = "none"
  BY <1>1, BodyRuns DEF KnownInv, WayInv, NotWritten
<1>3. RunStatus' = RunStatus
  BY <1>1 DEF RunStatus, Writer!StatusOf
<1>4. Requested' = Requested /\ Seen' = Seen
  BY <1>1, SameEntries DEF Requested
<1>5. exitCode = -1
  BY <1>1 DEF KnownInv, TaleInv, Checks, Running
<1>6. troubleshoot'.check = step
  BY <1>1
<1>7. step \in Requested /\ Promise!GiveUp(step)
  BY <1>1, <1>2, <1>3, <1>4, <1>6, StepIsDue DEF Promise!GiveUp
<1>8. Promise!Move
  BY <1>7 DEF Promise!Move
<1> QED BY <1>4, <1>5, <1>8 DEF Allowed, Promise!Next

\* The renames show a result of a run past its gate, and the evidence of one
\* that gave up.
LEMMA RenameAllowed ==
  ASSUME KnownInv, KnownInv', Renames, exitCode = Running,
         UNCHANGED <<config, passed, troubleshoot, exitCode>>
  PROVE  Allowed
<1> DEFINE path == target[Self]
<1>1. /\ Self \in Writers /\ DOMAIN entry = Writer!Path /\ Domains
      /\ path \in Writer!Path
      /\ entry' = [entry EXCEPT ![path] =
                     [state |-> staging[Self], owner |-> Self]]
      /\ staging[Self] # "absent"
      /\ UNCHANGED <<exc, committed>>
  BY SelfAssumption
  DEF Renames, Writer!Replace, Writer!CanReplace, Writer!flags, KnownInv,
      SelfInv, Domains, TypeOK, Writer!TypeOK
<1>2. RunStatus = "running" /\ exc[Self] = "none" /\ ~ committed[Self]
  <2>1. pc[Self] \in {"replace", "bailout_replace"}
    BY DEF Renames
  <2> QED BY <2>1, BodyRuns
          DEF KnownInv, SelfInv, Leaving, Writer!Gone, Writer!InBlock,
              Writer!Restoring
<1>3. Requested' = Requested
  BY DEF Requested, config
<1>4. entry'[path] = [state |-> staging[Self], owner |-> Self]
  BY <1>1
<1>5. CASE pc[Self] = "replace" /\ Writer!Replace(Self, "flag")
  <2>1. /\ staging[Self] = "whole" /\ path.kind # "failed"
        /\ troubleshoot = NotWritten
    BY <1>1, <1>5 DEF KnownInv, WayInv, Committing
  <2>2. Promise!Missing = {}
    BY <2>1 DEF KnownInv, GateInv, StagedInv, AllPassed, Promise!Missing, NotRun
  <2>3. Seen' = "result"
    BY <1>1, <1>4, <2>1 DEF Seen, Published
  <2>4. pc'[Self] = "flag"
    BY <1>1, <1>5 DEF Writer!Replace, Writer!Goto, Domains
  <2>5. RunStatus' = "published"
    BY <1>1, <1>2, <2>4 DEF RunStatus, Writer!StatusOf
  <2>6. Promise!Publish
    BY <1>2, <2>1, <2>2, <2>3, <2>5 DEF Promise!Publish, NotWritten
  <2>7. Promise!Move
    BY <2>6 DEF Promise!Move
  <2> QED BY <1>3, <2>7 DEF Allowed, Promise!Next, Running
<1>6. CASE /\ pc[Self] = "bailout_replace"
           /\ Writer!Replace(Self, "bailout_flag")
  <2>1. staging[Self] = "evidence"
    BY <1>1, <1>6 DEF KnownInv, SelfInv, BailingOut
  <2>2. path \in Mine("evidence")'
    BY <1>1, <1>4, <2>1 DEF Mine
  <2>3. ~ Published'
    BY <2>2 DEF KnownInv, SelfInv, HasEvidence
  <2>4. Seen' = "evidence"
    BY <1>1, <1>4, <2>1, <2>3 DEF Seen
  <2>5. pc'[Self] = "bailout_flag"
    BY <1>1, <1>6 DEF Writer!Replace, Writer!Goto, Domains
  <2>6. RunStatus' = "preserved"
    BY <1>1, <1>2, <2>5 DEF RunStatus, Writer!StatusOf
  <2>7. troubleshoot.check # "none"
    BY <1>6 DEF KnownInv, WayInv, BailingOut, TypeOK, Checks
  <2>8. Promise!Preserve
    BY <1>2, <2>4, <2>6, <2>7 DEF Promise!Preserve
  <2>9. Promise!Move
    BY <2>8 DEF Promise!Move
  <2> QED BY <1>3, <2>9 DEF Allowed, Promise!Next, Running
<1> QED BY <1>5, <1>6 DEF Renames

\* Unusable input ends the run before any check.
LEMMA EarlyErrorAllowed ==
  ASSUME KnownInv, EarlyError
  PROVE  Allowed
<1>1. /\ pc[Self] = "new" /\ step \in Early /\ exitCode' = 1
      /\ UNCHANGED <<entry, pc, exc, committed, engine, passed, troubleshoot>>
  BY DEF EarlyError, writerVars, config, record, Early
<1>2. exitCode = -1
  BY <1>1 DEF KnownInv, TaleInv, Early, Running
<1>3. exc[Self] = "none" /\ ~ committed[Self]
  BY <1>1 DEF KnownInv, SelfInv, Entered, Leaving, Writer!Gone,
              Writer!Restoring
<1>4. RunStatus = "running" /\ RunStatus' = "refused"
  BY <1>1, <1>2, <1>3 DEF RunStatus, Writer!StatusOf, Running
<1>5. passed = [check \in DOMAIN passed |-> "not_run"]
  BY <1>1 DEF KnownInv, TaleInv, TypeOK, Checks, Early, NotRun
<1>6. Seen' = Seen /\ Requested' = Requested
  BY <1>1, SameEntries DEF Requested
<1>7. Promise!RejectInput
  BY <1>1, <1>4, <1>5, <1>6 DEF Promise!RejectInput
<1>8. Promise!Move
  BY <1>7 DEF Promise!Move
<1> QED BY <1>2, <1>6, <1>8 DEF Allowed, Promise!Next

\* The exit code is one of those for what became of the run.
LEMMA ReturnAllowed ==
  ASSUME KnownInv, Return
  PROVE  Allowed
<1>1. /\ pc[Self] = "done" /\ exitCode = -1
      /\ exitCode' \in CodesFor(exc[Self])
      /\ UNCHANGED <<entry, pc, exc, committed, engine, passed, troubleshoot>>
  BY DEF Return, writerVars, config, record, Running
<1>2. /\ exc[Self] \in {"none", "error", "abort", "bailout", "signal",
                        "killed"}
      /\ exc[Self] = "none" => committed[Self]
  BY <1>1 DEF KnownInv, SelfInv, Leaving, Writer!Gone
<1>3. RunStatus = CASE exc[Self] = "none" -> "ok"
                    [] exc[Self] = "bailout" -> "bailed"
                    [] exc[Self] \in {"error", "abort"} -> "refused"
                    [] exc[Self] \in {"signal", "killed"} -> "cut"
  BY <1>1, <1>2 DEF RunStatus, Writer!StatusOf, Running
<1>4. RunStatus' = RunStatus
  BY <1>1 DEF RunStatus, Writer!StatusOf
<1>5. Seen' = Seen /\ Requested' = Requested
  BY <1>1, SameEntries DEF Requested
<1>6. exitCode' \in Promise!Codes
  BY <1>1, <1>2, <1>3 DEF CodesFor, ReportCode, Promise!Codes
<1>7. Promise!Exit
  BY <1>1, <1>4, <1>5, <1>6 DEF Promise!Exit
<1>8. Promise!Move
  BY <1>7 DEF Promise!Move
<1> QED BY <1>1, <1>5, <1>8 DEF Allowed, Promise!Next

\* A rival's step is none of this run's, unless it overwrites its result.
LEMMA OthersAllowed ==
  ASSUME KnownInv, Others
  PROVE  Allowed
<1>1. PICK w \in Writers : w # Self /\ Writer!Run(w)
  BY DEF Others
<1>2. Elsewhere
  BY <1>1, RivalIsElsewhere DEF KnownInv, SelfInv
<1>3. UNCHANGED <<engine, passed, troubleshoot, exitCode>>
  BY DEF Others, config, record
<1>4. RunStatus' = RunStatus /\ Requested' = Requested
  BY <1>2, <1>3 DEF Elsewhere, RunStatus, Writer!StatusOf, Requested
<1>5. CASE Seen' = Seen
  BY <1>3, <1>4, <1>5 DEF Allowed, Visible
<1>6. CASE Seen = "result" /\ Seen' = "nothing"
  <2>1. Promise!Overwritten
    BY <1>3, <1>4, <1>6 DEF Promise!Overwritten
  <2> QED BY <1>4, <2>1 DEF Allowed, Promise!Next
<1> QED BY <1>1, <1>5, <1>6, RivalShows DEF KnownInv

\* Each step of the pipeline maps to a step of Release or to none.
LEMMA NextAllowed == KnownInv /\ KnownInv' /\ [Next]_vars => Allowed
<1> SUFFICES ASSUME KnownInv, KnownInv', [Next]_vars PROVE Allowed
  OBVIOUS
<1>1. CASE EarlyStep \/ TryCheck \/ TryFix \/ UNCHANGED vars
  BY <1>1, HiddenAllowed
  DEF EarlyStep, TryCheck, TryFix, vars, writerVars, record
<1>2. CASE \/ EnterWriter \/ Generate \/ RejectTag \/ BodyFails \/ Package
           \/ CallCommit \/ WriterStep \/ Interrupt
  <2>1. \/ Writer!Enter(Self) \/ Writer!WriteFiles(Self)
        \/ Writer!BodyRaises(Self) \/ Writer!BodyBailsOut(Self)
        \/ Writer!CallCommit(Self) \/ Writer!Commit(Self)
        \/ Writer!BailoutCommit(Self) \/ Writer!Leave(Self)
        \/ Writer!SignalHandler(Self) \/ Writer!DefaultSignal(Self)
        \/ Writer!Crash(Self)
    BY <1>2 DEF EnterWriter, Generate, RejectTag, BodyFails, Package,
                CallCommit, WriterStep, Interrupt
  <2>2. UNCHANGED <<config, passed, troubleshoot, exitCode>>
    BY <1>2 DEF EnterWriter, Generate, RejectTag, BodyFails, Package,
                CallCommit, WriterStep, Interrupt, record
  <2>3. exitCode = Running
    <3>1. CASE WriterStep \/ Interrupt
      BY <3>1 DEF WriterStep, Interrupt
    <3>2. CASE ~ (WriterStep \/ Interrupt)
      <4>1. step # "end"
        BY <1>2, <3>2 DEF EnterWriter, Generate, RejectTag, BodyFails,
                          Package, CallCommit, Checks
      <4> QED BY <4>1 DEF KnownInv, TaleInv
    <3> QED BY <3>1, <3>2
  <2>4. SelfInv
    BY DEF KnownInv
  <2>5. CASE Renames
    BY <2>2, <2>3, <2>5, RenameAllowed
  <2>6. CASE ~ Renames
    <3>1. Moves(RunStatus, RunStatus')
      BY <2>1, <2>2, <2>3, <2>4, <2>6, OwnMoves
    <3>2. Seen' = Seen
      BY <2>1, <2>4, <2>6, OwnShows
    <3> QED BY <2>2, <2>3, <3>1, <3>2, SilentAllowed
  <2> QED BY <2>5, <2>6
<1> QED
  BY <1>1, <1>2, EarlyErrorAllowed, PassAllowed, BailOutAllowed,
     ReturnAllowed, OthersAllowed
  DEF Next, RunStep

\* Before it has done anything, a run shows nothing and is running.
LEMMA InitAllowed == Init => Promise!Init
<1> SUFFICES ASSUME Init PROVE Promise!Init
  OBVIOUS
<1>1. \A p \in Writer!Path : entry[p].owner \in {Before, NoOne}
  BY DEF Init, Writer!Init, Writer!Absent
<1>2. Seen = "nothing"
  BY <1>1, SelfAssumption DEF Seen, Published
<1>3. /\ pc[Self] = "new" /\ exc[Self] = "none" /\ ~ committed[Self]
      /\ exitCode = Running
  BY SelfAssumption DEF Init, Writer!Init
<1>4. RunStatus = "running"
  BY <1>3 DEF RunStatus, Writer!StatusOf
<1>5. Requested \in {{"validation", "dry_run"},
                     {"validation", "dry_run", "build"}}
  BY DEF Requested
<1>6. passed = [check \in {"validation", "dry_run", "build"} |-> "not_run"]
      /\ troubleshoot.check = "none"
  BY DEF Init, Checks, NotRun, NotWritten
<1> QED BY <1>2, <1>3, <1>4, <1>5, <1>6 DEF Promise!Init, Running

\* For any rivals, engines, modes and faults, wherever a signal or a crash
\* strikes: the requested checks are let through one after the other, only
\* then a result appears, evidence appears only once a check has given up and
\* never goes away again, and the exit code is about what was shown.
THEOREM RunImplementsRelease == Spec => ImplementsRelease
<1>1. KnownInv /\ KnownInv' /\ [Next]_vars => [Promise!Next]_Visible
  BY NextAllowed DEF Allowed
<1> QED
  BY <1>1, InitAllowed, KnownHolds, PTL
  DEF Spec, ImplementsRelease, Promise!Spec, Visible

-----------------------------------------------------------------------------
(* What AtomicWriter promises, the writers of the pipeline keep.           *)

\* Both instances of the writer promise the same.
LEMMA SamePromise == Proved!ImplementsOutputDir => Writer!ImplementsOutputDir
<1> USE DEF Proved!Path, Writer!Path, Proved!Slot, Writer!Slot, Proved!Out,
            Writer!Out, Proved!Shown, Writer!Shown, Proved!StatusOf,
            Writer!StatusOf
<1>1. Proved!Promise!Init => Writer!Promise!Init
  BY DEF Proved!Promise!Init, Writer!Promise!Init
<1>2. Proved!Promise!Next => Writer!Promise!Next
  BY DEF Proved!Promise!Next, Writer!Promise!Next,
     Proved!Promise!BeginOverwrite, Writer!Promise!BeginOverwrite,
     Proved!Promise!EndOverwrite, Writer!Promise!EndOverwrite,
     Proved!Promise!Publish, Writer!Promise!Publish,
     Proved!Promise!Preserve, Writer!Promise!Preserve,
     Proved!Promise!Succeed, Writer!Promise!Succeed,
     Proved!Promise!ReportBailOut, Writer!Promise!ReportBailOut,
     Proved!Promise!Fail, Writer!Promise!Fail, Proved!Promise!Nothing,
     Writer!Promise!Nothing
<1>3. [Proved!Promise!Next]_<<Proved!Shown,
                              [w \in Writers |-> Proved!StatusOf(w)]>>
        => [Writer!Promise!Next]_<<Writer!Shown,
                                   [w \in Writers |-> Writer!StatusOf(w)]>>
  BY <1>2
<1> QED
  BY <1>1, <1>3, PTL
  DEF Proved!ImplementsOutputDir, Writer!ImplementsOutputDir,
      Proved!Promise!Spec, Writer!Promise!Spec

\* The properties that the pipeline's readers and callers rely on, likewise.
LEMMA SameProperties ==
  /\ Proved!NoLeftovers => Writer!NoLeftovers
  /\ Proved!LiveStagingKept => Writer!LiveStagingKept
  /\ Proved!PublishedIsWhole => Writer!PublishedIsWhole
  /\ Proved!CommitPublishes => Writer!CommitPublishes
  /\ Proved!BailOutKeepsEvidence => Writer!BailOutKeepsEvidence
  /\ Proved!DistinctResults => Writer!DistinctResults
  /\ Proved!HandlersRestored => Writer!HandlersRestored
<1>1. /\ Proved!NoLeftovers => Writer!NoLeftovers
      /\ Proved!LiveStagingKept => Writer!LiveStagingKept
      /\ Proved!HandlersRestored => Writer!HandlersRestored
  BY DEF Proved!NoLeftovers, Writer!NoLeftovers, Proved!LiveStagingKept,
         Writer!LiveStagingKept, Proved!HandlersRestored,
         Writer!HandlersRestored, Proved!InBlock, Writer!InBlock
<1>2. /\ Proved!PublishedIsWhole => Writer!PublishedIsWhole
      /\ Proved!CommitPublishes => Writer!CommitPublishes
  BY DEF Proved!PublishedIsWhole, Writer!PublishedIsWhole,
         Proved!CommitPublishes, Writer!CommitPublishes, Proved!Path,
         Writer!Path, Proved!Slot, Writer!Slot, Proved!Out, Writer!Out,
         Proved!Complete, Writer!Complete
<1>3. /\ Proved!BailOutKeepsEvidence => Writer!BailOutKeepsEvidence
      /\ Proved!DistinctResults => Writer!DistinctResults
  BY DEF Proved!BailOutKeepsEvidence, Writer!BailOutKeepsEvidence,
         Proved!DistinctResults, Writer!DistinctResults, Proved!Reported,
         Writer!Reported, Proved!Out, Writer!Out
<1> QED BY <1>1, <1>2, <1>3

\* A behaviour of the pipeline is one of the writer's that was proved about.
LEMMA UsesProvedWriter == Spec => Proved!Spec
<1>1. Init => Proved!Init
  BY DEF Init, Writer!Init, Proved!Init, Writer!Path, Proved!Path, Writer!Out,
         Proved!Out, Writer!Slot, Proved!Slot, Writer!Absent, Proved!Absent,
         Writer!Complete, Proved!Complete
<1> QED BY <1>1, WriterNext, SameNext, PTL DEF Spec, Proved!Spec

\* Driven by the pipeline's five steps, with its rivals, signals and crashes,
\* the writers implement OutputDir, for any number of them.
THEOREM PipelineImplementsOutputDir == Spec => Writer!ImplementsOutputDir
<1>1. Proved!Spec => Proved!ImplementsOutputDir
  BY Proved!WriterImplementsOutputDir, WritersAssumption, ModesAssumption,
     BoundsAssumption, FaultsAssumption
<1> QED BY <1>1, UsesProvedWriter, SamePromise, PTL

\* They clean up after themselves and not after each other, show only whole
\* directories, keep what they have reported, and give the signal handlers
\* back.
THEOREM PipelineKeepsWritersPromises ==
  Spec => [](/\ Writer!NoLeftovers /\ Writer!LiveStagingKept
             /\ Writer!PublishedIsWhole /\ Writer!CommitPublishes
             /\ Writer!BailOutKeepsEvidence /\ Writer!DistinctResults
             /\ Writer!HandlersRestored)
<1> USE WritersAssumption, ModesAssumption, BoundsAssumption, FaultsAssumption
<1>1. Proved!Spec => []Proved!NoLeftovers
  BY Proved!NoLeftoversHolds
<1>2. Proved!Spec => []Proved!LiveStagingKept
  BY Proved!LiveStagingIsKept
<1>3. Proved!Spec => []Proved!PublishedIsWhole
  BY Proved!PublishedWhole
<1>4. Proved!Spec => []Proved!CommitPublishes
  BY Proved!CommitHasPublished
<1>5. Proved!Spec => []Proved!BailOutKeepsEvidence
  BY Proved!BailOutHasKept
<1>6. Proved!Spec => []Proved!DistinctResults
  BY Proved!ResultsDiffer
<1>7. Proved!Spec => []Proved!HandlersRestored
  BY Proved!HandlersAreRestored
<1> QED
  BY <1>1, <1>2, <1>3, <1>4, <1>5, <1>6, <1>7, UsesProvedWriter,
     SameProperties, PTL

-----------------------------------------------------------------------------
(* Every run counts down.                                                  *)

\* What the steps of a run are measured by: the writer's invariants, and that
\* the loop is never past its last attempt.
CountInv ==
  /\ TypeOK /\ SelfInv /\ TaleInv
  /\ Proved!TypeOK /\ Proved!AgedInv /\ Proved!FiniteInv
  /\ phase \in {"operate", "fix"} => attempt \in 1 .. MaxAttempts
  /\ phase = "fix" => attempt < MaxAttempts

\* They hold of the pipeline's writers and loops.
LEMMA CountHolds == Spec => []CountInv
<1> USE WritersAssumption, ModesAssumption, BoundsAssumption, FaultsAssumption
<1>1. Proved!Spec => []Proved!IInv
  BY Proved!Invariant
<1>2. Proved!Init => Proved!FiniteInv
  BY Proved!InitFinite
<1>3. Proved!FiniteInv /\ [Proved!Next]_(Proved!vars) => Proved!FiniteInv'
  BY Proved!FiniteNext
<1>4. Proved!Spec => [](Proved!TypeOK /\ Proved!AgedInv /\ Proved!FiniteInv)
  <2>1. Proved!IInv => Proved!TypeOK /\ Proved!AgedInv
    BY DEF Proved!IInv
  <2> QED BY <1>1, <1>2, <1>3, <2>1, PTL DEF Proved!Spec
<1>5. ProvedLoop!TypeOK /\ ProvedLoop!LoopInv =>
        /\ phase \in {"operate", "fix"} => attempt \in 1 .. MaxAttempts
        /\ phase = "fix" => attempt < MaxAttempts
  BY AttemptsAssumption DEF ProvedLoop!TypeOK, ProvedLoop!LoopInv
<1> QED
  BY <1>4, <1>5, UsesProvedWriter, LoopProved, PipelineTypes, TaleHolds, PTL
  DEF CountInv

\* Both instances of the writer measure a run alike.
LEMMA SameMeasure ==
  /\ Proved!Nearer(Self) => Writer!Nearer(Self)
  /\ UNCHANGED <<pc[Self], Proved!Left(Self)>> =>
       UNCHANGED <<pc[Self], Writer!Left(Self)>>
<1>0. ASSUME NEW S PROVE Proved!Cardinality(S) = Writer!Cardinality(S)
  BY DEF Proved!Cardinality, Writer!Cardinality
<1>1. /\ Proved!Left(Self) = Writer!Left(Self)
      /\ Proved!Left(Self)' = Writer!Left(Self)'
  BY <1>0 DEF Proved!Left, Writer!Left
<1>2. Proved!Rank(pc[Self]) = Writer!Rank(pc[Self])
      /\ Proved!Rank(pc'[Self]) = Writer!Rank(pc'[Self])
  BY DEF Proved!Rank, Writer!Rank, Proved!Gone, Writer!Gone
<1> QED BY <1>1, <1>2 DEF Proved!Nearer, Writer!Nearer

\* A first part that is lower, those before it being the same, is enough.
LEMMA CloserIf ==
  ASSUME NEW a1, NEW a2, NEW a3, NEW a4, NEW a5,
         NEW b1, NEW b2, NEW b3, NEW b4, NEW b5,
         \/ b1 \in 0 .. a1 - 1
         \/ b1 = a1 /\ b2 \in 0 .. a2 - 1
         \/ b1 = a1 /\ b2 = a2 /\ b3 \in 0 .. a3 - 1
         \/ b1 = a1 /\ b2 = a2 /\ b3 = a3 /\ b4 \in 0 .. a4 - 1
         \/ b1 = a1 /\ b2 = a2 /\ b3 = a3 /\ b4 = a4 /\ b5 \in 0 .. a5 - 1
  PROVE  Closer(<<b1, b2, b3, b4, b5>>, <<a1, a2, a3, a4, a5>>)
<1> DEFINE a == <<a1, a2, a3, a4, a5>>
           b == <<b1, b2, b3, b4, b5>>
<1>1. /\ a[1] = a1 /\ a[2] = a2 /\ a[3] = a3 /\ a[4] = a4 /\ a[5] = a5
      /\ b[1] = b1 /\ b[2] = b2 /\ b[3] = b3 /\ b[4] = b4 /\ b[5] = b5
  OBVIOUS
<1> HIDE DEF a, b
<1>2. Closer(b, a)
  <2>1. /\ 1 .. 1 - 1 = {} /\ 1 .. 2 - 1 = {1} /\ 1 .. 3 - 1 = {1, 2}
        /\ 1 .. 4 - 1 = {1, 2, 3} /\ 1 .. 5 - 1 = {1, 2, 3, 4}
    OBVIOUS
  <2>2. \E i \in {1, 2, 3, 4, 5} :
          /\ b[i] \in 0 .. a[i] - 1
          /\ \A j \in 1 .. i - 1 : b[j] = a[j]
    BY <1>1, <2>1
  <2> QED BY <2>2 DEF Closer
<1> QED BY <1>2 DEF a, b

\* The values of StepsLeft, before and after a step.
LEMMA StepsLeftIs ==
  /\ step = "setup" => StepsLeft = 10
  /\ step = "inputs" => StepsLeft = 9
  /\ step = "analysis" => StepsLeft = 8
  /\ step = "generate" => StepsLeft = 6
  /\ step = "validation" => StepsLeft = 5
  /\ step = "dry_run" => StepsLeft = 4
  /\ step = "build" => StepsLeft = 3
  /\ step = "package" => StepsLeft = 2
  /\ step' = "inputs" => StepsLeft' = 9
  /\ step' = "analysis" => StepsLeft' = 8
  /\ step' = "writer" => StepsLeft' = 7
  /\ step' = "validation" => StepsLeft' = 5
  /\ step' = "dry_run" => StepsLeft' = 4
  /\ step' = "build" => StepsLeft' = 3
  /\ step' = "package" => StepsLeft' = 2
  /\ step' = "commit" => StepsLeft' = 1
  BY DEF StepsLeft

\* So a run is nearer to its end if its writer is, and nothing else moves ...
LEMMA WriterCloser ==
  ASSUME CountInv, CountInv', Writer!Nearer(Self), UNCHANGED <<loopVars, exitCode>>,
         pc'[Self] = pc[Self] => UNCHANGED step
  PROVE  Closer(Distance', Distance)
<1>1. UNCHANGED (IF exitCode = Running THEN 1 ELSE 0)
  OBVIOUS
<1>2. CASE Writer!Rank(pc'[Self]) < Writer!Rank(pc[Self])
  <2>1. /\ Writer!Rank(pc[Self]) \in Nat
        /\ Writer!Rank(pc'[Self]) \in Nat
    <3>1. ASSUME NEW label \in Writer!PC PROVE Writer!Rank(label) \in Nat
      BY DEF Writer!Rank, Writer!PC, Writer!Gone, Writer!Entering,
             Writer!InBlock, Writer!Restoring
    <3> QED BY <3>1 DEF CountInv, SelfInv
  <2>2. Writer!Rank(pc'[Self]) \in 0 .. Writer!Rank(pc[Self]) - 1
    BY <1>2, <2>1
  <2> QED BY <1>1, <2>2, CloserIf DEF Distance
<1>3. CASE pc'[Self] = pc[Self] /\ Writer!Left(Self)' \in
             0 .. Writer!Left(Self) - 1
  <2>1. UNCHANGED StepsLeft
    BY <1>3 DEF StepsLeft
  <2>2. UNCHANGED Loop!Remaining
    BY DEF Loop!Remaining, loopVars
  <2> QED BY <1>1, <1>3, <2>1, <2>2, CloserIf DEF Distance
<1> QED BY <1>2, <1>3 DEF Writer!Nearer

\* ... if it goes on to a later step ...
LEMMA StepCloser ==
  ASSUME CountInv, UNCHANGED <<pc[Self], exitCode>>,
         StepsLeft' \in 0 .. StepsLeft - 1
  PROVE  Closer(Distance', Distance)
<1>1. UNCHANGED (IF exitCode = Running THEN 1 ELSE 0)
  OBVIOUS
<1>2. Writer!Rank(pc[Self])' = Writer!Rank(pc[Self])
  BY DEF Writer!Rank
<1> QED BY <1>1, <1>2, CloserIf DEF Distance

\* ... if its check uses up an attempt or a fix ...
LEMMA LoopCloser ==
  ASSUME CountInv, TryCheck \/ TryFix
  PROVE  Closer(Distance', Distance)
<1>1. UNCHANGED <<pc, exitCode, step>>
  BY DEF TryCheck, TryFix, writerVars
<1>2. UNCHANGED (IF exitCode = Running THEN 1 ELSE 0)
  BY <1>1
<1>3. Writer!Rank(pc[Self])' = Writer!Rank(pc[Self])
  BY <1>1 DEF Writer!Rank
<1>4. UNCHANGED StepsLeft
  BY <1>1 DEF StepsLeft
<1>5. Loop!Remaining' \in 0 .. Loop!Remaining - 1
  <2> USE AttemptsAssumption DEF Loop!Remaining
  <2>1. CASE TryCheck
    <3>1. /\ phase = "operate" /\ attempt' = attempt
          /\ \/ phase' \in {"returned", "raised"}
             \/ phase' = "fix"
      BY <2>1 DEF TryCheck, Loop!Operate, Loop!Return
    <3>2. attempt \in 1 .. MaxAttempts
      BY <3>1 DEF CountInv
    <3> QED BY <3>1, <3>2
  <2>2. CASE TryFix
    <3>1. phase = "fix" /\ phase' = "returned"
      BY <2>2 DEF TryFix, Loop!TryFix, Loop!Return
    <3>2. attempt \in 1 .. MaxAttempts
      BY <3>1 DEF CountInv
    <3> QED BY <3>1, <3>2
  <2> QED BY <2>1, <2>2
<1> QED BY <1>2, <1>3, <1>4, <1>5, CloserIf DEF Distance

\* ... or if it has its exit code.
LEMMA ExitCloser ==
  ASSUME CountInv, exitCode = Running, exitCode' # Running
  PROVE  Closer(Distance', Distance)
<1>1. /\ (IF exitCode = Running THEN 1 ELSE 0) = 1
      /\ (IF exitCode' = Running THEN 1 ELSE 0) = 0
      /\ 0 \in 0 .. 1 - 1
  OBVIOUS
<1> QED BY <1>1, CloserIf DEF Distance

\* The writer's calls, and what strikes it, bring it nearer.
LEMMA CallsCountDown ==
  ASSUME CountInv,
         \/ Writer!Run(Self) \/ Writer!SignalHandler(Self)
         \/ Writer!DefaultSignal(Self) \/ Writer!Crash(Self)
  PROVE  Writer!Nearer(Self)
<1>1. \/ Proved!Run(Self) \/ Proved!SignalHandler(Self)
      \/ Proved!DefaultSignal(Self) \/ Proved!Crash(Self)
  BY SameCalls
<1>2. Proved!Nearer(Self)
  BY <1>1, Proved!OwnStepCountsDown, SelfAssumption, WritersAssumption,
     ModesAssumption, BoundsAssumption, FaultsAssumption DEF CountInv
<1> QED BY <1>2, SameMeasure

\* Rivals leave the run where it is.
LEMMA RivalsStay ==
  ASSUME CountInv, Others
  PROVE  UNCHANGED Distance
<1>1. PICK v \in Writers \ {Self} : Writer!Run(v)
  BY DEF Others
<1>2. Proved!Run(v)
  BY <1>1, SameCalls
<1>3. UNCHANGED <<pc[Self], Proved!Left(Self)>>
  BY <1>2, Proved!OthersStay, SelfAssumption, WritersAssumption,
     ModesAssumption, BoundsAssumption, FaultsAssumption DEF CountInv
<1>4. UNCHANGED <<pc[Self], Writer!Left(Self)>>
  BY <1>3, SameMeasure
<1>5. UNCHANGED Writer!Rank(pc[Self])
  BY <1>4 DEF Writer!Rank
<1>6. UNCHANGED <<StepsLeft, Loop!Remaining, exitCode>>
  BY DEF Others, StepsLeft, Loop!Remaining, loopVars
<1> QED BY <1>4, <1>5, <1>6 DEF Distance

\* For any rivals, engines, modes, faults and number of attempts: each step of
\* a run, and whatever strikes it, brings it nearer to its exit code, and no
\* rival takes it back.
THEOREM PipelineCountsDown == Spec => RunCountsDown
<1>1. ASSUME CountInv, CountInv', Next
      PROVE  Closer(Distance', Distance) \/ (UNCHANGED Distance /\ Others)
  <2>1. CASE EarlyStep
    <3>1. StepsLeft' \in 0 .. StepsLeft - 1
      BY <2>1, StepsLeftIs DEF EarlyStep, Following
    <3> QED BY <1>1, <2>1, <3>1, StepCloser DEF EarlyStep, writerVars
  <2>2. CASE EarlyError
    BY <1>1, <2>2, ExitCloser DEF EarlyError, CountInv, TaleInv, Running
  <2>3. CASE EnterWriter
    <3>1. Writer!Nearer(Self)
      BY <1>1, <2>3, CallsCountDown DEF EnterWriter, Writer!Run
    <3>2. pc'[Self] = pc[Self] => UNCHANGED step
      BY <2>3
      DEF EnterWriter, Writer!Enter, Writer!RegisterSigint,
          Writer!RegisterSigterm, Writer!GcList, Writer!GcRemove,
          Writer!GcDone, Writer!MakeStaging, Writer!EnterFails,
          Writer!Entering
    <3> QED BY <1>1, <2>3, <3>1, <3>2, WriterCloser DEF EnterWriter
  <2>4. CASE Generate \/ Package
    <3>1. UNCHANGED <<pc[Self], exitCode>>
      BY <2>4 DEF Generate, Package, Writer!WriteFiles
    <3>2. StepsLeft' \in 0 .. StepsLeft - 1
      BY <2>4, StepsLeftIs DEF Generate, Package
    <3> QED BY <1>1, <3>1, <3>2, StepCloser
  <2>5. CASE RejectTag \/ BodyFails \/ BailOut \/ CallCommit \/ WriterStep
               \/ Interrupt
    <3>1. /\ \/ Writer!Run(Self) \/ Writer!SignalHandler(Self)
             \/ Writer!DefaultSignal(Self) \/ Writer!Crash(Self)
          /\ UNCHANGED <<loopVars, step, exitCode>>
      BY <2>5
      DEF RejectTag, BodyFails, BailOut, CallCommit, WriterStep, Interrupt,
          Writer!Run, Writer!Body
    <3> QED BY <1>1, <3>1, CallsCountDown, WriterCloser
  <2>6. CASE PassCheck
    <3>1. UNCHANGED <<pc[Self], exitCode>>
      BY <2>6 DEF PassCheck, writerVars
    <3>2. StepsLeft' \in 0 .. StepsLeft - 1
      <4>1. step \in Checks /\ step' = NextStep(step)
        BY <2>6 DEF PassCheck
      <4> QED BY <4>1, StepsLeftIs DEF NextStep, Checks
    <3> QED BY <1>1, <3>1, <3>2, StepCloser
  <2>7. CASE Return
    <3>1. exitCode' # Running
      BY <1>1, <2>7
      DEF Return, CodesFor, ReportCode, Running, CountInv, SelfInv
    <3> QED BY <1>1, <2>7, <3>1, ExitCloser DEF Return
  <2>8. CASE TryCheck \/ TryFix
    BY <1>1, <2>8, LoopCloser
  <2>9. CASE Others
    BY <1>1, <2>9, RivalsStay
  <2> QED
    BY <1>1, <2>1, <2>2, <2>3, <2>4, <2>5, <2>6, <2>7, <2>8, <2>9
    DEF Next, RunStep
<1>2. CountInv /\ CountInv' /\ [Next]_vars =>
        [Closer(Distance', Distance) \/ (UNCHANGED Distance /\ Others)]_vars
  BY <1>1
<1> QED BY <1>2, CountHolds, PTL DEF Spec, RunCountsDown
=============================================================================

---------------------------- MODULE Pipeline_proofs ----------------------------
(***************************************************************************)
(* Proofs about the pipeline: it uses the writer and the retry loop as     *)
(* their specifications say; nothing reaches a published name past the     *)
(* gate of STEP 4; and the exit code, the summary and the evidence of a    *)
(* failed run tell what happened.                                          *)
(***************************************************************************)
EXTENDS Pipeline, TLAPS

-----------------------------------------------------------------------------
(* The pipeline's steps are steps of its components.                       *)

\* A step of a pipeline run is a step of the writers, or leaves them alone.
LEMMA WriterNext == [Next]_vars => [Writer!Next]_(Writer!vars)
<1> SUFFICES ASSUME [Next]_vars PROVE [Writer!Next]_(Writer!vars)
  OBVIOUS
<1>1. CASE UNCHANGED writerVars
  BY <1>1 DEF writerVars, Writer!vars
<1>2. CASE \E w \in Writers : Writer!Run(w)
  BY <1>2 DEF Writer!Next
<1>3. CASE Interrupt
  BY <1>3, SelfAssumption DEF Interrupt, Writer!Next, Writer!Environment
<1>4. CASE \/ EnterWriter \/ Generate \/ RejectTag \/ BodyFails \/ BailOut
           \/ Package \/ CallCommit \/ WriterStep \/ Others
  BY <1>2, <1>4, SelfAssumption
  DEF EnterWriter, Generate, RejectTag, BodyFails, BailOut, Package,
      CallCommit, WriterStep, Others, Writer!Run, Writer!Body
<1>5. CASE \/ EarlyStep \/ EarlyError \/ TryCheck \/ TryFix \/ PassCheck
           \/ Return \/ UNCHANGED vars
  BY <1>1, <1>5 DEF EarlyStep, EarlyError, TryCheck, TryFix, PassCheck, Return,
                    vars
<1> QED BY <1>3, <1>4, <1>5 DEF Next, RunStep

\* Of a retry loop, likewise: the gate's checks only have outcomes that the
\* loop knows.
LEMMA LoopNext == [Next]_vars => [Loop!Next]_(Loop!loopVars)
<1> SUFFICES ASSUME [Next]_vars PROVE [Loop!Next]_(Loop!loopVars)
  OBVIOUS
<1>1. CASE UNCHANGED loopVars
  BY <1>1 DEF loopVars, Loop!loopVars
<1>2. CASE TryCheck
  <2>1. Outcomes(step) \subseteq Loop!Outcome
    BY <1>2 DEF TryCheck, Checks, Outcomes, ValidationOutcomes,
                DryRunOutcomes, BuildOutcomes, Loop!Outcome, Loop!Satisfying,
                Loop!Failing
  <2>2. Loop!Operate(Loop!Outcome)
    BY <1>2, <2>1 DEF TryCheck, Loop!Operate
  <2> QED BY <2>2 DEF Loop!Next
<1>3. CASE Generate \/ TryFix \/ PassCheck
  BY <1>1, <1>3 DEF Generate, TryFix, PassCheck, Loop!Next
<1>4. CASE \/ EarlyStep \/ EarlyError \/ EnterWriter \/ RejectTag \/ BodyFails
           \/ BailOut \/ Package \/ CallCommit \/ WriterStep \/ Return
           \/ Interrupt \/ Others \/ UNCHANGED vars
  BY <1>1, <1>4
  DEF EarlyStep, EarlyError, EnterWriter, RejectTag, BodyFails, BailOut,
      Package, CallCommit, WriterStep, Return, Interrupt, Others, vars
<1> QED BY <1>2, <1>3, <1>4 DEF Next, RunStep

\* The pipeline, with its rivals and its interruptions, is a use of
\* AtomicWriter: what holds of every behaviour of the writers holds here.
THEOREM UsesWriter == Spec => Writer!Spec
<1>1. Init => Writer!Init
  BY DEF Init
<1> QED BY <1>1, WriterNext, PTL DEF Spec, Writer!Spec

\* Likewise of RetryLoop, with a fix that never applies anything.
THEOREM UsesLoop == Spec => Loop!Spec
<1>1. Init => Loop!Init
  BY DEF Init
<1> QED BY <1>1, LoopNext, PTL DEF Spec, Loop!Spec

-----------------------------------------------------------------------------
(* The gate.                                                               *)

Early == {"setup", "inputs", "analysis", "writer", "generate"}

AllPassed == \A check \in Requested : passed[check] # NotRun

\* The shape of the functions that a step updates at one point.
Shape ==
  /\ DOMAIN staging = Writers
  /\ DOMAIN entry = Writer!Path
  /\ DOMAIN passed = Checks
  /\ step \in Steps

\* Where the run is says which checks it has behind it.
StepInv ==
  /\ phase = "returned" /\ verdict = "success" => outcome # NotRun
  /\ step \in Steps \ (Early \cup {"end"}) => validTag
  /\ step \in {"dry_run", "build", "package", "commit"}
       => passed["validation"] # NotRun
  /\ step \in {"build", "package", "commit"} => passed["dry_run"] # NotRun
  /\ step \in {"package", "commit"} => AllPassed

\* The staging directory is complete only past the gate.
StagedInv ==
  /\ step \in Early => staging[Self] \notin {"partial", "whole"}
  /\ staging[Self] = "whole" => AllPassed

GateInv == Shape /\ StepInv /\ StagedInv /\ GateBeforePublish

\* What a step of any process, but for this run's own writing, does to this
\* run's staging directory and results.
Harmless ==
  /\ DOMAIN staging' = Writers
  /\ DOMAIN entry' = Writer!Path
  /\ staging'[Self] \in {staging[Self], "absent", "empty", "evidence"}
  /\ Published' => Published \/ staging[Self] = "whole"

\* Steps that leave the parent directory's entries alone.
LEMMA QuietStep ==
  ASSUME Shape, UNCHANGED entry, DOMAIN staging' = Writers,
         staging'[Self] \in {staging[Self], "absent", "empty", "evidence"}
  PROVE  Harmless
  BY DEF Shape, Harmless, Published

\* The rename publishes what is staged; rmtree publishes nothing.
LEMMA EntryStep ==
  ASSUME Shape, NEW w \in Writers,
         \/ entry' = [entry EXCEPT ![target[w]] =
                        [state |-> staging[w], owner |-> w]]
         \/ entry' = [entry EXCEPT ![Writer!Out] = Writer!Absent]
         \/ \E s \in {"torn", "empty"} :
              entry' = [entry EXCEPT ![Writer!Out].state = s]
  PROVE  /\ DOMAIN entry' = Writer!Path
         /\ Published' => Published \/ staging[Self] = "whole"
<1> SUFFICES ASSUME NEW p \in Writer!Path, p.kind # "failed",
                    entry'[p] = [state |-> "whole", owner |-> Self]
             PROVE  Published \/ staging[Self] = "whole"
  BY DEF Published, Shape
<1> USE DEF Shape
<1>1. CASE entry' = [entry EXCEPT ![target[w]] =
                       [state |-> staging[w], owner |-> w]]
  BY <1>1 DEF Published
<1>2. CASE entry' = [entry EXCEPT ![Writer!Out] = Writer!Absent]
  BY <1>2 DEF Published, Writer!Absent
<1>3. CASE \E s \in {"torn", "empty"} :
             entry' = [entry EXCEPT ![Writer!Out].state = s]
  BY <1>3 DEF Published
<1> QED BY <1>1, <1>2, <1>3

\* No step of a writer harms: only WriteFiles adds to a staging directory.
LEMMA WriterStepHarmless ==
  ASSUME Shape, NEW w \in Writers,
         \/ w # Self /\ Writer!Run(w)
         \/ Writer!Enter(w) \/ Writer!BodyRaises(w) \/ Writer!BodyBailsOut(w)
         \/ Writer!CallCommit(w) \/ Writer!Commit(w)
         \/ Writer!BailoutCommit(w) \/ Writer!Leave(w)
         \/ Writer!Environment(w)
  PROVE  Harmless
<1> USE SelfAssumption
<1>1. CASE Writer!Enter(w)
  BY <1>1, QuietStep
  DEF Shape, Writer!Enter, Writer!RegisterSigint, Writer!RegisterSigterm,
      Writer!GcList, Writer!GcRemove, Writer!GcDone, Writer!MakeStaging,
      Writer!EnterFails
<1>2. CASE \/ w # Self /\ Writer!Body(w)
           \/ Writer!BodyRaises(w) \/ Writer!BodyBailsOut(w)
           \/ Writer!CallCommit(w)
  BY <1>2, QuietStep
  DEF Shape, Writer!Body, Writer!WriteFiles, Writer!BodyRaises, Writer!Raise,
      Writer!LeaveWithoutCommit, Writer!BodyBailsOut, Writer!CallCommit
<1>3. CASE Writer!Leave(w) \/ Writer!Environment(w)
  BY <1>3, QuietStep
  DEF Shape, Writer!Leave, Writer!Exit, Writer!RestoreSigint,
      Writer!RestoreSigterm, Writer!Environment, Writer!SignalHandler,
      Writer!DefaultSignal, Writer!Crash, Writer!Age, Writer!Cleanup
<1>4. CASE UNCHANGED <<entry, staging>>
  BY <1>4, QuietStep DEF Shape
<1>5. CASE \E next \in {"flag", "bailout_flag"} : Writer!Replace(w, next)
  BY <1>5, EntryStep DEF Shape, Harmless, Writer!Replace
<1>6. CASE Writer!OverwriteBegin(w)
  <2>1. CASE Writer!Exists(Writer!Out)
    <3>1. PICK s \in {"torn", "empty"} :
            entry' = [entry EXCEPT ![Writer!Out].state = s]
      BY <1>6, <2>1 DEF Writer!OverwriteBegin
    <3> QED BY <1>6, <3>1, EntryStep DEF Shape, Harmless, Writer!OverwriteBegin
  <2> QED BY <1>4, <1>6, <2>1 DEF Writer!OverwriteBegin
<1>7. CASE Writer!OverwriteFiles(w) \/ Writer!OverwriteEnd(w)
  <2>1. CASE entry' = entry
    BY <1>4, <1>7, <2>1 DEF Writer!OverwriteFiles, Writer!OverwriteEnd
  <2>2. CASE \/ entry' = [entry EXCEPT ![Writer!Out].state = "empty"]
             \/ entry' = [entry EXCEPT ![Writer!Out] = Writer!Absent]
    BY <1>7, <2>2, EntryStep
    DEF Shape, Harmless, Writer!OverwriteFiles, Writer!OverwriteEnd
  <2> QED BY <1>7, <2>1, <2>2 DEF Writer!OverwriteFiles, Writer!OverwriteEnd
<1>8. CASE Writer!Commit(w) \/ Writer!BailoutCommit(w)
  BY <1>4, <1>5, <1>6, <1>7, <1>8
  DEF Writer!Commit, Writer!ResolveFinalPath, Writer!OverwriteFails,
      Writer!DoSuffix, Writer!ProbeSlot, Writer!CommitReplace,
      Writer!ReplaceFails, Writer!CommitFlag, Writer!BailoutCommit,
      Writer!BailoutScan, Writer!BailoutReplace, Writer!BailoutFlag
<1> QED BY <1>1, <1>2, <1>3, <1>8 DEF Writer!Run

\* Nothing is staged or published when the run starts.
LEMMA InitGate == Init => GateInv
<1> SUFFICES ASSUME Init PROVE GateInv
  OBVIOUS
<1>1. /\ DOMAIN staging = Writers /\ staging[Self] = "absent"
      /\ DOMAIN entry = Writer!Path
  BY SelfAssumption DEF Init, Writer!Init
<1>2. \A p \in Writer!Path : entry[p].owner \in {Before, NoOne}
  BY DEF Init, Writer!Init, Writer!Absent
<1>3. ~ Published
  BY <1>2, SelfAssumption DEF Published
<1>4. step = "setup" /\ phase = "idle" /\ DOMAIN passed = Checks
  BY DEF Init, Loop!Init
<1> QED BY <1>1, <1>3, <1>4 DEF GateInv, Shape, StepInv, StagedInv,
           GateBeforePublish, Steps, Early

\* A harmless step that goes no further in STEP 3 to STEP 5.
LEMMA StayGate ==
  ASSUME GateInv, Harmless, UNCHANGED <<loopVars, config, passed>>,
         \/ step' = step
         \/ step' = "end"
         \/ step \in Early /\ step' \in Early
  PROVE  GateInv'
  BY DEF GateInv, Harmless, Shape, StepInv, StagedInv, GateBeforePublish,
         AllPassed, Requested, loopVars, config, Steps, Early

\* Each step of the pipeline preserves the invariant; only Package fills the
\* staging directory, and only PassCheck moves past a check.
LEMMA NextGate == GateInv /\ [Next]_vars => GateInv'
<1> SUFFICES ASSUME GateInv, [Next]_vars PROVE GateInv'
  OBVIOUS
<1> USE SelfAssumption DEF GateInv
<1>1. CASE EarlyStep \/ EarlyError \/ Return \/ UNCHANGED vars
  <2>1. UNCHANGED <<entry, staging, loopVars, config, passed>>
    BY <1>1 DEF EarlyStep, EarlyError, Return, vars, writerVars, record
  <2>2. Harmless
    BY <2>1, QuietStep DEF Shape
  <2> QED BY <1>1, <2>1, <2>2, StayGate
          DEF EarlyStep, EarlyError, Return, Following, Early, vars
<1>2. CASE \/ EnterWriter \/ RejectTag \/ BodyFails \/ CallCommit
           \/ WriterStep \/ Interrupt \/ Others \/ BailOut
  <2>1. UNCHANGED <<loopVars, config, passed>>
    BY <1>2 DEF EnterWriter, RejectTag, BodyFails, CallCommit, WriterStep,
                Interrupt, Others, BailOut, record
  <2>2. \/ step' = step
        \/ step = "writer" /\ step' = "generate"
    BY <1>2 DEF EnterWriter, RejectTag, BodyFails, CallCommit, WriterStep,
                Interrupt, Others, BailOut
  <2>3. Harmless
    BY <1>2, WriterStepHarmless
    DEF EnterWriter, RejectTag, BodyFails, CallCommit, WriterStep, Interrupt,
        Others, BailOut, Writer!Environment
  <2> QED BY <2>1, <2>2, <2>3, StayGate DEF Early
<1>3. CASE Generate
  <2>1. /\ UNCHANGED <<entry, config, passed>>
        /\ step = "generate" /\ validTag
        /\ step' = "validation" /\ phase' = "operate"
    BY <1>3 DEF Generate, Writer!WriteFiles, Loop!Call, record
  <2>2. /\ DOMAIN staging' = Writers
        /\ staging'[Self] = "partial"
    BY <1>3, <2>1 DEF Generate, Writer!WriteFiles, Shape, StagedInv, Early
  <2> QED BY <2>1, <2>2 DEF Shape, StepInv, StagedInv, GateBeforePublish,
             AllPassed, Published, Requested, config, Steps, Early, Checks
<1>4. CASE Package
  <2>1. /\ UNCHANGED <<entry, config, passed, loopVars>>
        /\ step = "package" /\ step' = "commit"
        /\ DOMAIN staging' = Writers
    BY <1>4 DEF Package, Writer!WriteFiles, Shape
  <2>2. AllPassed'
    BY <2>1 DEF StepInv, AllPassed, Requested, config
  <2> QED BY <2>1, <2>2 DEF Shape, StepInv, StagedInv, GateBeforePublish,
             AllPassed, Published, Requested, config, loopVars, Steps, Early
<1>5. CASE TryCheck \/ TryFix
  <2>1. /\ UNCHANGED <<entry, staging, config, passed, step>>
        /\ step \in Checks
    BY <1>5 DEF TryCheck, TryFix, writerVars, record
  <2>2. phase' = "returned" /\ verdict' = "success" => outcome' # NotRun
    BY <1>5 DEF TryCheck, TryFix, Loop!Operate, Loop!TryFix, Loop!Return,
                Loop!Satisfying, Loop!Failing, NotRun
  <2> QED BY <2>1, <2>2 DEF Shape, StepInv, StagedInv, GateBeforePublish,
             AllPassed, Published, Requested, config
<1>6. CASE PassCheck
  <2>1. /\ UNCHANGED <<entry, staging, config>>
        /\ step \in Checks
        /\ passed' = [passed EXCEPT ![step] = outcome]
        /\ outcome # NotRun
        /\ step' = NextStep(step)
    BY <1>6 DEF PassCheck, writerVars, StepInv
  <2>2. phase' = "returned" /\ verdict' = "success" => outcome' # NotRun
    BY <1>6, <2>1 DEF PassCheck, Loop!Call, loopVars
  <2>3. \A check \in Checks : passed[check] # NotRun => passed'[check] # NotRun
    BY <2>1 DEF Shape
  <2>4. passed'[step] # NotRun
    BY <2>1 DEF Shape
  <2>5. AllPassed => AllPassed'
    BY <2>1, <2>3 DEF AllPassed, Requested, Checks, config
  <2>6. step' \in {"dry_run", "build", "package"} /\ validTag'
    BY <2>1 DEF NextStep, Checks, StepInv, Steps, Early, config
  <2>7. step' = "package" => AllPassed'
    BY <2>1, <2>3, <2>4 DEF NextStep, Checks, StepInv, Steps, Early,
       AllPassed, Requested, config
  <2>8. Shape'
    BY <2>1, <2>6 DEF Shape, Steps, Checks
  <2>9. StepInv'
    <3>1. step' \in {"dry_run", "build", "package"}
            => passed'["validation"] # NotRun
      BY <2>1, <2>3, <2>4 DEF NextStep, Checks, StepInv
    <3>2. step' \in {"build", "package"} => passed'["dry_run"] # NotRun
      BY <2>1, <2>3, <2>4 DEF NextStep, Checks, StepInv
    <3> QED BY <2>2, <2>6, <2>7, <3>1, <3>2 DEF StepInv
  <2>10. StagedInv'
    BY <2>1, <2>5, <2>6 DEF StagedInv, Early
  <2>11. Published' => Published
    BY <2>1 DEF Published
  <2>12. GateBeforePublish'
    BY <2>5, <2>11 DEF GateBeforePublish, AllPassed
  <2> QED BY <2>8, <2>9, <2>10, <2>12
<1> QED BY <1>1, <1>2, <1>3, <1>4, <1>5, <1>6 DEF Next, RunStep

\* Whatever the checks answer, whatever other runs do and wherever a signal
\* or a crash strikes, a result is published only if every requested check of
\* its run let it through.
THEOREM GateHolds == Spec => []GateBeforePublish
<1>1. GateInv => GateBeforePublish
  BY DEF GateInv
<1> QED BY <1>1, InitGate, NextGate, PTL DEF Spec

-----------------------------------------------------------------------------
(* What a run does as a writer.                                            *)

Entered == {"new", "reg_term", "enter", "gc", "mkdir"}
Leaving == {"exit", "restore_int", "restore_term"} \cup Writer!Gone
BailingOut == {"bailout_scan", "bailout_replace"}

\* Where the parent directory holds files of this run in the given state.
Mine(state) ==
  {p \in Writer!Path : entry[p] = [state |-> state, owner |-> Self]}

HasEvidence == staging[Self] = "evidence" \/ Mine("evidence") # {}

Domains ==
  /\ DOMAIN entry = Writer!Path
  /\ \A f \in {staging, pc, exc, committed, target} : DOMAIN f = Writers

\* Before its rename a run has no exception, result or flag; one that leaves
\* without an exception has committed; one that has published meets no further
\* error; one that has evidence is on its way out through bailout_commit.
SelfInv ==
  /\ Domains
  /\ pc[Self] \in Writer!PC
  /\ exc[Self] \in {"none", "error", "abort", "bailout", "signal", "killed"}
  /\ pc[Self] \in Entered \cup Writer!InBlock => exc[Self] = "none"
  /\ pc[Self] \in Leaving \ {"crashed"} /\ exc[Self] = "none" => committed[Self]
  /\ Published \/ pc[Self] = "flag" \/ committed[Self]
       => /\ pc[Self] \in {"flag"} \cup Leaving
          /\ exc[Self] \in {"none", "signal", "killed"}
  /\ HasEvidence
       => /\ pc[Self] \in BailingOut \cup {"bailout_flag"} \cup Leaving
          /\ ~ Published /\ ~ committed[Self]
  /\ pc[Self] \in BailingOut
       => /\ DOMAIN target[Self] = {"kind", "minute", "n"}
          /\ target[Self].kind = "failed"
          /\ staging[Self] \in {"evidence", "absent"}
  /\ pc[Self] = "bailout_flag" => staging[Self] = "absent"
  /\ \A p \in Mine("evidence") : p.kind = "failed"

\* A step that leaves this run where it is and adds nothing in its name.
Elsewhere ==
  /\ Domains'
  /\ pc'[Self] = pc[Self] /\ exc'[Self] = exc[Self]
  /\ committed'[Self] = committed[Self] /\ target'[Self] = target[Self]
  /\ staging'[Self] \in {staging[Self], "absent"}
  /\ Mine("whole")' \subseteq Mine("whole")
  /\ Mine("evidence")' \subseteq Mine("evidence")

\* A result is published where the directory holds whole files of this run.
LEMMA PublishedIsMine ==
  Published <=> \E p \in Mine("whole") : p.kind # "failed"
  BY DEF Published, Mine

\* Such a step keeps what the invariant says of this run.
LEMMA ElsewhereKeeps ==
  ASSUME SelfInv, Elsewhere
  PROVE  SelfInv'
<1>1. (Published' => Published) /\ (HasEvidence' => HasEvidence)
  <2>1. Published' <=> \E p \in Mine("whole")' : p.kind # "failed"
    BY DEF Published, Mine
  <2> QED BY <2>1, PublishedIsMine DEF Elsewhere, HasEvidence
<1> QED BY <1>1 DEF SelfInv, Elsewhere

\* Only this run's rename adds to what is there in its name.
LEMMA RemovalAddsNothing ==
  ASSUME DOMAIN entry = Writer!Path,
         \/ entry' = entry
         \/ entry' = [entry EXCEPT ![Writer!Out] = Writer!Absent]
         \/ \E s \in {"torn", "empty"} :
              entry' = [entry EXCEPT ![Writer!Out].state = s]
  PROVE  /\ DOMAIN entry' = Writer!Path
         /\ Mine("whole")' \subseteq Mine("whole")
         /\ Mine("evidence")' \subseteq Mine("evidence")
<1> SUFFICES ASSUME NEW p \in Writer!Path, NEW s \in {"whole", "evidence"},
                    entry'[p] = [state |-> s, owner |-> Self]
             PROVE  entry[p] = [state |-> s, owner |-> Self]
  BY DEF Mine
<1>1. CASE entry' = [entry EXCEPT ![Writer!Out] = Writer!Absent]
  BY <1>1, SelfAssumption DEF Writer!Absent
<1>2. CASE \E t \in {"torn", "empty"} :
             entry' = [entry EXCEPT ![Writer!Out].state = t]
  BY <1>2
<1> QED BY <1>1, <1>2

\* A rename puts what its process has staged at its target, in its name.
LEMMA RenameAdds ==
  ASSUME DOMAIN entry = Writer!Path, NEW w \in Writers,
         entry' = [entry EXCEPT ![target[w]] =
                     [state |-> staging[w], owner |-> w]]
  PROVE  /\ DOMAIN entry' = Writer!Path
         /\ \A s \in {"whole", "evidence"} : \A p \in Mine(s)' :
              p \in Mine(s) \/ (w = Self /\ p = target[w] /\ s = staging[w])
<1>1. DOMAIN entry' = Writer!Path
  OBVIOUS
<1>2. ASSUME NEW s \in {"whole", "evidence"}, NEW p \in Writer!Path,
             entry'[p] = [state |-> s, owner |-> Self]
      PROVE  \/ entry[p] = [state |-> s, owner |-> Self]
             \/ w = Self /\ p = target[w] /\ s = staging[w]
  <2> DEFINE moved == [state |-> staging[w], owner |-> w]
  <2>1. CASE p = target[w]
    <3>1. moved = [state |-> s, owner |-> Self]
      BY <1>2, <2>1
    <3>2. moved.owner = w /\ moved.state = staging[w]
      OBVIOUS
    <3> HIDE DEF moved
    <3> QED BY <2>1, <3>1, <3>2
  <2> QED BY <1>2, <2>1
<1>3. ASSUME NEW s \in {"whole", "evidence"}, NEW p \in Mine(s)'
      PROVE  p \in Mine(s) \/ (w = Self /\ p = target[w] /\ s = staging[w])
  <2>1. p \in Writer!Path /\ entry'[p] = [state |-> s, owner |-> Self]
    BY DEF Mine
  <2> QED BY <1>2, <2>1 DEF Mine
<1> QED BY <1>1, <1>3

\* What rmtree may do to output_dir.
LEMMA RemovalIs ==
  ASSUME DOMAIN entry = Writer!Path, NEW w \in Writers,
         \/ Writer!OverwriteBegin(w) \/ Writer!OverwriteFiles(w)
         \/ Writer!OverwriteEnd(w)
  PROVE  \/ entry' = entry
         \/ entry' = [entry EXCEPT ![Writer!Out] = Writer!Absent]
         \/ \E s \in {"torn", "empty"} :
              entry' = [entry EXCEPT ![Writer!Out].state = s]
<1>1. CASE Writer!OverwriteBegin(w)
  <2>1. CASE Writer!Exists(Writer!Out)
    BY <1>1, <2>1 DEF Writer!OverwriteBegin
  <2> QED BY <1>1, <2>1 DEF Writer!OverwriteBegin
<1>2. CASE Writer!OverwriteFiles(w)
  BY <1>2 DEF Writer!OverwriteFiles
<1>3. CASE Writer!OverwriteEnd(w)
  BY <1>3 DEF Writer!OverwriteEnd
<1> QED BY <1>1, <1>2, <1>3

\* Another process, or this one at a label that writes nothing, is elsewhere.
LEMMA RivalIsElsewhere ==
  ASSUME Domains, NEW w \in Writers, w # Self, Writer!Run(w)
  PROVE  Elsewhere
<1> USE SelfAssumption DEF Domains
<1>1. CASE UNCHANGED entry
  <2>1. Mine("whole")' = Mine("whole") /\ Mine("evidence")' = Mine("evidence")
    BY <1>1 DEF Mine
  <2>2. CASE Writer!Enter(w)
    BY <1>1, <2>1, <2>2
    DEF Elsewhere, Writer!Enter, Writer!RegisterSigint,
        Writer!RegisterSigterm, Writer!GcList, Writer!GcRemove,
        Writer!GcDone, Writer!MakeStaging, Writer!EnterFails, Writer!Goto,
        Writer!flags
  <2>3. CASE Writer!Body(w)
    BY <1>1, <2>1, <2>3
    DEF Elsewhere, Writer!Body, Writer!WriteFiles, Writer!BodyRaises,
        Writer!Raise, Writer!LeaveWithoutCommit, Writer!BodyBailsOut,
        Writer!CallCommit, Writer!Goto, Writer!flags
  <2>4. CASE Writer!Commit(w)
    BY <1>1, <2>1, <2>4
    DEF Elsewhere, Writer!Commit, Writer!ResolveFinalPath,
        Writer!OverwriteBegin, Writer!OverwriteFiles, Writer!OverwriteEnd,
        Writer!OverwriteFails, Writer!DoSuffix, Writer!ProbeSlot,
        Writer!CommitReplace, Writer!Replace, Writer!ReplaceFails,
        Writer!CommitFlag, Writer!StartOverwrite, Writer!StartSuffix,
        Writer!Abort, Writer!Raise, Writer!Goto, Writer!flags
  <2>5. CASE Writer!BailoutCommit(w)
    BY <1>1, <2>1, <2>5
    DEF Elsewhere, Writer!BailoutCommit, Writer!BailoutScan,
        Writer!ProbeSlot, Writer!BailoutReplace, Writer!Replace,
        Writer!ReplaceFails, Writer!BailoutFlag, Writer!Abort, Writer!Raise,
        Writer!Goto, Writer!flags
  <2>6. CASE Writer!Leave(w)
    BY <1>1, <2>1, <2>6
    DEF Elsewhere, Writer!Leave, Writer!Exit, Writer!RestoreSigint,
        Writer!RestoreSigterm, Writer!Cleanup, Writer!Goto, Writer!flags
  <2> QED BY <2>2, <2>3, <2>4, <2>5, <2>6 DEF Writer!Run
<1>2. CASE \/ Writer!OverwriteBegin(w) \/ Writer!OverwriteFiles(w)
           \/ Writer!OverwriteEnd(w)
  BY <1>2, RemovalIs, RemovalAddsNothing
  DEF Elsewhere, Writer!OverwriteBegin, Writer!OverwriteFiles,
      Writer!OverwriteEnd, Writer!Raise, Writer!Goto, Writer!private,
      Writer!flags
<1>3. CASE \E next \in {"flag", "bailout_flag"} : Writer!Replace(w, next)
  <2>1. entry' = [entry EXCEPT ![target[w]] =
                    [state |-> staging[w], owner |-> w]]
    BY <1>3 DEF Writer!Replace
  <2>2. /\ DOMAIN entry' = Writer!Path
        /\ Mine("whole")' \subseteq Mine("whole")
        /\ Mine("evidence")' \subseteq Mine("evidence")
    BY <2>1, RenameAdds
  <2> QED BY <1>3, <2>2
          DEF Elsewhere, Writer!Replace, Writer!Goto, Writer!flags
<1>4. \/ UNCHANGED entry
      \/ Writer!OverwriteBegin(w) \/ Writer!OverwriteFiles(w)
      \/ Writer!OverwriteEnd(w)
      \/ \E next \in {"flag", "bailout_flag"} : Writer!Replace(w, next)
  BY DEF Writer!Run, Writer!Enter, Writer!RegisterSigint,
     Writer!RegisterSigterm, Writer!GcList, Writer!GcRemove, Writer!GcDone,
     Writer!MakeStaging, Writer!EnterFails, Writer!Body, Writer!WriteFiles,
     Writer!BodyRaises, Writer!LeaveWithoutCommit, Writer!BodyBailsOut,
     Writer!CallCommit, Writer!Commit, Writer!ResolveFinalPath,
     Writer!OverwriteFails, Writer!DoSuffix, Writer!ProbeSlot,
     Writer!CommitReplace, Writer!ReplaceFails, Writer!CommitFlag,
     Writer!BailoutCommit, Writer!BailoutScan, Writer!BailoutReplace,
     Writer!BailoutFlag, Writer!Leave, Writer!Exit, Writer!RestoreSigint,
     Writer!RestoreSigterm
<1> QED BY <1>1, <1>2, <1>3, <1>4

\* Steps of this run that leave the parent directory's entries alone.
LEMMA OwnQuietStep ==
  ASSUME SelfInv, UNCHANGED entry,
         \/ Writer!Enter(Self) \/ Writer!WriteFiles(Self)
         \/ Writer!BodyRaises(Self) \/ Writer!BodyBailsOut(Self)
         \/ Writer!CallCommit(Self) \/ Writer!Commit(Self)
         \/ Writer!BailoutCommit(Self) \/ Writer!Leave(Self)
         \/ Writer!SignalHandler(Self) \/ Writer!DefaultSignal(Self)
         \/ Writer!Crash(Self)
  PROVE  SelfInv'
<1> DEFINE mine == Mine("evidence")
<1>1. mine' = mine /\ Published' = Published
  BY DEF Mine, Published
<1> HIDE DEF mine
<1> USE SelfAssumption, <1>1
    DEF SelfInv, HasEvidence, Domains, BailingOut, Leaving, Entered,
        Writer!InBlock, Writer!Gone, Writer!PC, Writer!Entering,
        Writer!Restoring, Writer!Goto, Writer!Raise, Writer!flags,
        Writer!private
<1>2. CASE Writer!Enter(Self)
  BY <1>2
  DEF mine, Writer!Enter, Writer!RegisterSigint, Writer!RegisterSigterm,
      Writer!GcList, Writer!GcRemove, Writer!GcDone, Writer!MakeStaging,
      Writer!EnterFails
<1>3. CASE \/ Writer!WriteFiles(Self) \/ Writer!BodyRaises(Self)
           \/ Writer!CallCommit(Self)
  BY <1>3 DEF mine, Writer!WriteFiles, Writer!BodyRaises, Writer!CallCommit
<1>4. CASE Writer!BodyBailsOut(Self)
  BY <1>4 DEF mine, Writer!BodyBailsOut
<1>5. CASE \/ Writer!ResolveFinalPath(Self) \/ Writer!OverwriteBegin(Self)
           \/ Writer!OverwriteFiles(Self) \/ Writer!OverwriteEnd(Self)
           \/ Writer!OverwriteFails(Self) \/ Writer!DoSuffix(Self)
  BY <1>5
  DEF mine, Writer!ResolveFinalPath, Writer!OverwriteBegin,
      Writer!OverwriteFiles, Writer!OverwriteEnd, Writer!OverwriteFails,
      Writer!DoSuffix, Writer!ProbeSlot, Writer!StartOverwrite, Writer!StartSuffix,
      Writer!Abort
<1>6. CASE Writer!CommitReplace(Self) \/ Writer!CommitFlag(Self)
  BY <1>6
  DEF mine, Writer!CommitReplace, Writer!Replace, Writer!ReplaceFails,
      Writer!CommitFlag
<1>7. CASE Writer!BailoutScan(Self)
  BY <1>7 DEF mine, Writer!BailoutScan, Writer!ProbeSlot, Writer!Abort
<1>8. CASE Writer!BailoutReplace(Self) \/ Writer!BailoutFlag(Self)
  BY <1>8
  DEF mine, Writer!BailoutReplace, Writer!Replace, Writer!ReplaceFails,
      Writer!BailoutFlag
<1>9. CASE Writer!Leave(Self)
  BY <1>9
  DEF mine, Writer!Leave, Writer!Exit, Writer!KeepsStaging, Writer!Cleanup,
      Writer!RestoreSigint, Writer!RestoreSigterm
<1>10. CASE \/ Writer!SignalHandler(Self) \/ Writer!DefaultSignal(Self)
            \/ Writer!Crash(Self)
  BY <1>10
  DEF mine, Writer!SignalHandler, Writer!DefaultSignal, Writer!Crash,
      Writer!Cleanup, Writer!AfterSignal
<1> QED
  BY <1>2, <1>3, <1>4, <1>5, <1>6, <1>7, <1>8, <1>9, <1>10
  DEF Writer!Commit, Writer!BailoutCommit

\* This run's steps on entries: rmtree, and the two renames.
LEMMA OwnEntryStep ==
  ASSUME SelfInv,
         \/ Writer!OverwriteBegin(Self) \/ Writer!OverwriteFiles(Self)
         \/ Writer!OverwriteEnd(Self)
         \/ pc[Self] = "replace" /\ Writer!Replace(Self, "flag")
         \/ /\ pc[Self] = "bailout_replace"
            /\ Writer!Replace(Self, "bailout_flag")
  PROVE  SelfInv'
<1> USE SelfAssumption DEF SelfInv, Domains
<1>1. CASE \/ Writer!OverwriteBegin(Self) \/ Writer!OverwriteFiles(Self)
           \/ Writer!OverwriteEnd(Self)
  <2>1. /\ DOMAIN entry' = Writer!Path
        /\ Mine("whole")' \subseteq Mine("whole")
        /\ Mine("evidence")' \subseteq Mine("evidence")
    BY <1>1, RemovalIs, RemovalAddsNothing
  <2>2. pc[Self] \in {"rm_begin", "rm_files", "rm_dir"}
    BY <1>1 DEF Writer!OverwriteBegin, Writer!OverwriteFiles,
                Writer!OverwriteEnd
  <2>3. ~ Published /\ ~ HasEvidence /\ ~ committed[Self] /\ exc[Self] = "none"
    BY <2>2 DEF Leaving, BailingOut, Writer!Restoring, Writer!Gone,
                Writer!InBlock
  <2>4. /\ UNCHANGED <<staging, committed, target>>
        /\ Domains'
        /\ \/ pc'[Self] \in {"rm_files", "rm_dir", "replace"}
              /\ exc'[Self] = "none"
           \/ pc'[Self] = "exit" /\ exc'[Self] = "error"
    BY <1>1, <2>1, <2>3
    DEF Writer!OverwriteBegin, Writer!OverwriteFiles, Writer!OverwriteEnd,
        Writer!Raise, Writer!Goto, Writer!private, Writer!flags
  <2>5. ~ Published' /\ ~ HasEvidence'
    <3>1. Published' => \E p \in Mine("whole")' : p.kind # "failed"
      BY DEF Published, Mine
    <3> QED BY <2>1, <2>3, <2>4, <3>1, PublishedIsMine DEF HasEvidence
  <2>6. pc'[Self] \in Writer!PC
    BY <2>4 DEF Writer!PC, Writer!InBlock
  <2> QED BY <2>1, <2>3, <2>4, <2>5, <2>6
          DEF HasEvidence, Leaving, BailingOut, Writer!Restoring, Entered,
              Writer!Gone, Writer!InBlock
<1>2. ASSUME NEW next \in {"flag", "bailout_flag"}, Writer!Replace(Self, next)
      PROVE  /\ Domains' /\ UNCHANGED <<exc, committed, target>>
             /\ pc'[Self] = next /\ staging'[Self] = "absent"
             /\ \A s \in {"whole", "evidence"} : \A p \in Mine(s)' :
                  \/ p \in Mine(s)
                  \/ p = target[Self] /\ s = staging[Self]
  BY <1>2, RenameAdds DEF Writer!Replace, Writer!Goto, Writer!flags
<1>3. CASE pc[Self] = "replace" /\ Writer!Replace(Self, "flag")
  <2>1. ~ HasEvidence /\ exc[Self] = "none"
    BY <1>3 DEF Leaving, BailingOut, Writer!Restoring, Writer!Gone,
                Writer!InBlock
  <2>2. Mine("evidence")' = {} /\ ~ HasEvidence'
    BY <1>2, <1>3, <2>1 DEF HasEvidence
  <2> QED BY <1>2, <1>3, <2>1, <2>2
          DEF Leaving, BailingOut, Entered, Writer!Restoring, Writer!Gone,
              Writer!PC, Writer!InBlock
<1>4. CASE /\ pc[Self] = "bailout_replace"
           /\ Writer!Replace(Self, "bailout_flag")
  <2>1. /\ ~ Published /\ ~ committed[Self] /\ exc[Self] = "none"
        /\ staging[Self] = "evidence" /\ target[Self].kind = "failed"
    BY <1>4 DEF Leaving, BailingOut, Writer!Restoring, Writer!Gone,
                Writer!InBlock, Writer!Replace, Writer!CanReplace
  <2>2. /\ Mine("whole")' \subseteq Mine("whole")
        /\ \A p \in Mine("evidence")' : p.kind = "failed"
    BY <1>2, <1>4, <2>1
  <2>3. ~ Published'
    <3>1. Published' => \E p \in Mine("whole")' : p.kind # "failed"
      BY DEF Published, Mine
    <3> QED BY <2>1, <2>2, <3>1, PublishedIsMine
  <2> QED BY <1>2, <1>4, <2>1, <2>2, <2>3
          DEF Leaving, BailingOut, Entered, Writer!Restoring, Writer!Gone,
              Writer!PC, Writer!InBlock
<1> QED BY <1>1, <1>3, <1>4

\* No step of the pipeline, its rivals or its interruptions breaks it.
LEMMA NextSelf == SelfInv /\ [Next]_vars => SelfInv'
<1> SUFFICES ASSUME SelfInv, [Next]_vars PROVE SelfInv'
  OBVIOUS
<1>1. CASE UNCHANGED writerVars
  BY <1>1 DEF writerVars, SelfInv, Domains, HasEvidence, Mine, Published
<1>2. CASE Others
  BY <1>2, RivalIsElsewhere, ElsewhereKeeps DEF Others, SelfInv
<1>3. CASE \/ EnterWriter \/ Generate \/ RejectTag \/ BodyFails \/ BailOut
           \/ Package \/ CallCommit \/ WriterStep \/ Interrupt
  <2>1. \/ Writer!Enter(Self) \/ Writer!WriteFiles(Self)
        \/ Writer!BodyRaises(Self) \/ Writer!BodyBailsOut(Self)
        \/ Writer!CallCommit(Self) \/ Writer!Commit(Self)
        \/ Writer!BailoutCommit(Self) \/ Writer!Leave(Self)
        \/ Writer!SignalHandler(Self) \/ Writer!DefaultSignal(Self)
        \/ Writer!Crash(Self)
    BY <1>3 DEF EnterWriter, Generate, RejectTag, BodyFails, BailOut, Package,
                CallCommit, WriterStep, Interrupt
  <2>2. \/ UNCHANGED entry
        \/ Writer!OverwriteBegin(Self) \/ Writer!OverwriteFiles(Self)
        \/ Writer!OverwriteEnd(Self)
        \/ pc[Self] = "replace" /\ Writer!Replace(Self, "flag")
        \/ /\ pc[Self] = "bailout_replace"
           /\ Writer!Replace(Self, "bailout_flag")
    BY <2>1
    DEF Writer!Enter, Writer!RegisterSigint,
        Writer!RegisterSigterm, Writer!GcList, Writer!GcRemove, Writer!GcDone,
        Writer!MakeStaging, Writer!EnterFails, Writer!WriteFiles,
        Writer!BodyRaises, Writer!BodyBailsOut,
        Writer!CallCommit, Writer!Commit, Writer!ResolveFinalPath,
        Writer!OverwriteFails, Writer!DoSuffix, Writer!ProbeSlot,
        Writer!CommitReplace, Writer!ReplaceFails, Writer!CommitFlag,
        Writer!BailoutCommit, Writer!BailoutScan, Writer!BailoutReplace,
        Writer!BailoutFlag, Writer!Leave, Writer!Exit, Writer!RestoreSigint,
        Writer!RestoreSigterm, Writer!SignalHandler, Writer!DefaultSignal,
        Writer!Crash
  <2> QED BY <2>1, <2>2, OwnQuietStep, OwnEntryStep
<1>4. CASE \/ EarlyStep \/ EarlyError \/ TryCheck \/ TryFix \/ PassCheck
           \/ Return \/ UNCHANGED vars
  BY <1>1, <1>4 DEF EarlyStep, EarlyError, TryCheck, TryFix, PassCheck, Return,
                    vars
<1> QED BY <1>2, <1>3, <1>4 DEF Next, RunStep

\* It holds before the run has done anything.
LEMMA InitSelf == Init => SelfInv
<1> SUFFICES ASSUME Init PROVE SelfInv
  OBVIOUS
<1>1. \A p \in Writer!Path : entry[p].owner \in {Before, NoOne}
  BY DEF Init, Writer!Init, Writer!Absent
<1>2. Mine("evidence") = {} /\ ~ Published
  BY <1>1, SelfAssumption DEF Mine, Published
<1> QED
  BY <1>2, SelfAssumption
  DEF Init, Writer!Init, SelfInv, Domains, HasEvidence, Entered, Leaving,
      BailingOut, Writer!PC, Writer!Gone, Writer!Restoring

\* Whatever its rivals do, where a run is as a writer says which of its files
\* are published or kept as evidence.
THEOREM SelfCorrect == Spec => []SelfInv
BY InitSelf, NextSelf, PTL DEF Spec

-----------------------------------------------------------------------------
(* What a run leaves behind tells what happened.                           *)

\* troubleshoot.md names the check that gave up, those before it having passed.
Explained ==
  /\ troubleshoot # NotWritten
  /\ passed[troubleshoot.check] = NotRun
  /\ troubleshoot.check = "dry_run" => passed["validation"] # NotRun
  /\ troubleshoot.check = "build" => passed["dry_run"] # NotRun

HasResult == staging[Self] = "whole" \/ Published

\* Evidence is explained; a result is summarised, and nothing is checked after
\* that; the exit code is decided when nothing of this run moves any more.
TaleInv ==
  /\ HasEvidence => Explained
  /\ HasResult => step \in {"commit", "end"} /\ summary = SkippedNames
  /\ \A check \in Checks :
       step \in Early \cup {check} => passed[check] = NotRun
  /\ step \in {"validation", "dry_run"} => passed["build"] = NotRun
  /\ step = "validation" => passed["dry_run"] = NotRun
  /\ step = "build" \/ passed["build"] # NotRun => engine # "skip"
  /\ exitCode # Running => step = "end"
  /\ ExitCodeTellsTruth

\* Steps of this run as a writer, but for its writing, make no evidence.
LEMMA OwnStepKeeps ==
  ASSUME SelfInv,
         \/ Writer!Enter(Self) \/ Writer!BodyRaises(Self)
         \/ Writer!CallCommit(Self) \/ Writer!Commit(Self)
         \/ Writer!BailoutCommit(Self) \/ Writer!Leave(Self)
         \/ Writer!SignalHandler(Self) \/ Writer!DefaultSignal(Self)
         \/ Writer!Crash(Self)
  PROVE  HasEvidence' => HasEvidence
<1> USE SelfAssumption DEF SelfInv, Domains
<1>1. CASE Writer!Commit(Self) \/ Writer!BailoutCommit(Self)
  <2>1. CASE \E next \in {"flag", "bailout_flag"} : Writer!Replace(Self, next)
    <3>1. staging'[Self] = "absent"
      BY <2>1 DEF Writer!Replace
    <3>2. entry' = [entry EXCEPT ![target[Self]] =
                      [state |-> staging[Self], owner |-> Self]]
      BY <2>1 DEF Writer!Replace
    <3>3. \A p \in Mine("evidence")' :
            p \in Mine("evidence") \/ staging[Self] = "evidence"
      BY <3>2, RenameAdds
    <3> QED BY <3>1, <3>3 DEF HasEvidence
  <2>2. CASE \/ Writer!OverwriteBegin(Self) \/ Writer!OverwriteFiles(Self)
             \/ Writer!OverwriteEnd(Self)
    <3>1. Mine("evidence")' \subseteq Mine("evidence")
      BY <2>2, RemovalIs, RemovalAddsNothing
    <3>2. staging' = staging
      BY <2>2 DEF Writer!OverwriteBegin, Writer!OverwriteFiles,
                  Writer!OverwriteEnd
    <3> QED BY <3>1, <3>2 DEF HasEvidence
  <2>3. CASE UNCHANGED <<entry, staging>>
    BY <2>3 DEF HasEvidence, Mine
  <2> QED
    BY <1>1, <2>1, <2>2, <2>3
    DEF Writer!Commit, Writer!ResolveFinalPath, Writer!OverwriteFails,
        Writer!DoSuffix, Writer!ProbeSlot, Writer!CommitReplace,
        Writer!ReplaceFails, Writer!CommitFlag, Writer!BailoutCommit,
        Writer!BailoutScan, Writer!BailoutReplace, Writer!BailoutFlag
<1>2. CASE \/ Writer!Enter(Self) \/ Writer!BodyRaises(Self)
           \/ Writer!CallCommit(Self) \/ Writer!Leave(Self)
           \/ Writer!SignalHandler(Self) \/ Writer!DefaultSignal(Self)
           \/ Writer!Crash(Self)
  <2>1. /\ UNCHANGED entry
        /\ staging'[Self] \in {staging[Self], "absent", "empty"}
    BY <1>2
    DEF Writer!Enter, Writer!RegisterSigint, Writer!RegisterSigterm,
        Writer!GcList, Writer!GcRemove, Writer!GcDone, Writer!MakeStaging,
        Writer!EnterFails, Writer!BodyRaises, Writer!CallCommit,
        Writer!Leave, Writer!Exit, Writer!RestoreSigint,
        Writer!RestoreSigterm, Writer!SignalHandler, Writer!DefaultSignal,
        Writer!Crash, Writer!Cleanup
  <2> QED BY <2>1 DEF HasEvidence, Mine
<1> QED BY <1>1, <1>2

\* Nothing has happened yet that would have to be told.
LEMMA InitTale == Init => TaleInv
<1> SUFFICES ASSUME Init PROVE TaleInv
  OBVIOUS
<1>1. \A p \in Writer!Path : entry[p].owner \in {Before, NoOne}
  BY DEF Init, Writer!Init, Writer!Absent
<1>2. Mine("evidence") = {} /\ ~ Published
  BY <1>1, SelfAssumption DEF Mine, Published
<1>3. ~ HasEvidence /\ ~ HasResult
  BY <1>2, SelfAssumption DEF HasEvidence, HasResult, Init, Writer!Init
<1> QED
  BY <1>3 DEF Init, TaleInv, Checks, Running, ExitCodeTellsTruth

\* A step without new evidence or a new result, that leaves the checks, the
\* summary and the explanation alone, keeps the tale.
LEMMA SameTale ==
  ASSUME TaleInv, UNCHANGED <<config, record>>,
         HasEvidence' => HasEvidence, HasResult' => HasResult,
         \/ step' = step
         \/ step' = "end"
         \/ step \in Early /\ step' \in Early,
         exitCode' # Running => step' = "end", ExitCodeTellsTruth'
  PROVE  TaleInv'
  BY DEF TaleInv, Explained, SkippedNames, record, config, Early, Checks

\* Each step preserves it; the guards of PassCheck, Package and BailOut say
\* which checks are behind the run when it writes what they write.
LEMMA NextTale ==
  GateInv /\ SelfInv /\ TaleInv /\ [Next]_vars => TaleInv'
<1> SUFFICES ASSUME GateInv, SelfInv, TaleInv, [Next]_vars PROVE TaleInv'
  OBVIOUS
<1> USE SelfAssumption
<1>0. Shape
  BY DEF GateInv
<1>1. CASE Others
  <2>1. Elsewhere
    BY <1>1, RivalIsElsewhere DEF Others, SelfInv
  <2>2. (HasEvidence' => HasEvidence) /\ (Published' => Published)
    <3>1. Published' <=> \E p \in Mine("whole")' : p.kind # "failed"
      BY DEF Published, Mine
    <3> QED BY <2>1, <3>1, PublishedIsMine DEF Elsewhere, HasEvidence
  <2>3. /\ HasResult' => HasResult
        /\ UNCHANGED <<config, record, step, exitCode>>
    BY <1>1, <2>1, <2>2 DEF HasResult, Elsewhere, Others
  <2>4. ExitCodeTellsTruth'
    BY <2>1, <2>2, <2>3 DEF TaleInv, ExitCodeTellsTruth, Elsewhere, record
  <2> QED BY <2>2, <2>3, <2>4, SameTale DEF TaleInv
<1>2. CASE EnterWriter \/ RejectTag \/ BodyFails \/ CallCommit \/ WriterStep
             \/ Interrupt
  <2>1. HasEvidence' => HasEvidence
    BY <1>2, OwnStepKeeps
    DEF EnterWriter, RejectTag, BodyFails, CallCommit, WriterStep, Interrupt
  <2>2. Harmless
    BY <1>0, <1>2, WriterStepHarmless
    DEF EnterWriter, RejectTag, BodyFails, CallCommit, WriterStep, Interrupt,
        Writer!Environment
  <2>3. HasResult' => HasResult
    BY <2>2 DEF Harmless, HasResult
  <2>4. /\ UNCHANGED <<config, record, exitCode>>
        /\ \/ step' = step
           \/ step = "writer" /\ step' = "generate"
    BY <1>2 DEF EnterWriter, RejectTag, BodyFails, CallCommit, WriterStep,
                Interrupt
  <2>5. exitCode = Running
    BY <1>2 DEF TaleInv, EnterWriter, RejectTag, BodyFails, CallCommit,
                WriterStep, Interrupt, Checks
  <2> QED BY <2>1, <2>3, <2>4, <2>5, SameTale
          DEF ExitCodeTellsTruth, Running, Early
<1>3. CASE EarlyStep \/ EarlyError \/ Return \/ TryCheck \/ TryFix
             \/ UNCHANGED vars
  <2>1. UNCHANGED <<entry, staging, committed, pc, exc, config, record>>
    BY <1>3 DEF EarlyStep, EarlyError, Return, TryCheck, TryFix, vars,
                writerVars
  <2>2. (HasEvidence' <=> HasEvidence) /\ (Published' <=> Published)
        /\ (HasResult' <=> HasResult)
    BY <2>1 DEF HasEvidence, HasResult, Published, Mine
  <2>3. /\ \/ step' = step \/ step' = "end"
           \/ step \in Early /\ step' \in Early
        /\ exitCode' # Running => step' = "end"
    BY <1>3 DEF EarlyStep, EarlyError, Return, TryCheck, TryFix, vars, TaleInv,
                Following, Early
  <2>4. ExitCodeTellsTruth'
    <3>1. CASE EarlyError
      BY <2>1, <2>2, <3>1
      DEF EarlyError, SelfInv, ExitCodeTellsTruth, Leaving, Writer!Gone,
          Writer!Restoring
    <3>2. CASE Return
      <4>1. /\ pc[Self] = "done"
            /\ exitCode' \in CodesFor(exc[Self])
        BY <3>2 DEF Return
      <4>2. CASE exc[Self] = "none"
        <5>1. committed[Self] /\ exitCode' = ReportCode
          BY <4>1, <4>2 DEF SelfInv, Leaving, Writer!Gone, CodesFor
        <5> QED BY <2>1, <5>1 DEF ExitCodeTellsTruth, ReportCode, record
      <4>3. CASE exc[Self] \in {"bailout", "abort", "error"}
        <5>1. exitCode' = 1 /\ ~ Published /\ ~ committed[Self]
          BY <4>1, <4>3 DEF SelfInv, CodesFor
        <5> QED BY <2>1, <2>2, <5>1 DEF ExitCodeTellsTruth
      <4>4. CASE exc[Self] \in {"signal", "killed"}
        <5>1. exitCode' \in {130, 143}
          BY <4>1, <4>4 DEF CodesFor
        <5> QED BY <5>1 DEF ExitCodeTellsTruth
      <4> QED BY <4>2, <4>3, <4>4 DEF SelfInv
    <3>3. CASE UNCHANGED exitCode
      BY <2>1, <2>2, <3>3 DEF TaleInv, ExitCodeTellsTruth, record
    <3> QED BY <1>3, <3>1, <3>2, <3>3
            DEF EarlyStep, TryCheck, TryFix, vars
  <2> QED BY <2>1, <2>2, <2>3, <2>4, SameTale
<1>4. CASE Generate \/ Package
  <2>1. /\ pc[Self] = "body"
        /\ UNCHANGED <<entry, committed, config, passed, exitCode,
                       troubleshoot>>
        /\ staging'[Self] # "evidence"
    BY <1>4 DEF Generate, Package, Writer!WriteFiles, record, Shape, SelfInv,
                Domains, Writer!flags
  <2>2. ~ HasEvidence /\ ~ Published
    BY <2>1 DEF SelfInv, Leaving, BailingOut, Writer!Gone, Writer!Restoring
  <2>3. ~ HasEvidence' /\ ~ Published'
    BY <2>1, <2>2 DEF HasEvidence, Published, Mine
  <2>4. exitCode = Running
    BY <1>4 DEF TaleInv, Generate, Package
  <2>5. CASE Generate
    <3>1. staging'[Self] # "whole"
      BY <2>5 DEF Generate, Writer!WriteFiles, SelfInv, Domains, GateInv,
                  StagedInv, Early
    <3>2. step = "generate" /\ step' = "validation"
      BY <2>5 DEF Generate
    <3> QED BY <2>1, <2>3, <2>4, <3>1, <3>2
            DEF TaleInv, HasResult, Checks, Early, config,
                ExitCodeTellsTruth, Running
  <2>6. CASE Package
    <3>1. /\ step = "package" /\ step' = "commit"
          /\ summary' = SkippedNames
      BY <2>6 DEF Package
    <3>2. SkippedNames' = SkippedNames
      BY <2>1 DEF SkippedNames
    <3> QED BY <2>1, <2>3, <2>4, <3>1, <3>2
            DEF TaleInv, HasResult, Checks, Early, config,
                ExitCodeTellsTruth, Running
  <2> QED BY <1>4, <2>5, <2>6
<1>5. CASE BailOut
  <2>1. /\ pc[Self] = "body" /\ step \in Checks
        /\ UNCHANGED <<entry, committed, config, passed, exitCode, step>>
        /\ staging'[Self] = "evidence"
        /\ troubleshoot' = [check |-> step, attempts |-> Len(log)]
    BY <1>5 DEF BailOut, Writer!BodyBailsOut, SelfInv, Domains, Writer!flags
  <2>2. ~ Published'
    BY <2>1 DEF SelfInv, Leaving, Published, Writer!Gone, Writer!Restoring
  <2>3. Explained'
    <3>1. troubleshoot'.check = step
      BY <2>1
    <3>2. step # "none"
      BY <2>1 DEF Checks
    <3>3. NotWritten.check = "none"
      BY DEF NotWritten
    <3> QED BY <2>1, <3>1, <3>2, <3>3
            DEF Explained, TaleInv, GateInv, StepInv, Checks
  <2>4. exitCode = Running
    BY <2>1 DEF TaleInv, Checks
  <2> QED BY <2>1, <2>2, <2>3, <2>4
          DEF TaleInv, HasResult, Checks, Early, config,
              ExitCodeTellsTruth, Running
<1>6. CASE PassCheck
  <2>1. /\ pc[Self] = "body" /\ step \in Checks
        /\ UNCHANGED <<entry, staging, committed, config, exitCode,
                       troubleshoot>>
        /\ passed' = [passed EXCEPT ![step] = outcome]
        /\ step' = NextStep(step)
    BY <1>6 DEF PassCheck, writerVars
  <2>2. ~ HasEvidence /\ ~ HasResult
    BY <2>1 DEF SelfInv, Leaving, BailingOut, Writer!Gone, Writer!Restoring,
                TaleInv, HasResult, Checks
  <2>3. ~ HasEvidence' /\ ~ HasResult'
    BY <2>1, <2>2 DEF HasEvidence, HasResult, Published, Mine
  <2>4. exitCode = Running
    BY <2>1 DEF TaleInv, Checks
  <2>5. step' \in {"dry_run", "build", "package"}
    BY <2>1 DEF NextStep, Checks
  <2>6. \A check \in Checks : step' = check => passed'[check] = NotRun
    BY <2>1 DEF NextStep, Checks, TaleInv, Shape
  <2>7. step' = "dry_run" => passed'["build"] = NotRun
    BY <2>1 DEF NextStep, Checks, TaleInv, Shape
  <2>8. step' = "build" \/ passed'["build"] # NotRun => engine' # "skip"
    BY <1>0, <2>1 DEF NextStep, Checks, TaleInv, Shape, config
  <2> QED BY <2>1, <2>3, <2>4, <2>5, <2>6, <2>7, <2>8
          DEF TaleInv, Early, ExitCodeTellsTruth, Running
<1> QED BY <1>1, <1>2, <1>3, <1>4, <1>5, <1>6 DEF Next, RunStep

\* The three invariants together, for any rivals, engines and faults.
THEOREM TaleHolds == Spec => [](GateInv /\ SelfInv /\ TaleInv)
BY InitGate, InitSelf, InitTale, NextGate, NextSelf, NextTale, PTL DEF Spec

\* Exit codes 0 and 2 come from a commit that returned, 2 exactly for warnings,
\* and after exit code 1 nothing of the run is published: for any rivals,
\* engines and faults, wherever a signal or a crash strikes.
THEOREM ExitCodeIsTrue == Spec => []ExitCodeTellsTruth
<1>1. TaleInv => ExitCodeTellsTruth
  BY DEF TaleInv
<1> QED BY <1>1, TaleHolds, PTL

\* A published summary lists the checks that were asked for and skipped.
THEOREM SkipsAreTold == Spec => []SkippedIsTold
<1>1. TaleInv => SkippedIsTold
  <2> SUFFICES ASSUME TaleInv, Published PROVE SkippedIsTold
    BY DEF SkippedIsTold
  <2>1. summary = SkippedNames
    BY DEF TaleInv, HasResult
  <2>2. passed["build"] = "skipped" => engine # "skip"
    BY DEF TaleInv, NotRun
  <2>3. "kubectl_dry_run" \in SkippedNames <=> passed["dry_run"] = "skipped"
    BY DEF SkippedNames
  <2>4. "container_build" \in SkippedNames <=> passed["build"] = "skipped"
    BY DEF SkippedNames
  <2> QED BY <2>1, <2>2, <2>3, <2>4 DEF SkippedIsTold, Requested
<1> QED BY <1>1, TaleHolds, PTL

\* A check is tried once: a fix that is not applied ends the loop, and the
\* pipeline has no other.
OnceInv ==
  /\ phase \in {"operate", "fix"} => log = <<>>
  /\ phase = "returned" => Len(log) = 1
  /\ troubleshoot # NotWritten => troubleshoot.attempts = 1

\* Each step of the loop keeps what the log holds.
LEMMA LoopLogsOnce ==
  ASSUME OnceInv, [Loop!Next]_(Loop!loopVars)
  PROVE  /\ phase' \in {"operate", "fix"} => log' = <<>>
         /\ phase' = "returned" => Len(log') = 1
<1>1. ASSUME NEW e
      PROVE  Len(Append(<<>>, e)) = 1
  OBVIOUS
<1>2. CASE Loop!Call
  BY <1>2 DEF Loop!Call
<1>3. CASE Loop!Operate(Loop!Outcome)
  BY <1>1, <1>3 DEF OnceInv, Loop!Operate, Loop!Record, Loop!Return
<1>4. CASE Loop!TryFix
  BY <1>1, <1>4 DEF OnceInv, Loop!TryFix, Loop!Record, Loop!Return
<1>5. CASE UNCHANGED Loop!loopVars
  BY <1>5 DEF OnceInv, Loop!loopVars
<1> QED BY <1>2, <1>3, <1>4, <1>5 DEF Loop!Next

\* So does each step of the pipeline, troubleshoot.md being written from it.
LEMMA NextOnce == OnceInv /\ [Next]_vars => OnceInv'
<1> SUFFICES ASSUME OnceInv, [Next]_vars PROVE OnceInv'
  OBVIOUS
<1>1. /\ phase' \in {"operate", "fix"} => log' = <<>>
      /\ phase' = "returned" => Len(log') = 1
  BY LoopNext, LoopLogsOnce
<1>2. troubleshoot' # NotWritten => troubleshoot'.attempts = 1
  <2>1. CASE BailOut
    <3>1. troubleshoot' = [check |-> step, attempts |-> 1]
      BY <2>1 DEF BailOut, OnceInv
    <3> QED BY <3>1
  <2>2. CASE ~ BailOut
    <3>1. UNCHANGED troubleshoot
      BY <2>2
      DEF Next, RunStep, EarlyStep, EarlyError, EnterWriter, Generate, RejectTag,
          BodyFails, TryCheck, TryFix, PassCheck, Package, CallCommit, WriterStep,
          Return, Interrupt, Others, vars, config, record
    <3> QED BY <3>1 DEF OnceInv
  <2> QED BY <2>1, <2>2
<1> QED BY <1>1, <1>2 DEF OnceInv

\* Evidence names the check that gave up, after the ones that passed, and the
\* one attempt at it, and no result of that run is published.
THEOREM EvidenceIsExplained == Spec => []EvidenceExplains
<1>1. Init => OnceInv
  BY DEF Init, Loop!Init, OnceInv
<1>2. Spec => []OnceInv
  BY <1>1, NextOnce, PTL DEF Spec
<1>3. SelfInv /\ TaleInv /\ OnceInv => EvidenceExplains
  BY DEF SelfInv, TaleInv, OnceInv, EvidenceExplains, Explained, HasEvidence, Mine
<1> QED BY <1>2, <1>3, TaleHolds, PTL

-----------------------------------------------------------------------------
(* Types.  What AtomicWriter_proofs and RetryLoop_proofs show is used here  *)
(* through an instance of each, which stands for the same writer and loop.  *)

Proved == INSTANCE AtomicWriter_refinement
ProvedLoop == INSTANCE RetryLoop_proofs WITH FixOutcomes <- {"not_applied"}

\* Both instances of the writer are one: a call, an answer or an
\* interruption of one is one of the other.
LEMMA SameCalls ==
  ASSUME NEW w
  PROVE  /\ Writer!Run(w) => Proved!Run(w)
         /\ Writer!DoPrompt(w) => Proved!DoPrompt(w)
         /\ Writer!SignalHandler(w) => Proved!SignalHandler(w)
         /\ Writer!DefaultSignal(w) => Proved!DefaultSignal(w)
         /\ Writer!Crash(w) => Proved!Crash(w)
         /\ Writer!Age(w) => Proved!Age(w)
<1>1. ASSUME Writer!Enter(w) PROVE Proved!Enter(w)
  BY <1>1
  DEF Writer!Enter, Proved!Enter, Writer!RegisterSigint,
      Proved!RegisterSigint, Writer!RegisterSigterm, Proved!RegisterSigterm,
      Writer!GcList, Proved!GcList, Writer!GcRemove, Proved!GcRemove,
      Writer!GcDone, Proved!GcDone, Writer!MakeStaging, Proved!MakeStaging,
      Writer!EnterFails, Proved!EnterFails, Writer!Goto, Proved!Goto,
      Writer!flags, Proved!flags, Writer!private, Proved!private,
      Writer!Signals, Proved!Signals, Writer!Entering, Proved!Entering
<1>2. ASSUME Writer!Body(w) PROVE Proved!Body(w)
  BY <1>2
  DEF Writer!Body, Proved!Body, Writer!WriteFiles, Proved!WriteFiles,
      Writer!BodyRaises, Proved!BodyRaises, Writer!LeaveWithoutCommit,
      Proved!LeaveWithoutCommit, Writer!BodyBailsOut, Proved!BodyBailsOut,
      Writer!CallCommit, Proved!CallCommit, Writer!Goto, Proved!Goto,
      Writer!Raise, Proved!Raise, Writer!flags, Proved!flags, Writer!private,
      Proved!private
<1>3. ASSUME Writer!Commit(w) PROVE Proved!Commit(w)
  BY <1>3
  DEF Writer!Commit, Proved!Commit, Writer!ResolveFinalPath,
      Proved!ResolveFinalPath, Writer!OverwriteBegin, Proved!OverwriteBegin,
      Writer!OverwriteFiles, Proved!OverwriteFiles, Writer!OverwriteEnd,
      Proved!OverwriteEnd, Writer!OverwriteFails, Proved!OverwriteFails,
      Writer!DoSuffix, Proved!DoSuffix, Writer!CommitReplace,
      Proved!CommitReplace, Writer!CommitFlag, Proved!CommitFlag,
      Writer!Goto, Proved!Goto, Writer!Raise, Proved!Raise, Writer!flags,
      Proved!flags, Writer!private, Proved!private, Writer!Exists,
      Proved!Exists, Writer!Out, Proved!Out, Writer!StartOverwrite,
      Proved!StartOverwrite, Writer!StartSuffix, Proved!StartSuffix,
      Writer!Abort, Proved!Abort, Writer!ProbeSlot, Proved!ProbeSlot,
      Writer!Replace, Proved!Replace, Writer!ReplaceFails,
      Proved!ReplaceFails, Writer!CanReplace, Proved!CanReplace,
      Writer!Absent, Proved!Absent
<1>4. ASSUME Writer!BailoutCommit(w) PROVE Proved!BailoutCommit(w)
  BY <1>4
  DEF Writer!BailoutCommit, Proved!BailoutCommit, Writer!BailoutScan,
      Proved!BailoutScan, Writer!BailoutReplace, Proved!BailoutReplace,
      Writer!BailoutFlag, Proved!BailoutFlag, Writer!Goto, Proved!Goto,
      Writer!Raise, Proved!Raise, Writer!flags, Proved!flags, Writer!private,
      Proved!private, Writer!ProbeSlot, Proved!ProbeSlot, Writer!Abort,
      Proved!Abort, Writer!Exists, Proved!Exists, Writer!Replace,
      Proved!Replace, Writer!ReplaceFails, Proved!ReplaceFails,
      Writer!CanReplace, Proved!CanReplace
<1>5. ASSUME Writer!Leave(w) PROVE Proved!Leave(w)
  BY <1>5
  DEF Writer!Leave, Proved!Leave, Writer!Exit, Proved!Exit,
      Writer!RestoreSigint, Proved!RestoreSigint, Writer!RestoreSigterm,
      Proved!RestoreSigterm, Writer!Goto, Proved!Goto, Writer!flags,
      Proved!flags, Writer!private, Proved!private, Writer!KeepsStaging,
      Proved!KeepsStaging, Writer!Cleanup, Proved!Cleanup
<1>6. ASSUME Writer!DoPrompt(w) PROVE Proved!DoPrompt(w)
  BY <1>6
  DEF Writer!DoPrompt, Proved!DoPrompt, Writer!StartOverwrite,
      Proved!StartOverwrite, Writer!StartSuffix, Proved!StartSuffix,
      Writer!Abort, Proved!Abort, Writer!Raise, Proved!Raise, Writer!Goto,
      Proved!Goto, Writer!private, Proved!private, Writer!flags,
      Proved!flags
<1>7. /\ Writer!SignalHandler(w) => Proved!SignalHandler(w)
      /\ Writer!DefaultSignal(w) => Proved!DefaultSignal(w)
      /\ Writer!Crash(w) => Proved!Crash(w)
      /\ Writer!Age(w) => Proved!Age(w)
  BY DEF Writer!SignalHandler, Proved!SignalHandler, Writer!DefaultSignal,
      Proved!DefaultSignal, Writer!Crash, Proved!Crash, Writer!Age,
      Proved!Age, Writer!Goto, Proved!Goto, Writer!flags, Proved!flags,
      Writer!private, Proved!private, Writer!Gone, Proved!Gone,
      Writer!AfterSignal, Proved!AfterSignal, Writer!Entering,
      Proved!Entering, Writer!InBlock, Proved!InBlock, Writer!Signals,
      Proved!Signals, Writer!Cleanup, Proved!Cleanup
<1> QED
  BY <1>1, <1>2, <1>3, <1>4, <1>5, <1>6, <1>7 DEF Writer!Run, Proved!Run

\* So are their steps.
LEMMA SameNext == [Writer!Next]_(Writer!vars) => [Proved!Next]_(Proved!vars)
<1>1. Writer!Tick => Proved!Tick
  BY DEF Writer!Tick, Proved!Tick, Writer!private, Proved!private,
         Writer!flags, Proved!flags
<1>2. Writer!Next => Proved!Next
  BY <1>1, SameCalls
  DEF Writer!Next, Proved!Next, Writer!Environment, Proved!Environment
<1> QED BY <1>2 DEF Writer!vars, Proved!vars

\* Their types are the same.
LEMMA SameType == Writer!TypeOK <=> Proved!TypeOK
  BY DEF Writer!TypeOK, Proved!TypeOK, Writer!Path, Proved!Path, Writer!Slot,
         Proved!Slot, Writer!Out, Proved!Out, Writer!Entry, Proved!Entry,
         Writer!StagingState, Proved!StagingState, Writer!PC, Proved!PC,
         Writer!Entering, Proved!Entering, Writer!InBlock, Proved!InBlock,
         Writer!Restoring, Proved!Restoring, Writer!Gone, Proved!Gone,
         Writer!Signals, Proved!Signals

\* The pipeline keeps the writer's types ...
LEMMA WriterTypes == Spec => []Writer!TypeOK
<1>1. Init => Proved!TypeOK
  <2>1. Writer!Init => Proved!Init
    BY DEF Writer!Init, Proved!Init, Writer!Path, Proved!Path, Writer!Out,
           Proved!Out, Writer!Slot, Proved!Slot, Writer!Absent, Proved!Absent,
           Writer!Complete, Proved!Complete
  <2> QED BY <2>1, Proved!InitType, WritersAssumption, ModesAssumption,
             BoundsAssumption, FaultsAssumption DEF Init
<1>2. Proved!TypeOK /\ [Next]_vars => Proved!TypeOK'
  BY WriterNext, SameNext, Proved!NextType, WritersAssumption,
     ModesAssumption, BoundsAssumption, FaultsAssumption
<1>3. Spec => []Proved!TypeOK
  BY <1>1, <1>2, PTL DEF Spec
<1> QED BY <1>3, SameType, PTL

\* What the loop returns to the gate.
ReturnInv ==
  phase = "returned" =>
    /\ Len(log) \in 1 .. MaxAttempts
    /\ verdict = "success" => outcome \in {"ok", "warn", "skipped"}

\* Its calls of the loop keep the loop's invariant ...
LEMMA LoopProved == Spec => [](ProvedLoop!TypeOK /\ ProvedLoop!LoopInv)
<1> USE AttemptsAssumption
<1> DEFINE Inv == ProvedLoop!TypeOK /\ ProvedLoop!LoopInv
<1>1. {"not_applied"} \subseteq {"applied", "not_applied"}
  OBVIOUS
<1>2. Init => Inv
  <2>1. Loop!Init => ProvedLoop!Init
    BY DEF Loop!Init, ProvedLoop!Init
  <2> QED BY <1>1, <2>1, ProvedLoop!InitLoop DEF Init
<1>3. Inv /\ [Next]_vars => Inv'
  <2>1. [Loop!Next]_(Loop!loopVars) => [ProvedLoop!Next]_(ProvedLoop!loopVars)
    BY DEF Loop!Next, ProvedLoop!Next, Loop!loopVars, ProvedLoop!loopVars,
           Loop!Call, ProvedLoop!Call, Loop!Operate, ProvedLoop!Operate,
           Loop!TryFix, ProvedLoop!TryFix, Loop!Record, ProvedLoop!Record,
           Loop!Return, ProvedLoop!Return, Loop!Outcome, ProvedLoop!Outcome,
           Loop!Satisfying, ProvedLoop!Satisfying, Loop!Failing,
           ProvedLoop!Failing
  <2> QED BY <1>1, <2>1, LoopNext, ProvedLoop!NextLoop
<1> QED BY <1>2, <1>3, PTL DEF Spec

\* ... and its types.
LEMMA LoopTypes == Spec => [](Loop!TypeOK /\ ReturnInv)
<1>1. ProvedLoop!TypeOK => Loop!TypeOK
  BY DEF Loop!TypeOK, ProvedLoop!TypeOK, Loop!RetryAttempt,
         ProvedLoop!RetryAttempt, Loop!Outcome, ProvedLoop!Outcome,
         Loop!Satisfying, ProvedLoop!Satisfying, Loop!Failing,
         ProvedLoop!Failing
<1>2. ProvedLoop!TypeOK /\ ProvedLoop!LoopInv => ReturnInv
  BY AttemptsAssumption
  DEF ReturnInv, ProvedLoop!TypeOK, ProvedLoop!LoopInv,
      ProvedLoop!VerdictIsEarned, ProvedLoop!Satisfying
<1> QED BY <1>1, <1>2, LoopProved, PTL

\* The pipeline's own variables.
OwnTypes ==
  /\ engine \in Engines
  /\ validTag \in BOOLEAN
  /\ step \in Steps
  /\ passed \in [Checks -> {NotRun, "ok", "warn", "skipped"}]
  /\ summary \subseteq {"kubectl_dry_run", "container_build"}
  /\ troubleshoot \in [check : Checks, attempts : 1 .. MaxAttempts]
                        \cup {NotWritten}
  /\ exitCode \in {Running, 0, 1, 2, 130, 143}

\* Each step keeps them typed.
LEMMA NextOwnTypes ==
  OwnTypes /\ ReturnInv /\ SelfInv /\ [Next]_vars => OwnTypes'
<1> SUFFICES ASSUME OwnTypes, ReturnInv, SelfInv, [Next]_vars PROVE OwnTypes'
  OBVIOUS
<1> USE DEF OwnTypes, Steps, Checks
<1>1. CASE EarlyStep \/ EarlyError
  BY <1>1 DEF EarlyStep, EarlyError, Following, config, record
<1>2. CASE PassCheck
  <2>1. outcome \in {"ok", "warn", "skipped"} /\ step' = NextStep(step)
    BY <1>2 DEF PassCheck, ReturnInv
  <2>2. step' \in {"dry_run", "build", "package"}
    BY <1>2, <2>1 DEF PassCheck, NextStep
  <2> QED BY <1>2, <2>1, <2>2 DEF PassCheck, config
<1>3. CASE BailOut
  <2>1. troubleshoot' \in [check : Checks, attempts : 1 .. MaxAttempts]
    BY <1>3 DEF BailOut, ReturnInv
  <2> QED BY <1>3, <2>1 DEF BailOut, config
<1>4. CASE Package
  <2>1. summary' \subseteq {"kubectl_dry_run", "container_build"}
    BY <1>4 DEF Package, SkippedNames
  <2> QED BY <1>4, <2>1 DEF Package, config
<1>5. CASE Return
  <2>1. exitCode' \in CodesFor(exc[Self]) /\ step' = "end"
        /\ UNCHANGED <<config, record>>
    BY <1>5 DEF Return
  <2>2. exitCode' \in {0, 1, 2, 130, 143}
    BY <2>1 DEF CodesFor, ReportCode, SelfInv
  <2> QED BY <2>1, <2>2 DEF config, record
<1>6. CASE \/ EnterWriter \/ Generate \/ RejectTag \/ BodyFails \/ TryCheck
           \/ TryFix \/ CallCommit \/ WriterStep \/ Interrupt \/ Others
           \/ UNCHANGED vars
  <2>1. UNCHANGED <<engine, validTag, passed, summary, troubleshoot, exitCode>>
    BY <1>6
    DEF EnterWriter, Generate, RejectTag, BodyFails, TryCheck, TryFix,
        CallCommit, WriterStep, Interrupt, Others, vars, config, record
  <2>2. step' \in {step, "generate", "validation"}
    BY <1>6
    DEF EnterWriter, Generate, RejectTag, BodyFails, TryCheck, TryFix,
        CallCommit, WriterStep, Interrupt, Others, vars
  <2> QED BY <2>1, <2>2
<1> QED BY <1>1, <1>2, <1>3, <1>4, <1>5, <1>6 DEF Next, RunStep

\* Type correctness of the composition: the writers', the loop's and the
\* pipeline's variables, for any rivals, modes, engines, faults and bounds.
THEOREM PipelineTypes == Spec => []TypeOK
<1>1. Init => OwnTypes
  BY DEF Init, OwnTypes, Steps, Checks, NotWritten
<1>2. Writer!TypeOK /\ Loop!TypeOK /\ OwnTypes => TypeOK
  BY DEF TypeOK, OwnTypes
<1> QED
  BY <1>1, <1>2, NextOwnTypes, WriterTypes, LoopTypes, SelfCorrect, PTL
  DEF Spec
=============================================================================

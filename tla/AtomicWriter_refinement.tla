----------------------- MODULE AtomicWriter_refinement -----------------------
(***************************************************************************)
(* AtomicWriter implements OutputDir: every behaviour of the file system   *)
(* calls, flags and signals is, seen through Shown and StatusOf, one that  *)
(* the abstract specification allows.                                      *)
(***************************************************************************)
EXTENDS AtomicWriter_proofs

Status == [w \in Writers |-> StatusOf(w)]

\* Nothing is propagating until a process leaves __enter__ or the block.
QuietInv ==
  \A w \in Writers :
    pc[w] \in {"new", "reg_term", "enter"} \cup Entering \cup InBlock
      => exc[w] = "none"

\* A step of process u leaves what a caller sees of the others alone.
Alone(u) ==
  \A v \in Writers \ {u} :
    pc'[v] = pc[v] /\ exc'[v] = exc[v] /\ committed'[v] = committed[v]

\* What a caller can see of a process whose step changes no entry.
Advances(s, t) ==
  \/ s = t
  \/ s = "published" /\ t = "ok"
  \/ s = "preserved" /\ t = "bailed"
  \/ s \in {"running", "published", "preserved"} /\ t = "failed"

-----------------------------------------------------------------------------
(* Where exceptions can be.                                                *)

\* Whatever sets an exception leaves the block, and nothing enters it twice.
LEMMA QuietNext == TypeOK /\ QuietInv /\ [Next]_vars => QuietInv'
<1> SUFFICES ASSUME TypeOK, QuietInv, [Next]_vars PROVE QuietInv'
  OBVIOUS
<1> USE DEF QuietInv, TypeOK, Goto, Raise, private, flags,
        Entering, InBlock, Restoring, Gone
<1>1. ASSUME NEW u \in Writers, Enter(u) PROVE QuietInv'
  BY <1>1 DEF Enter, RegisterSigint, RegisterSigterm, GcList, GcRemove, GcDone,
     MakeStaging, EnterFails
<1>2. ASSUME NEW u \in Writers, Body(u) PROVE QuietInv'
  BY <1>2 DEF Body, WriteFiles, BodyRaises, LeaveWithoutCommit, BodyBailsOut,
     CallCommit
<1>3. ASSUME NEW u \in Writers, Commit(u) PROVE QuietInv'
  BY <1>3 DEF Commit, ResolveFinalPath, StartOverwrite, StartSuffix, Abort,
     OverwriteBegin, OverwriteFiles, OverwriteEnd, OverwriteFails, DoSuffix,
     ProbeSlot, CommitReplace, Replace, ReplaceFails, CommitFlag
<1>4. ASSUME NEW u \in Writers, BailoutCommit(u) PROVE QuietInv'
  BY <1>4 DEF BailoutCommit, BailoutScan, ProbeSlot, Abort, BailoutReplace,
     Replace, ReplaceFails, BailoutFlag
<1>5. ASSUME NEW u \in Writers, Leave(u) \/ DoPrompt(u) PROVE QuietInv'
  BY <1>5 DEF Leave, Exit, RestoreSigint, RestoreSigterm, DoPrompt,
     StartOverwrite, StartSuffix, Abort
<1>6. ASSUME NEW u \in Writers, Environment(u) PROVE QuietInv'
  BY <1>6 DEF Environment, SignalHandler, AfterSignal, DefaultSignal, Crash,
     Age
<1>7. CASE Tick \/ UNCHANGED vars
  BY <1>7 DEF Tick, vars
<1> QED BY <1>1, <1>2, <1>3, <1>4, <1>5, <1>6, <1>7 DEF Next, Run

\* No exception propagates before a process has left the block.
LEMMA Quiet == Spec => []QuietInv
<1>1. Init => QuietInv
  BY DEF Init, QuietInv
<1> QED BY <1>1, QuietNext, TypeCorrect, PTL DEF Spec

-----------------------------------------------------------------------------
(* What a step changes of what a caller sees.                              *)

\* A step of one process leaves the labels and flags of the others alone.
LEMMA StepsAlone ==
  ASSUME TypeOK, NEW u \in Writers,
         Run(u) \/ DoPrompt(u) \/ Environment(u)
  PROVE  Alone(u)
<1> USE DEF Alone, TypeOK, Goto, Raise, private, flags
<1>1. CASE Enter(u) \/ Body(u)
  BY <1>1 DEF Enter, RegisterSigint, RegisterSigterm, GcList, GcRemove, GcDone,
     MakeStaging, EnterFails, Body, WriteFiles, BodyRaises,
     LeaveWithoutCommit, BodyBailsOut, CallCommit
<1>2. CASE Commit(u) \/ BailoutCommit(u)
  BY <1>2 DEF Commit, ResolveFinalPath, StartOverwrite, StartSuffix, Abort,
     OverwriteBegin, OverwriteFiles, OverwriteEnd, OverwriteFails, DoSuffix,
     ProbeSlot, CommitReplace, Replace, ReplaceFails, CommitFlag,
     BailoutCommit, BailoutScan, BailoutReplace, BailoutFlag
<1>3. CASE Leave(u) \/ DoPrompt(u) \/ Environment(u)
  BY <1>3 DEF Leave, Exit, RestoreSigint, RestoreSigterm, DoPrompt,
     StartOverwrite, StartSuffix, Abort, Environment, SignalHandler,
     DefaultSignal, Crash, Age
<1> QED BY <1>1, <1>2, <1>3 DEF Run

\* Only the status of the process that moves can change.
LEMMA StatusMoves ==
  ASSUME NEW u \in Writers, Alone(u)
  PROVE  Status' = [Status EXCEPT ![u] = StatusOf(u)']
<1>1. \A v \in Writers \ {u} : StatusOf(v)' = StatusOf(v)
  BY DEF Alone, StatusOf
<1> QED BY <1>1 DEF Status

\* A process that raises at a label that is not final fails, for its caller.
LEMMA RaisingFails ==
  ASSUME TypeOK, NEW u \in Writers, pc[u] \notin Gone,
         exc'[u] \in {"error", "abort", "signal", "killed"}
  PROVE  Advances(StatusOf(u), StatusOf(u)')
<1>1. StatusOf(u)' = "failed"
  BY DEF StatusOf
<1>2. StatusOf(u) \in {"running", "published", "preserved", "failed"}
  BY DEF StatusOf, Gone
<1> QED BY <1>1, <1>2 DEF Advances

\* All steps but the two renames advance the status in one of the ways that
\* OutputDir knows.
LEMMA StatusAdvances ==
  ASSUME IInv, QuietInv, NEW u \in Writers,
         Run(u) \/ DoPrompt(u) \/ Environment(u)
  PROVE  \/ Advances(StatusOf(u), StatusOf(u)')
         \/ pc[u] = "replace" /\ Replace(u, "flag")
         \/ pc[u] = "bailout_replace" /\ Replace(u, "bailout_flag")
<1> DEFINE Goal == Advances(StatusOf(u), StatusOf(u)')
           Tame == /\ exc'[u] = exc[u] /\ committed'[u] = committed[u]
                   /\ {pc[u], pc'[u]} \cap
                        {"done", "crashed", "flag", "bailout_flag"} = {}
<1> USE DEF Goto, Raise, private, flags, Entering, InBlock, Restoring, Gone
<1>0. TypeOK
  BY DEF IInv
<1>a. Tame => Goal
  BY DEF StatusOf, Advances
<1>1. CASE Enter(u)
  <2>1. CASE EnterFails(u)
    <3>1. pc[u] \notin Gone /\ exc'[u] = "error"
      BY <2>1, <1>0 DEF EnterFails, TypeOK
    <3> QED BY <3>1, <1>0, RaisingFails
  <2>2. CASE ~ EnterFails(u)
    <3>1. Tame
      BY <2>2, <1>1, <1>0 DEF Enter, RegisterSigint, RegisterSigterm, GcList,
         GcRemove, GcDone, MakeStaging, TypeOK
    <3> QED BY <3>1, <1>a
  <2> QED BY <2>1, <2>2
<1>2. CASE Body(u)
  <2>1. CASE BodyRaises(u)
    <3>1. pc[u] \notin Gone /\ exc'[u] = "error"
      BY <2>1, <1>0 DEF BodyRaises, TypeOK
    <3> QED BY <3>1, <1>0, RaisingFails
  <2>2. CASE ~ BodyRaises(u)
    <3>1. Tame
      BY <2>2, <1>2, <1>0 DEF Body, WriteFiles, LeaveWithoutCommit,
         BodyBailsOut, CallCommit, TypeOK
    <3> QED BY <3>1, <1>a
  <2> QED BY <2>1, <2>2
<1>3. ASSUME pc[u] \notin Gone, exc'[u] \in {"error", "abort"} PROVE Goal
  BY <1>3, <1>0, RaisingFails
<1>4. CASE DoPrompt(u) \/ ResolveFinalPath(u)
  <2>1. Tame \/ (pc[u] \notin Gone /\ exc'[u] = "abort")
    BY <1>4, <1>0 DEF DoPrompt, ResolveFinalPath, StartOverwrite, StartSuffix,
       Abort, TypeOK
  <2> QED BY <2>1, <1>a, <1>3
<1>5. CASE \/ OverwriteBegin(u) \/ OverwriteFiles(u) \/ OverwriteEnd(u)
           \/ OverwriteFails(u)
  <2>1. Tame \/ (pc[u] \notin Gone /\ exc'[u] = "error")
    BY <1>5, <1>0 DEF OverwriteBegin, OverwriteFiles, OverwriteEnd,
       OverwriteFails, TypeOK
  <2> QED BY <2>1, <1>a, <1>3
<1>6. CASE DoSuffix(u) \/ BailoutScan(u)
  <2>1. Tame \/ (pc[u] \notin Gone /\ exc'[u] = "abort")
    BY <1>6, <1>0 DEF DoSuffix, BailoutScan, ProbeSlot, Abort, TypeOK
  <2> QED BY <2>1, <1>a, <1>3
<1>7. CASE pc[u] \in {"replace", "bailout_replace"} /\ ReplaceFails(u)
  <2>1. pc[u] \notin Gone /\ exc'[u] = "error"
    BY <1>7, <1>0 DEF ReplaceFails, TypeOK
  <2> QED BY <2>1, <1>3
<1>8. CASE CommitFlag(u)
  BY <1>8, <1>0 DEF CommitFlag, QuietInv, TypeOK, StatusOf, Advances
<1>9. CASE BailoutFlag(u)
  BY <1>9, <1>0 DEF BailoutFlag, QuietInv, TypeOK, StatusOf, Advances
<1>10. CASE Exit(u) \/ RestoreSigint(u)
  <2>1. Tame
    BY <1>10, <1>0 DEF Exit, RestoreSigint, TypeOK
  <2> QED BY <2>1, <1>a
<1>11. CASE RestoreSigterm(u)
  BY <1>11, <1>0 DEF RestoreSigterm, TypeOK, StatusOf, Advances
<1>12. CASE SignalHandler(u) \/ DefaultSignal(u)
  <2>1. pc[u] \notin Gone /\ exc'[u] \in {"signal", "killed"}
    BY <1>12, <1>0 DEF SignalHandler, DefaultSignal, TypeOK
  <2> QED BY <2>1, <1>0, RaisingFails
<1>13. CASE Crash(u)
  BY <1>13, <1>0 DEF Crash, TypeOK, StatusOf, Advances
<1>14. CASE Age(u)
  BY <1>14 DEF Age, StatusOf, Advances
<1> QED
  BY <1>1, <1>2, <1>4, <1>5, <1>6, <1>7, <1>8, <1>9, <1>10, <1>11, <1>12,
     <1>13, <1>14
  DEF Run, Commit, BailoutCommit, CommitReplace, BailoutReplace, Leave,
      Environment

-----------------------------------------------------------------------------
(* Every step is a step of OutputDir, or none.                             *)

Allowed == Promise!Next \/ UNCHANGED <<Shown, Status>>

\* A step that changes no entry changes at most one run's status.
LEMMA SilentAllowed ==
  ASSUME NEW u \in Writers, Alone(u), Shown' = Shown,
         Advances(StatusOf(u), StatusOf(u)')
  PROVE  Allowed
<1>1. /\ Status' = [Status EXCEPT ![u] = StatusOf(u)']
      /\ Status[u] = StatusOf(u)
  BY StatusMoves DEF Status
<1>2. CASE StatusOf(u)' = StatusOf(u)
  <2>1. Status' = Status
    BY <1>1, <1>2 DEF Status
  <2> QED BY <2>1 DEF Allowed
<1>3. CASE StatusOf(u) = "published" /\ StatusOf(u)' = "ok"
  <2>1. Promise!Succeed(u)
    BY <1>1, <1>3 DEF Promise!Succeed, Status
  <2> QED BY <2>1 DEF Allowed, Promise!Next
<1>4. CASE StatusOf(u) = "preserved" /\ StatusOf(u)' = "bailed"
  <2>1. Promise!ReportBailOut(u)
    BY <1>1, <1>4 DEF Promise!ReportBailOut, Status
  <2> QED BY <2>1 DEF Allowed, Promise!Next
<1>5. CASE /\ StatusOf(u) \in {"running", "published", "preserved"}
           /\ StatusOf(u)' = "failed"
  <2>1. Promise!Fail(u)
    BY <1>1, <1>5 DEF Promise!Fail, Status
  <2> QED BY <2>1 DEF Allowed, Promise!Next
<1> QED BY <1>2, <1>3, <1>4, <1>5 DEF Advances

\* Until its rename a process counts as running.
LEMMA RunningBefore ==
  ASSUME IInv, QuietInv, NEW u \in Writers,
         pc[u] \in InBlock \ {"flag", "bailout_flag"}
  PROVE  StatusOf(u) = "running"
<1>1. exc[u] = "none" /\ ~ committed[u]
  BY DEF QuietInv, IInv, StagingInv, Reported, InBlock, Restoring, Gone
<1> QED BY <1>1 DEF StatusOf, InBlock

\* A complete output_dir, once opened by rmtree, shows as being removed.
LEMMA BeginAllowed ==
  ASSUME IInv, QuietInv, NEW u \in Writers, OverwriteBegin(u), Alone(u)
  PROVE  Allowed
<1>1. Out \in Path /\ entry \in [Path -> Entry] /\ pc \in [Writers -> PC]
      /\ exc[u] = "none" /\ pc[u] = "rm_begin"
  BY DEF IInv, TypeOK, Path, OverwriteBegin, QuietInv, InBlock
<1>2. StatusOf(u) = "running"
  BY <1>1, RunningBefore DEF InBlock
<1>3. CASE ~ Exists(Out)
  <2>1. entry' = entry /\ exc'[u] = "error"
    BY <1>3 DEF OverwriteBegin, Raise, IInv, TypeOK
  <2>2. StatusOf(u)' = "failed" /\ Shown' = Shown
    BY <2>1 DEF StatusOf, Shown
  <2> QED BY <2>2, <1>2, SilentAllowed DEF Advances
<1>4. CASE Exists(Out)
  <2>1. exc' = exc /\ committed' = committed /\ pc'[u] = "rm_files"
    BY <1>1, <1>4 DEF OverwriteBegin, Goto, flags
  <2>a. /\ entry[Out].state = "empty" => entry'[Out] = entry[Out]
        /\ entry[Out].state # "empty" =>
             entry'[Out] = [state |-> "torn", owner |-> entry[Out].owner]
        /\ \A p \in Path \ {Out} : entry'[p] = entry[p]
    <3>1. \E s \in {"torn", "empty"} :
            /\ s = (IF entry[Out].state = "empty" THEN "empty" ELSE "torn")
            /\ entry' = [entry EXCEPT ![Out].state = s]
      BY <1>1, <1>4 DEF OverwriteBegin
    <3> QED BY <3>1, <1>1 DEF Entry
  <2>2. StatusOf(u)' = "running"
    BY <2>1, <1>1, <1>2 DEF StatusOf
  <2>3. entry[Out].state \in {"whole", "torn", "empty"}
    BY <1>1, <1>4 DEF IInv, PublishedIsWhole, Exists, Complete, Out
  <2>4. CASE entry[Out].state = "empty" \/ entry[Out].state = "torn"
    <3>1. Shown' = Shown
      BY <2>4, <2>a, <1>1 DEF Shown, Entry
    <3> QED BY <3>1, <2>2, <1>2, SilentAllowed DEF Advances
  <2>5. CASE entry[Out].state = "whole"
    <3>1. Status' = Status
      BY <2>2, <1>2, StatusMoves DEF Status
    <3>2. /\ Shown[Out] = entry[Out]
          /\ Shown'[Out] = [state |-> "removing", owner |-> entry[Out].owner]
          /\ \A p \in Path \ {Out} : Shown'[p] = Shown[p]
      BY <2>a, <2>5, <1>1 DEF Shown, Entry
    <3>3. Shown' = [Shown EXCEPT ![Out].state = "removing"]
      <4>1. [entry[Out] EXCEPT !.state = "removing"]
              = [state |-> "removing", owner |-> entry[Out].owner]
        BY <1>1 DEF Entry
      <4>2. Shown' \in [Path -> {Shown'[p] : p \in Path}]
        BY DEF Shown
      <4>3. [Shown EXCEPT ![Out].state = "removing"]
              = [p \in Path |-> IF p = Out
                                  THEN [Shown[Out] EXCEPT !.state = "removing"]
                                  ELSE Shown[p]]
        BY <1>1 DEF Shown
      <4> QED BY <3>2, <4>1, <4>2, <4>3
    <3>4. Promise!BeginOverwrite(u)
      BY <3>1, <3>2, <3>3, <2>5, <1>2 DEF Promise!BeginOverwrite, Status
    <3> QED BY <3>4 DEF Allowed, Promise!Next
  <2> QED BY <2>3, <2>4, <2>5
<1> QED BY <1>3, <1>4

\* Emptying it shows nothing new; removing the directory ends the overwrite.
LEMMA RemovalAllowed ==
  ASSUME IInv, QuietInv, NEW u \in Writers,
         OverwriteFiles(u) \/ OverwriteEnd(u), Alone(u),
         Advances(StatusOf(u), StatusOf(u)')
  PROVE  Allowed
<1>1. Out \in Path /\ entry \in [Path -> Entry] /\ pc \in [Writers -> PC]
  BY DEF IInv, TypeOK, Path
<1>2. CASE OverwriteFiles(u)
  <2>1. Shown' = Shown
    BY <1>1, <1>2 DEF OverwriteFiles, Shown, Entry
  <2> QED BY <2>1, SilentAllowed
<1>3. CASE OverwriteEnd(u) /\ entry[Out].state # "empty"
  <2>1. Shown' = Shown
    BY <1>3 DEF OverwriteEnd, Shown
  <2> QED BY <2>1, SilentAllowed
<1>4. CASE OverwriteEnd(u) /\ entry[Out].state = "empty"
  <2>1. /\ entry' = [entry EXCEPT ![Out] = Absent]
        /\ exc' = exc /\ committed' = committed
        /\ pc[u] = "rm_dir" /\ pc'[u] = "replace"
    BY <1>1, <1>4 DEF OverwriteEnd, Goto, flags
  <2>2. StatusOf(u) = "running"
    BY <2>1, RunningBefore DEF InBlock
  <2>3. StatusOf(u)' = StatusOf(u)
    BY <2>1 DEF StatusOf
  <2>4. Status' = Status
    BY <2>3, StatusMoves DEF Status
  <2>5. Shown[Out].state = "removing"
    BY <1>1, <1>4 DEF Shown
  <2>6. Shown' = [Shown EXCEPT ![Out] = Absent]
    BY <1>1, <2>1 DEF Shown, Absent
  <2>7. Promise!EndOverwrite(u)
    BY <2>2, <2>4, <2>5, <2>6
    DEF Promise!EndOverwrite, Promise!Nothing, Absent, Status
  <2> QED BY <2>7 DEF Allowed, Promise!Next
<1> QED BY <1>2, <1>3, <1>4

\* The rename shows a whole directory of the right kind in one step.
LEMMA ReplaceAllowed ==
  ASSUME IInv, QuietInv, NEW u \in Writers, Alone(u),
         \/ pc[u] = "replace" /\ Replace(u, "flag")
         \/ pc[u] = "bailout_replace" /\ Replace(u, "bailout_flag")
  PROVE  Allowed
<1> DEFINE p == target[u]
           new == [state |-> staging[u], owner |-> u]
<1>1. /\ p \in Path /\ entry \in [Path -> Entry] /\ pc \in [Writers -> PC]
      /\ exc[u] = "none" /\ exc' = exc /\ committed' = committed
      /\ entry' = [entry EXCEPT ![p] = new]
      /\ entry[p].state \in {"absent", "empty"}
  BY DEF IInv, TypeOK, Replace, CanReplace, QuietInv, InBlock, flags
<1>2. StatusOf(u) = "running" /\ ~ committed[u]
  BY RunningBefore DEF InBlock, IInv, StagingInv, Reported, Restoring, Gone
<1>3. /\ entry[p].state = "absent" => Shown[p].state = "absent"
      /\ entry[p].state = "empty" => p = Out /\ Shown[p].state = "removing"
  BY <1>1 DEF Shown, IInv, PublishedIsWhole, Complete
<1>4. staging[u] \in {"whole", "evidence"} => Shown' = [Shown EXCEPT ![p] = new]
  BY <1>1 DEF Shown
<1>5. CASE pc[u] = "replace" /\ Replace(u, "flag")
  <2>1. staging[u] = "whole" /\ p.kind # "failed"
    BY <1>5 DEF IInv, AimInv
  <2>2. StatusOf(u)' = "published"
    BY <1>5, <1>1, <1>2 DEF Replace, Goto, StatusOf
  <2>3. Promise!Publish(u, p)
    BY <1>1, <1>2, <1>3, <1>4, <2>1, <2>2, StatusMoves
    DEF Promise!Publish, Status
  <2> QED BY <2>1, <2>3, <1>1 DEF Allowed, Promise!Next
<1>6. CASE pc[u] = "bailout_replace" /\ Replace(u, "bailout_flag")
  <2>1. staging[u] = "evidence" /\ p.kind = "failed"
    BY <1>6 DEF IInv, AimInv
  <2>2. StatusOf(u)' = "preserved"
    BY <1>6, <1>1, <1>2 DEF Replace, Goto, StatusOf
  <2>3. Shown[p].state = "absent"
    BY <1>1, <1>3, <2>1 DEF Out
  <2>4. Promise!Preserve(u, p)
    BY <1>1, <1>2, <1>4, <2>1, <2>2, <2>3, StatusMoves
    DEF Promise!Preserve, Status
  <2> QED BY <2>1, <2>4, <1>1 DEF Allowed, Promise!Next
<1> QED BY <1>5, <1>6

\* Each step of the writers maps to a step of OutputDir or to none.
LEMMA NextAllowed == IInv /\ QuietInv /\ [Next]_vars => Allowed
<1> SUFFICES ASSUME IInv, QuietInv, [Next]_vars PROVE Allowed
  OBVIOUS
<1>1. CASE Tick \/ UNCHANGED vars
  <2>1. UNCHANGED <<entry, pc, exc, committed>>
    BY <1>1 DEF Tick, vars, flags
  <2> QED BY <2>1 DEF Allowed, Shown, Status, StatusOf
<1>2. ASSUME NEW u \in Writers, Run(u) \/ DoPrompt(u) \/ Environment(u)
      PROVE  Allowed
  <2>1. Alone(u)
    BY <1>2, StepsAlone DEF IInv
  <2>2. CASE \/ pc[u] = "replace" /\ Replace(u, "flag")
             \/ pc[u] = "bailout_replace" /\ Replace(u, "bailout_flag")
    BY <2>1, <2>2, ReplaceAllowed
  <2>3. CASE Advances(StatusOf(u), StatusOf(u)')
    <3>1. CASE OverwriteBegin(u)
      BY <2>1, <3>1, BeginAllowed
    <3>2. CASE OverwriteFiles(u) \/ OverwriteEnd(u)
      BY <2>1, <2>3, <3>2, RemovalAllowed
    <3>3. CASE UNCHANGED entry
      BY <2>1, <2>3, <3>3, SilentAllowed DEF Shown
    <3>4. \/ OverwriteBegin(u) \/ OverwriteFiles(u) \/ OverwriteEnd(u)
          \/ UNCHANGED entry
          \/ pc[u] = "replace" /\ Replace(u, "flag")
          \/ pc[u] = "bailout_replace" /\ Replace(u, "bailout_flag")
      BY <1>2 DEF Run, Enter, RegisterSigint, RegisterSigterm, GcList,
         GcRemove, GcDone, MakeStaging, EnterFails, Body, WriteFiles,
         BodyRaises, LeaveWithoutCommit, BodyBailsOut, CallCommit, Leave,
         Exit, RestoreSigint, RestoreSigterm, DoPrompt, Environment,
         SignalHandler, DefaultSignal, Crash, Age, Commit, ResolveFinalPath,
         OverwriteFails, DoSuffix, ProbeSlot, CommitReplace, ReplaceFails,
         CommitFlag, BailoutCommit, BailoutScan, BailoutReplace, BailoutFlag
    <3> QED BY <2>2, <3>1, <3>2, <3>3, <3>4, ReplaceAllowed, <2>1
  <2> QED BY <1>2, <2>2, <2>3, StatusAdvances
<1> QED BY <1>1, <1>2 DEF Next

\* For any number of runs, with signals, crashes and failing calls anywhere:
\* a reader of the parent directory sees results appear whole under free
\* names, at most one for each run, and a run reports success or a bail-out
\* only after showing it.
THEOREM WriterImplementsOutputDir == Spec => ImplementsOutputDir
<1>1. Init => Promise!Init
  <2> SUFFICES ASSUME Init PROVE Promise!Init
    OBVIOUS
  <2>1. [w \in Writers |-> StatusOf(w)] = [w \in Writers |-> "running"]
    BY DEF Init, StatusOf
  <2>2. \A p \in Path : Shown[p].state \in {"absent", Complete(p)}
    BY DEF Init, Shown, Absent, Complete
  <2> QED BY <2>1, <2>2 DEF Promise!Init, Complete
<1>2. IInv /\ QuietInv /\ [Next]_vars
        => [Promise!Next]_<<Shown, [w \in Writers |-> StatusOf(w)]>>
  BY NextAllowed DEF Allowed, Status
<1> QED
  BY <1>1, <1>2, Invariant, Quiet, PTL
  DEF Spec, ImplementsOutputDir, Promise!Spec
=============================================================================

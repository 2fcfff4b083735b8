------------------------- MODULE AtomicWriter_proofs -------------------------
(***************************************************************************)
(* Proofs of AtomicWriter's safety invariants, for any number of           *)
(* processes, any modes, any bounds and any failing calls.                 *)
(***************************************************************************)
EXTENDS AtomicWriter, FiniteSetTheorems, TLAPS

\* Labels at which a process has created its staging directory and has not
\* yet renamed it or begun to leave.
Holding == InBlock \ {"flag", "bailout_flag"}

\* Labels at which it has no staging directory, if cleanup never fails.
Bare == {"new", "reg_term", "enter", "gc", "mkdir", "done"} \cup Restoring

\* Only the staging directories of processes that are gone grow old, and only
\* old ones are collected.
AgedInv ==
  /\ \A v \in aged : pc[v] \in Gone
  /\ \A w \in Writers : collect[w] \subseteq aged

\* Where a process is tells whether its staging directory exists.
StagingInv ==
  \A w \in Writers :
    /\ pc[w] \in Holding => staging[w] # "absent"
    /\ pc[w] \in {"flag", "bailout_flag"} => staging[w] = "absent"
    /\ "cleanup" \notin Faults /\ pc[w] \in Bare => staging[w] = "absent"
    /\ Reported(w) =>
         staging[w] = "absent" /\ pc[w] \in {"exit"} \cup Restoring \cup Gone

\* What a process is about to rename, and onto which kind of path.
AimInv ==
  \A w \in Writers :
    /\ pc[w] \in {"new", "reg_term", "enter", "gc", "mkdir", "body", "resolve",
                  "prompt", "rm_begin", "rm_files",
                  "rm_dir"} => target[w] = Out
    /\ pc[w] \in {"new", "reg_term", "enter", "gc", "mkdir", "body", "resolve",
                  "prompt", "rm_begin"} => victim[w] = NoOne
    /\ pc[w] = "prompt" => mode[w] = "prompt"
    /\ pc[w] = "rm_begin" => mode[w] \in {"overwrite", "prompt"}
    /\ pc[w] \in {"resolve", "prompt", "rm_begin", "rm_files", "rm_dir",
                  "suffix_scan", "replace"} => staging[w] = "whole"
    /\ pc[w] \in {"suffix_scan", "replace", "flag"} \/ committed[w]
         => target[w].kind # "failed"
    /\ pc[w] = "bailout_scan" \/ pc[w] = "bailout_replace"
         => target[w].kind = "failed" /\ staging[w] = "evidence"

\* Its rename has put a successful, or a failed, run's files in place.
Landed(w) == pc[w] = "flag" \/ committed[w]
Preserved(w) == pc[w] = "bailout_flag" \/ bailedOut[w]

\* Its result is still there, or was at output_dir and has been overwritten.
ResultKept(w) ==
  \/ entry[target[w]] = [state |-> "whole", owner |-> w]
  \/ target[w] = Out /\ \E v \in Writers : victim[v] = w

EvidenceKept(w) ==
  /\ target[w].kind = "failed"
  /\ entry[target[w]] = [state |-> "evidence", owner |-> w]

\* What a process that has renamed its staging directory can find there.
ResultInv ==
  \A w \in Writers :
    /\ Landed(w) => ResultKept(w)
    /\ Preserved(w) => EvidenceKept(w)
    /\ exc[w] = "bailout" => bailedOut[w]

OwnerInv == \A p \in Path : entry[p].state # "absent" => entry[p].owner # NoOne

\* Both handlers are installed from before __enter__ creates anything until
\* __exit__ has cleaned up.
HandlerInv ==
  \A w \in Writers :
    /\ pc[w] \in {"enter", "exit", "restore_int"} \cup Entering \cup InBlock
         => handlers[w] = Signals
    /\ pc[w] = "restore_term" => handlers[w] = {"SIGTERM"}
    /\ pc[w] = "done" /\ exc[w] \notin {"signal", "killed"} => handlers[w] = {}

IInv == TypeOK /\ AgedInv /\ HandlerInv /\ StagingInv /\ AimInv /\ OwnerInv
          /\ ResultInv /\ PublishedIsWhole

-----------------------------------------------------------------------------
(* Type correctness.                                                       *)

\* Every writer starts with typed variables.
LEMMA InitType == Init => TypeOK
  BY BoundsAssumption DEF Init, TypeOK, Path, Slot, Out, Entry, Absent,
     Complete,
     PC, StagingState, Signals

\* The next candidate name still bears a counter within the cap.
LEMMA ProbeType ==
  ASSUME TypeOK, NEW w \in Writers,
         pc[w] \in {"suffix_scan", "bailout_scan"},
         target[w].n + 2 <= MaxCounter
  PROVE  LET next == [target EXCEPT ![w].n = @ + 1]
         IN  next \in [Writers -> Path] /\ next[w] \in Slot
<1>1. target[w] \in Slot
  BY DEF TypeOK
<1>2. target[w].n + 1 \in 1 .. MaxCounter
  BY <1>1, BoundsAssumption DEF Slot
<1>3. [target[w] EXCEPT !.n = @ + 1] \in Slot
  BY <1>1, <1>2 DEF Slot, Path
<1> QED
  BY <1>3 DEF TypeOK, Path

\* The rename moves a typed content onto a path, for either of its callers.
LEMMA ReplaceType ==
  ASSUME TypeOK, NEW w \in Writers, CanReplace(w), NEW next \in PC,
         next \notin {"suffix_scan", "bailout_scan"}, Replace(w, next)
  PROVE  TypeOK'
<1>1. staging[w] \in StagingState \ {"absent"}
  BY DEF TypeOK, CanReplace
<1>2. [state |-> staging[w], owner |-> w] \in Entry
  BY <1>1 DEF StagingState, Entry
<1>3. entry' \in [Path -> Entry]
  BY <1>2 DEF TypeOK, Replace
<1>4. staging' \in [Writers -> StagingState]
  BY DEF TypeOK, Replace, StagingState
<1>5. pc' \in [Writers -> PC] /\ pc' = [pc EXCEPT ![w] = next]
  BY DEF TypeOK, Replace, Goto
<1> QED
  BY <1>3, <1>4, <1>5 DEF TypeOK, Replace, private, flags

\* No step of a writer, a signal, a crash or the clock breaks a type.
LEMMA NextType == TypeOK /\ [Next]_vars => TypeOK'
<1> SUFFICES ASSUME TypeOK, [Next]_vars PROVE TypeOK'
  OBVIOUS
<1> USE DEF TypeOK, Goto, Raise, private, flags
<1>1. ASSUME NEW w \in Writers, Enter(w) PROVE TypeOK'
  <2>1. CASE RegisterSigint(w)
    BY <2>1 DEF RegisterSigint, Signals, PC
  <2>2. CASE RegisterSigterm(w)
    BY <2>2 DEF RegisterSigterm, PC
  <2>3. CASE GcList(w)
    BY <2>3 DEF GcList, PC, Entering
  <2>4. CASE GcRemove(w)
    BY <2>4 DEF GcRemove, StagingState
  <2>5. CASE GcDone(w)
    BY <2>5 DEF GcDone, PC, Entering
  <2>6. CASE MakeStaging(w)
    BY <2>6 DEF MakeStaging, StagingState, PC, InBlock
  <2>7. CASE EnterFails(w)
    BY <2>7 DEF EnterFails, PC, Restoring
  <2> QED BY <1>1, <2>1, <2>2, <2>3, <2>4, <2>5, <2>6, <2>7 DEF Enter
<1>2. ASSUME NEW w \in Writers, Body(w) PROVE TypeOK'
  <2>1. CASE WriteFiles(w)
    BY <2>1 DEF WriteFiles, StagingState
  <2>2. CASE BodyRaises(w)
    BY <2>2 DEF BodyRaises, PC
  <2>3. CASE LeaveWithoutCommit(w)
    BY <2>3 DEF LeaveWithoutCommit, PC
  <2>4. CASE BodyBailsOut(w)
    BY <2>4, BoundsAssumption
    DEF BodyBailsOut, StagingState, Path, Slot, PC, InBlock
  <2>5. CASE CallCommit(w)
    BY <2>5 DEF CallCommit, PC, InBlock
  <2> QED BY <1>2, <2>1, <2>2, <2>3, <2>4, <2>5 DEF Body
<1>3. ASSUME NEW w \in Writers, Commit(w) PROVE TypeOK'
  <2> USE DEF StartOverwrite, StartSuffix, Abort, ProbeSlot
  <2>1. CASE ResolveFinalPath(w)
    BY <2>1, BoundsAssumption
    DEF ResolveFinalPath, Path, Slot, PC, InBlock
  <2>2. CASE OverwriteBegin(w)
    BY <2>2 DEF OverwriteBegin, Path, Entry, PC, InBlock
  <2>3. CASE OverwriteFiles(w)
    BY <2>3 DEF OverwriteFiles, Path, Entry, PC, InBlock
  <2>4. CASE OverwriteEnd(w)
    BY <2>4 DEF OverwriteEnd, Path, Entry, Absent, PC, InBlock, Out
  <2>5. CASE OverwriteFails(w)
    BY <2>5 DEF OverwriteFails, PC
  <2>6. CASE DoSuffix(w)
    BY <2>6, ProbeType
    DEF DoSuffix, PC, InBlock
  <2>7. CASE CommitReplace(w)
    <3>1. CASE Replace(w, "flag")
      BY <3>1, ReplaceType DEF Replace, PC, InBlock
    <3>2. CASE ReplaceFails(w)
      BY <3>2 DEF ReplaceFails, PC
    <3> QED BY <2>7, <3>1, <3>2 DEF CommitReplace
  <2>8. CASE CommitFlag(w)
    BY <2>8 DEF CommitFlag, PC
  <2> QED
    BY <1>3, <2>1, <2>2, <2>3, <2>4, <2>5, <2>6, <2>7, <2>8 DEF Commit
<1>4. ASSUME NEW w \in Writers, BailoutCommit(w) PROVE TypeOK'
  <2>1. CASE BailoutScan(w)
    BY <2>1, ProbeType DEF BailoutScan, ProbeSlot, Abort, PC, InBlock
  <2>2. CASE BailoutReplace(w)
    <3>1. CASE Replace(w, "bailout_flag")
      BY <3>1, ReplaceType DEF Replace, PC, InBlock
    <3>2. CASE ReplaceFails(w)
      BY <3>2 DEF ReplaceFails, PC
    <3> QED BY <2>2, <3>1, <3>2 DEF BailoutReplace
  <2>3. CASE BailoutFlag(w)
    BY <2>3 DEF BailoutFlag, PC
  <2> QED BY <1>4, <2>1, <2>2, <2>3 DEF BailoutCommit
<1>5. ASSUME NEW w \in Writers, Leave(w) PROVE TypeOK'
  <2>1. CASE Exit(w)
    BY <2>1 DEF Exit, Cleanup, StagingState, PC, Restoring
  <2>2. CASE RestoreSigint(w)
    BY <2>2 DEF RestoreSigint, PC, Restoring
  <2>3. CASE RestoreSigterm(w)
    BY <2>3 DEF RestoreSigterm, PC, Gone
  <2> QED BY <1>5, <2>1, <2>2, <2>3 DEF Leave
<1>6. ASSUME NEW w \in Writers, DoPrompt(w) PROVE TypeOK'
  BY <1>6, BoundsAssumption
  DEF DoPrompt, StartOverwrite, StartSuffix, Abort, Path, Slot, PC, InBlock
<1>7. ASSUME NEW w \in Writers, Environment(w) PROVE TypeOK'
  <2>1. CASE SignalHandler(w)
    BY <2>1 DEF SignalHandler, AfterSignal, Cleanup, StagingState, PC,
       Restoring, Gone
  <2>2. CASE DefaultSignal(w)
    BY <2>2 DEF DefaultSignal, PC, Gone
  <2>3. CASE Crash(w)
    BY <2>3 DEF Crash, PC, Gone
  <2>4. CASE Age(w)
    BY <2>4 DEF Age
  <2> QED BY <1>7, <2>1, <2>2, <2>3, <2>4 DEF Environment
<1>8. CASE Tick
  BY <1>8, BoundsAssumption DEF Tick
<1>9. CASE UNCHANGED vars
  BY <1>9 DEF vars
<1> QED
  BY <1>1, <1>2, <1>3, <1>4, <1>5, <1>6, <1>7, <1>8, <1>9 DEF Next, Run

\* Every variable keeps its type: no step leaves the labels, paths and
\* directory contents of the model.
THEOREM TypeCorrect == Spec => []TypeOK
  BY InitType, NextType, PTL DEF Spec
-----------------------------------------------------------------------------
(* The conjuncts of the inductive invariant, one lemma each.               *)

\* Only a process that is gone ages, and it stays gone.
LEMMA AgedNext ==
  ASSUME TypeOK, AgedInv, [Next]_vars
  PROVE  AgedInv'
<1> USE DEF AgedInv, TypeOK, Goto, Raise, private, flags,
        Gone
<1>1. ASSUME NEW u \in Writers, Enter(u) PROVE AgedInv'
  BY <1>1 DEF Enter, RegisterSigint, RegisterSigterm, GcList, GcRemove, GcDone,
     MakeStaging, EnterFails, Entering
<1>2. ASSUME NEW u \in Writers, Body(u) PROVE AgedInv'
  BY <1>2 DEF Body, WriteFiles, BodyRaises, LeaveWithoutCommit, BodyBailsOut,
     CallCommit
<1>3. ASSUME NEW u \in Writers, Commit(u) PROVE AgedInv'
  BY <1>3 DEF Commit, ResolveFinalPath, StartOverwrite, StartSuffix, Abort,
     OverwriteBegin, OverwriteFiles, OverwriteEnd, OverwriteFails, DoSuffix,
     ProbeSlot, CommitReplace, Replace, ReplaceFails, CommitFlag
<1>4. ASSUME NEW u \in Writers, BailoutCommit(u) PROVE AgedInv'
  BY <1>4 DEF BailoutCommit, BailoutScan, ProbeSlot, Abort, BailoutReplace,
     Replace,
     ReplaceFails, BailoutFlag
<1>5. ASSUME NEW u \in Writers, Leave(u) PROVE AgedInv'
  BY <1>5 DEF Leave, Exit, Cleanup, RestoreSigint, RestoreSigterm
<1>6. ASSUME NEW u \in Writers, DoPrompt(u) PROVE AgedInv'
  BY <1>6 DEF DoPrompt, StartOverwrite, StartSuffix, Abort
<1>7. ASSUME NEW u \in Writers, Environment(u) PROVE AgedInv'
  BY <1>7 DEF Environment, SignalHandler, AfterSignal, Cleanup, DefaultSignal,
     Crash,
     Age
<1>8. CASE Tick
  BY <1>8 DEF Tick
<1>9. CASE UNCHANGED vars
  BY <1>9 DEF vars
<1> QED
  BY <1>1, <1>2, <1>3, <1>4, <1>5, <1>6, <1>7, <1>8, <1>9 DEF Next, Run

\* Handlers are installed by __enter__ and removed by __exit__ alone.
LEMMA HandlerNext ==
  ASSUME TypeOK, HandlerInv, [Next]_vars
  PROVE  HandlerInv'
<1> USE DEF HandlerInv, TypeOK, Goto, Raise, private, flags,
        Entering, InBlock, Restoring, Gone, Signals
<1>1. ASSUME NEW u \in Writers, Enter(u) PROVE HandlerInv'
  BY <1>1 DEF Enter, RegisterSigint, RegisterSigterm, GcList, GcRemove, GcDone,
     MakeStaging, EnterFails
<1>2. ASSUME NEW u \in Writers, Body(u) PROVE HandlerInv'
  BY <1>2 DEF Body, WriteFiles, BodyRaises, LeaveWithoutCommit, BodyBailsOut,
     CallCommit
<1>3. ASSUME NEW u \in Writers, Commit(u) PROVE HandlerInv'
  BY <1>3 DEF Commit, ResolveFinalPath, StartOverwrite, StartSuffix, Abort,
     OverwriteBegin, OverwriteFiles, OverwriteEnd, OverwriteFails, DoSuffix,
     ProbeSlot, CommitReplace, Replace, ReplaceFails, CommitFlag
<1>4. ASSUME NEW u \in Writers, BailoutCommit(u) PROVE HandlerInv'
  BY <1>4 DEF BailoutCommit, BailoutScan, ProbeSlot, Abort, BailoutReplace,
     Replace,
     ReplaceFails, BailoutFlag
<1>5. ASSUME NEW u \in Writers, Leave(u) PROVE HandlerInv'
  BY <1>5 DEF Leave, Exit, Cleanup, RestoreSigint, RestoreSigterm
<1>6. ASSUME NEW u \in Writers, DoPrompt(u) PROVE HandlerInv'
  BY <1>6 DEF DoPrompt, StartOverwrite, StartSuffix, Abort
<1>7. ASSUME NEW u \in Writers, Environment(u) PROVE HandlerInv'
  BY <1>7 DEF Environment, SignalHandler, AfterSignal, Cleanup, DefaultSignal,
     Crash,
     Age
<1>8. CASE Tick
  BY <1>8 DEF Tick
<1>9. CASE UNCHANGED vars
  BY <1>9 DEF vars
<1> QED
  BY <1>1, <1>2, <1>3, <1>4, <1>5, <1>6, <1>7, <1>8, <1>9 DEF Next, Run

\* Nobody removes the staging directory of a process that holds one, and one
\* that has left the block has renamed or removed it.
LEMMA StagingNext ==
  ASSUME TypeOK, AgedInv, HandlerInv, StagingInv, [Next]_vars
  PROVE  StagingInv'
<1> USE DEF StagingInv, AgedInv, HandlerInv, TypeOK, Reported, Goto, Raise,
        private, flags,
        Holding, Bare, Entering, InBlock, Restoring, Gone, Signals
<1>1. ASSUME NEW u \in Writers, Enter(u) PROVE StagingInv'
  BY <1>1 DEF Enter, RegisterSigint, RegisterSigterm, GcList, GcRemove, GcDone,
     MakeStaging, EnterFails
<1>2. ASSUME NEW u \in Writers, Body(u) PROVE StagingInv'
  BY <1>2 DEF Body, WriteFiles, BodyRaises, LeaveWithoutCommit, BodyBailsOut,
     CallCommit
<1>3. ASSUME NEW u \in Writers, Commit(u) PROVE StagingInv'
  BY <1>3 DEF Commit, ResolveFinalPath, StartOverwrite, StartSuffix, Abort,
     OverwriteBegin, OverwriteFiles, OverwriteEnd, OverwriteFails, DoSuffix,
     ProbeSlot, CommitReplace, CanReplace, Replace, ReplaceFails, CommitFlag
<1>4. ASSUME NEW u \in Writers, BailoutCommit(u) PROVE StagingInv'
  BY <1>4 DEF BailoutCommit, BailoutScan, ProbeSlot, Abort, BailoutReplace,
     Replace, CanReplace,
     ReplaceFails, BailoutFlag
<1>5. ASSUME NEW u \in Writers, Leave(u) PROVE StagingInv'
  BY <1>5 DEF Leave, KeepsStaging, Exit, Cleanup, RestoreSigint, RestoreSigterm
<1>6. ASSUME NEW u \in Writers, DoPrompt(u) PROVE StagingInv'
  BY <1>6 DEF DoPrompt, StartOverwrite, StartSuffix, Abort
<1>7. ASSUME NEW u \in Writers, Environment(u) PROVE StagingInv'
  BY <1>7 DEF Environment, PC, SignalHandler, AfterSignal, Cleanup,
     DefaultSignal, Crash,
     Age
<1>8. CASE Tick
  BY <1>8 DEF Tick
<1>9. CASE UNCHANGED vars
  BY <1>9 DEF vars
<1> QED
  BY <1>1, <1>2, <1>3, <1>4, <1>5, <1>6, <1>7, <1>8, <1>9 DEF Next, Run

\* The body fixes what is staged before commit or bailout_commit aims it, and
\* each of the two only looks at names of its own kind.
LEMMA AimNext ==
  ASSUME TypeOK, AimInv, AgedInv, StagingInv, [Next]_vars
  PROVE  AimInv'
<1> USE DEF AimInv, AgedInv, TypeOK, Goto, Raise, private, flags,
        Holding, Bare, Entering, InBlock, Restoring, Gone, Out, Slot
<1>1. ASSUME NEW u \in Writers, Enter(u) PROVE AimInv'
  BY <1>1 DEF Enter, RegisterSigint, RegisterSigterm, GcList, GcRemove, GcDone,
     MakeStaging, EnterFails
<1>2. ASSUME NEW u \in Writers, Body(u) PROVE AimInv'
  BY <1>2 DEF StagingInv, Reported, Body, WriteFiles, BodyRaises,
     LeaveWithoutCommit, BodyBailsOut,
     CallCommit
<1>3. ASSUME NEW u \in Writers, Commit(u) PROVE AimInv'
  BY <1>3 DEF Commit, ResolveFinalPath, StartOverwrite, StartSuffix, Abort,
     OverwriteBegin, OverwriteFiles, OverwriteEnd, OverwriteFails, DoSuffix,
     ProbeSlot, CommitReplace, Replace, ReplaceFails, CommitFlag
<1>4. ASSUME NEW u \in Writers, BailoutCommit(u) PROVE AimInv'
  BY <1>4 DEF BailoutCommit, BailoutScan, ProbeSlot, Abort, BailoutReplace,
     Replace,
     ReplaceFails, BailoutFlag
<1>5. ASSUME NEW u \in Writers, Leave(u) PROVE AimInv'
  BY <1>5 DEF Leave, Exit, Cleanup, RestoreSigint, RestoreSigterm
<1>6. ASSUME NEW u \in Writers, DoPrompt(u) PROVE AimInv'
  BY <1>6 DEF DoPrompt, StartOverwrite, StartSuffix, Abort
<1>7. ASSUME NEW u \in Writers, Environment(u) PROVE AimInv'
  BY <1>7 DEF Environment, SignalHandler, AfterSignal, Cleanup, DefaultSignal,
     Crash,
     Age
<1>8. CASE Tick
  BY <1>8 DEF Tick
<1>9. CASE UNCHANGED vars
  BY <1>9 DEF vars
<1> QED
  BY <1>1, <1>2, <1>3, <1>4, <1>5, <1>6, <1>7, <1>8, <1>9 DEF Next, Run

\* The steps that change the entries of the parent directory.
LEMMA EntryChanges ==
  ASSUME [Next]_vars
  PROVE  \/ UNCHANGED <<entry, victim>>
         \/ \E u \in Writers :
              \/ OverwriteBegin(u) \/ OverwriteFiles(u) \/ OverwriteEnd(u)
              \/ pc[u] = "replace" /\ Replace(u, "flag")
              \/ pc[u] = "bailout_replace" /\ Replace(u, "bailout_flag")
<1> USE DEF private
<1>1. ASSUME NEW u \in Writers,
             \/ Enter(u) \/ Body(u) \/ Leave(u) \/ DoPrompt(u) \/ Environment(u)
      PROVE  UNCHANGED <<entry, victim>>
  BY <1>1 DEF Enter, RegisterSigint, RegisterSigterm, GcList, GcRemove, GcDone,
     MakeStaging, EnterFails, Body, WriteFiles, BodyRaises,
     LeaveWithoutCommit, BodyBailsOut, CallCommit, Leave, Exit, RestoreSigint,
     RestoreSigterm, DoPrompt, Environment, SignalHandler, DefaultSignal,
     Crash, Age
<1>2. ASSUME NEW u \in Writers,
             \/ ResolveFinalPath(u) \/ OverwriteFails(u) \/ DoSuffix(u)
             \/ CommitFlag(u) \/ BailoutScan(u) \/ BailoutFlag(u)
             \/ ReplaceFails(u)
      PROVE  UNCHANGED <<entry, victim>>
  BY <1>2 DEF ResolveFinalPath, OverwriteFails, DoSuffix, ProbeSlot,
     CommitFlag,
     BailoutScan, BailoutFlag, ReplaceFails
<1>3. CASE Tick \/ UNCHANGED vars
  BY <1>3 DEF Tick, vars
<1> QED
  BY <1>1, <1>2, <1>3
  DEF Next, Run, Commit, BailoutCommit, CommitReplace, BailoutReplace

\* A directory that exists has an owner.
LEMMA OwnerNext ==
  ASSUME TypeOK, OwnerInv, [Next]_vars
  PROVE  OwnerInv'
<1> USE WritersAssumption DEF OwnerInv, TypeOK
<1>1. CASE UNCHANGED entry
  BY <1>1
<1>2. ASSUME NEW u \in Writers, OverwriteBegin(u) PROVE OwnerInv'
  BY <1>2 DEF OverwriteBegin, Exists, Entry, Path
<1>3. ASSUME NEW u \in Writers, OverwriteFiles(u) \/ OverwriteEnd(u)
      PROVE  OwnerInv'
  <2>1. CASE OverwriteFiles(u)
    BY <2>1 DEF OverwriteFiles, Entry, Path
  <2>2. CASE OverwriteEnd(u)
    BY <2>2 DEF OverwriteEnd, Absent
  <2> QED BY <1>3, <2>1, <2>2
<1>4. ASSUME NEW u \in Writers, NEW next, Replace(u, next)
      PROVE  OwnerInv'
  BY <1>4 DEF Replace
<1> QED
  BY <1>1, <1>2, <1>3, <1>4, EntryChanges

\* A step that touches neither the directories nor what has been renamed.
LEMMA ResultFrame ==
  ASSUME ResultInv, UNCHANGED <<entry, victim>>,
         \A w \in Writers :
           /\ Landed(w)' => Landed(w) /\ target'[w] = target[w]
           /\ Preserved(w)' => Preserved(w) /\ target'[w] = target[w]
           /\ exc'[w] = "bailout" /\ ~ bailedOut'[w] => 
                exc[w] = "bailout" /\ ~ bailedOut[w]
  PROVE  ResultInv'
<1> SUFFICES ASSUME NEW w \in Writers
             PROVE  /\ Landed(w)' => ResultKept(w)'
                    /\ Preserved(w)' => EvidenceKept(w)'
                    /\ exc'[w] = "bailout" => bailedOut'[w]
  BY DEF ResultInv
<1>1. Landed(w)' => ResultKept(w)'
  BY DEF ResultInv, ResultKept
<1>2. Preserved(w)' => EvidenceKept(w)'
  BY DEF ResultInv, EvidenceKept
<1>3. exc'[w] = "bailout" => bailedOut'[w]
  BY DEF ResultInv
<1> QED BY <1>1, <1>2, <1>3

\* A result that is in place stays: a rename replaces nothing but an empty
\* directory, and rmtree works on output_dir alone.
LEMMA ResultNext ==
  ASSUME TypeOK, StagingInv, AimInv, ResultInv, [Next]_vars
  PROVE  ResultInv'
<1> USE DEF TypeOK, Goto, Raise, private, flags
<1> DEFINE Frame(w) == 
           /\ Landed(w)' => Landed(w) /\ target'[w] = target[w]
           /\ Preserved(w)' => Preserved(w) /\ target'[w] = target[w]
           /\ exc'[w] = "bailout" /\ ~ bailedOut'[w] => 
                exc[w] = "bailout" /\ ~ bailedOut[w]
<1>1. ASSUME NEW u \in Writers, Enter(u) PROVE ResultInv'
  <2>1. UNCHANGED <<entry, victim>>
    BY <1>1 DEF Enter, RegisterSigint, RegisterSigterm, GcList, GcRemove,
       GcDone,
     MakeStaging, EnterFails
  <2>2. \A w \in Writers : Frame(w)
    BY <1>1 DEF Enter, RegisterSigint, RegisterSigterm, GcList, GcRemove,
       GcDone,
     MakeStaging, EnterFails, Landed, Preserved
  <2> QED BY <2>1, <2>2, ResultFrame
<1>2. ASSUME NEW u \in Writers, Body(u) PROVE ResultInv'
  <2>1. UNCHANGED <<entry, victim>>
    BY <1>2 DEF Body, WriteFiles, BodyRaises, LeaveWithoutCommit, BodyBailsOut,
     CallCommit
  <2>2. \A w \in Writers : Frame(w)
    BY <1>2 DEF Body, WriteFiles, BodyRaises, LeaveWithoutCommit, BodyBailsOut,
     CallCommit, Landed, Preserved, StagingInv, Reported, Restoring, Gone
  <2> QED BY <2>1, <2>2, ResultFrame
<1>3. ASSUME NEW u \in Writers, Commit(u) PROVE ResultInv'
  <2>1. CASE ResolveFinalPath(u) \/ DoSuffix(u)
    <3>1. UNCHANGED <<entry, victim>>
      BY <2>1 DEF ResolveFinalPath, DoSuffix, ProbeSlot
    <3>2. \A w \in Writers : Frame(w)
      BY <2>1 DEF ResolveFinalPath, StartSuffix, StartOverwrite, Abort,
         DoSuffix, ProbeSlot,
         Landed, Preserved, StagingInv, Reported, Restoring, Gone
    <3> QED BY <3>1, <3>2, ResultFrame
  <2>2. CASE OverwriteBegin(u)
    <3>1. victim[u] = NoOne
      BY <2>2 DEF OverwriteBegin, AimInv
    <3>2. \A w \in Writers : ResultKept(w) => ResultKept(w)'
      BY <2>2, <3>1, WritersAssumption DEF OverwriteBegin, ResultKept
    <3>3. \A w \in Writers : EvidenceKept(w) => EvidenceKept(w)'
      BY <2>2 DEF OverwriteBegin, EvidenceKept, Out
    <3> QED BY <2>2, <3>2, <3>3 DEF OverwriteBegin, ResultInv, Landed, Preserved
  <2>3. CASE OverwriteFiles(u)
    <3>1. \A w \in Writers : ResultKept(w) => ResultKept(w)'
      BY <2>3 DEF OverwriteFiles, ResultKept
    <3>2. \A w \in Writers : EvidenceKept(w) => EvidenceKept(w)'
      BY <2>3 DEF OverwriteFiles, EvidenceKept, Out
    <3> QED BY <2>3, <3>1, <3>2 DEF OverwriteFiles, ResultInv, Landed, Preserved
  <2>4. CASE OverwriteEnd(u)
    <3>1. \A w \in Writers : ResultKept(w) => ResultKept(w)'
      BY <2>4 DEF OverwriteEnd, ResultKept
    <3>2. \A w \in Writers : EvidenceKept(w) => EvidenceKept(w)'
      BY <2>4 DEF OverwriteEnd, EvidenceKept, Out
    <3> QED BY <2>4, <3>1, <3>2 DEF OverwriteEnd, ResultInv, Landed, Preserved
  <2>5. CASE OverwriteFails(u) \/ (pc[u] = "replace" /\ ReplaceFails(u))
    <3>1. UNCHANGED <<entry, victim>>
      BY <2>5 DEF OverwriteFails, ReplaceFails
    <3>2. \A w \in Writers : Frame(w)
      BY <2>5 DEF OverwriteFails, ReplaceFails, Landed, Preserved
    <3> QED BY <3>1, <3>2, ResultFrame
  <2>6. CASE pc[u] = "replace" /\ Replace(u, "flag")
    <3>1. staging[u] = "whole"
      BY <2>6 DEF AimInv
    <3>2. \A w \in Writers : ResultKept(w) => ResultKept(w)'
      BY <2>6 DEF Replace, CanReplace, ResultKept
    <3>3. \A w \in Writers : EvidenceKept(w) => EvidenceKept(w)'
      BY <2>6 DEF Replace, CanReplace, EvidenceKept, Out
    <3>4. ResultKept(u)'
      BY <2>6, <3>1 DEF Replace, ResultKept
    <3> QED BY <2>6, <3>2, <3>3, <3>4 DEF Replace, ResultInv, Landed, Preserved
  <2>7. CASE CommitFlag(u)
    <3>1. UNCHANGED <<entry, victim>>
      BY <2>7 DEF CommitFlag
    <3>2. \A w \in Writers : Frame(w)
      BY <2>7 DEF CommitFlag, Landed, Preserved
    <3> QED BY <3>1, <3>2, ResultFrame
  <2> QED
    BY <1>3, <2>1, <2>2, <2>3, <2>4, <2>5, <2>6, <2>7 DEF Commit, CommitReplace
<1>4. ASSUME NEW u \in Writers, BailoutCommit(u) PROVE ResultInv'
  <2>1. CASE \/ BailoutScan(u) \/ BailoutFlag(u)
             \/ pc[u] = "bailout_replace" /\ ReplaceFails(u)
    <3>1. UNCHANGED <<entry, victim>>
      BY <2>1 DEF BailoutScan, ProbeSlot, BailoutFlag, ReplaceFails
    <3>2. \A w \in Writers : Frame(w)
      BY <2>1 DEF BailoutScan, ProbeSlot, BailoutFlag, ReplaceFails, Abort,
         Landed, Preserved, StagingInv, Reported, Restoring, Gone
    <3> QED BY <3>1, <3>2, ResultFrame
  <2>2. CASE pc[u] = "bailout_replace" /\ Replace(u, "bailout_flag")
    <3>1. staging[u] = "evidence" /\ target[u].kind = "failed"
      BY <2>2 DEF AimInv
    <3>2. \A w \in Writers : ResultKept(w) => ResultKept(w)'
      BY <2>2 DEF Replace, CanReplace, ResultKept
    <3>3. \A w \in Writers : EvidenceKept(w) => EvidenceKept(w)'
      BY <2>2 DEF Replace, CanReplace, EvidenceKept, Out
    <3>4. EvidenceKept(u)'
      BY <2>2, <3>1 DEF Replace, EvidenceKept
    <3> QED BY <2>2, <3>2, <3>3, <3>4 DEF Replace, ResultInv, Landed, Preserved
  <2> QED
    BY <1>4, <2>1, <2>2 DEF BailoutCommit, BailoutReplace
<1>5. ASSUME NEW u \in Writers, Leave(u) PROVE ResultInv'
  <2>1. UNCHANGED <<entry, victim>>
    BY <1>5 DEF Leave, Exit, RestoreSigint, RestoreSigterm
  <2>2. \A w \in Writers : Frame(w)
    BY <1>5 DEF Leave, Exit, RestoreSigint, RestoreSigterm, Landed, Preserved
  <2> QED BY <2>1, <2>2, ResultFrame
<1>6. ASSUME NEW u \in Writers, DoPrompt(u) PROVE ResultInv'
  <2>1. UNCHANGED <<entry, victim>>
    BY <1>6 DEF DoPrompt
  <2>2. \A w \in Writers : Frame(w)
    BY <1>6 DEF DoPrompt, StartOverwrite, StartSuffix, Abort, Landed,
       Preserved, StagingInv, Reported, Restoring, Gone
  <2> QED BY <2>1, <2>2, ResultFrame
<1>7. ASSUME NEW u \in Writers, Environment(u) PROVE ResultInv'
  <2>1. UNCHANGED <<entry, victim>>
    BY <1>7 DEF Environment, SignalHandler, DefaultSignal, Crash, Age
  <2>2. \A w \in Writers : Frame(w)
    BY <1>7 DEF Environment, SignalHandler, AfterSignal, DefaultSignal, Crash,
       Age, Landed, Preserved
  <2> QED BY <2>1, <2>2, ResultFrame
<1>8. CASE Tick \/ UNCHANGED vars
  <2>1. UNCHANGED <<entry, victim>>
    BY <1>8 DEF Tick, vars
  <2>2. \A w \in Writers : Frame(w)
    BY <1>8 DEF Tick, vars, Landed, Preserved
  <2> QED BY <2>1, <2>2, ResultFrame
<1> QED
  BY <1>1, <1>2, <1>3, <1>4, <1>5, <1>6, <1>7, <1>8 DEF Next, Run

\* Directories appear whole, by rename, and only rmtree takes them apart.
LEMMA WholeNext ==
  ASSUME TypeOK, AimInv, PublishedIsWhole, [Next]_vars
  PROVE  PublishedIsWhole'
<1> USE DEF TypeOK, PublishedIsWhole
<1>1. CASE UNCHANGED <<entry, victim>>
  BY <1>1
<1>2. ASSUME NEW u \in Writers, OverwriteBegin(u) PROVE PublishedIsWhole'
  <2>1. CASE ~ Exists(Out)
    BY <1>2, <2>1 DEF OverwriteBegin, Raise
  <2>2. CASE Exists(Out)
    <3>1. Out \in Path /\ entry[Out] \in Entry
      BY DEF Path
    <3>2. \E s \in {"torn", "empty"} : entry' = [entry EXCEPT ![Out].state = s]
      BY <1>2, <2>2, <3>1 DEF OverwriteBegin
    <3>3. /\ entry'[Out].owner = victim'[u]
          /\ entry'[Out].state \in {"torn", "empty"}
      BY <1>2, <2>2, <3>1, <3>2 DEF OverwriteBegin, Entry
    <3>4. \A p \in Path \ {Out} : entry'[p] = entry[p]
      BY <3>2
    <3> QED BY <3>3, <3>4
  <2> QED BY <2>1, <2>2
<1>3. ASSUME NEW u \in Writers, OverwriteFiles(u) \/ OverwriteEnd(u)
      PROVE  PublishedIsWhole'
  <2>1. CASE OverwriteFiles(u)
    BY <2>1 DEF OverwriteFiles, Entry, Path, private
  <2>2. CASE OverwriteEnd(u)
    BY <2>2 DEF OverwriteEnd, Absent, private
  <2> QED BY <1>3, <2>1, <2>2
<1>4. ASSUME NEW u \in Writers, pc[u] = "replace", Replace(u, "flag")
      PROVE  PublishedIsWhole'
  BY <1>4 DEF AimInv, Replace, Complete, private
<1>5. ASSUME NEW u \in Writers, pc[u] = "bailout_replace",
             Replace(u, "bailout_flag")
      PROVE  PublishedIsWhole'
  BY <1>5 DEF AimInv, Replace, Complete, private
<1> QED
  BY <1>1, <1>2, <1>3, <1>4, <1>5, EntryChanges

-----------------------------------------------------------------------------
(* The inductive invariant and what follows from it.                       *)

\* The invariant holds when no writer has entered yet.
LEMMA InitInv == Init => IInv
<1> SUFFICES ASSUME Init PROVE IInv
  OBVIOUS
<1>1. TypeOK
  BY InitType
<1>2. AgedInv /\ HandlerInv /\ StagingInv /\ AimInv
  BY DEF Init, AgedInv, HandlerInv, StagingInv, AimInv, Entering, InBlock,
     Holding, Bare, Reported, Out
<1>3. OwnerInv /\ PublishedIsWhole
  BY WritersAssumption DEF Init, OwnerInv, PublishedIsWhole, Absent
<1>4. ResultInv
  BY DEF Init, ResultInv, Landed, Preserved
<1> QED
  BY <1>1, <1>2, <1>3, <1>4 DEF IInv

\* Every step preserves it: each conjunct by its own lemma above.
LEMMA NextInv == IInv /\ [Next]_vars => IInv'
  BY NextType, AgedNext, HandlerNext, StagingNext, AimNext, OwnerNext,
     ResultNext, WholeNext DEF IInv

\* The inductive invariant holds throughout, for any number of writers.
THEOREM Invariant == Spec => []IInv
  BY InitInv, NextInv, PTL DEF Spec

\* A run that ended by itself leaves no staging directory behind, for any
\* number of concurrent runs and any interleaving of their signals, if rmtree
\* can delete what it is told to.
THEOREM NoLeftoversHolds == Spec => []NoLeftovers
<1>1. IInv => NoLeftovers
  BY DEF IInv, StagingInv, Bare, NoLeftovers
<1> QED BY <1>1, Invariant, PTL

\* No run's orphan collection removes the staging directory another run is
\* still using.
THEOREM LiveStagingIsKept == Spec => []LiveStagingKept
<1>1. IInv => LiveStagingKept
  BY DEF IInv, StagingInv, Holding, LiveStagingKept
<1> QED BY <1>1, Invariant, PTL

\* Published names only ever hold complete results of their own kind, but for
\* an output_dir that an overwrite has started to remove.
THEOREM PublishedWhole == Spec => []PublishedIsWhole
<1>1. IInv => PublishedIsWhole
  BY DEF IInv
<1> QED BY <1>1, Invariant, PTL

\* A commit that returned has put its own files at the path it returned.
THEOREM CommitHasPublished == Spec => []CommitPublishes
<1>1. IInv => CommitPublishes
  BY DEF IInv, ResultInv, Landed, ResultKept, CommitPublishes
<1> QED BY <1>1, Invariant, PTL

\* The path that a BailOutError names holds that run's evidence.
THEOREM BailOutHasKept == Spec => []BailOutKeepsEvidence
<1>1. IInv => BailOutKeepsEvidence
  BY DEF IInv, ResultInv, Preserved, EvidenceKept, BailOutKeepsEvidence
<1> QED BY <1>1, Invariant, PTL

\* Two runs never report one directory, unless one overwrote the other's.
THEOREM ResultsDiffer == Spec => []DistinctResults
<1>1. ASSUME IInv PROVE DistinctResults
  <2> SUFFICES ASSUME NEW v \in Writers, NEW w \in Writers, v # w,
                      Reported(v), Reported(w), target[v] = target[w]
               PROVE  target[v] = Out
                      /\ \E u \in Writers : victim[u] \in {v, w}
    BY DEF DistinctResults
  <2>1. \A x \in {v, w} : ResultKept(x) \/ EvidenceKept(x)
    BY <1>1 DEF IInv, ResultInv, Reported, Landed, Preserved
  <2>2. ~ (EvidenceKept(v) /\ EvidenceKept(w))
    BY DEF EvidenceKept
  <2>3. \A x \in {v, w} : target[x] = Out => ~ EvidenceKept(x)
    BY DEF EvidenceKept, Out
  <2> QED BY <2>1, <2>2, <2>3 DEF ResultKept, EvidenceKept
<1> QED BY <1>1, Invariant, PTL

\* Unless a signal ended it, a finished run has restored both handlers.
THEOREM HandlersAreRestored == Spec => []HandlersRestored
<1>1. IInv => HandlersRestored
  BY DEF IInv, HandlerInv, HandlersRestored
<1> QED BY <1>1, Invariant, PTL

\* The only step that damages a complete directory is the start of an
\* overwrite that the run's on_exists allows.
THEOREM OnlyOverwriting == Spec => OnlyOverwriteDestroys
<1> DEFINE Destroys(p) == entry[p].state = Complete(p) /\ entry'[p] # entry[p]
           Allowed(p) ==
             /\ p = Out
             /\ \E w \in Writers : /\ mode[w] \in {"overwrite", "prompt"}
                                   /\ pc[w] = "rm_begin" /\ pc'[w] # pc[w]
<1>1. ASSUME IInv, [Next]_vars, NEW p \in Path, Destroys(p) PROVE Allowed(p)
  <2> USE DEF Complete
  <2>1. PICK u \in Writers :
              \/ OverwriteBegin(u) \/ OverwriteFiles(u) \/ OverwriteEnd(u)
              \/ pc[u] = "replace" /\ Replace(u, "flag")
              \/ pc[u] = "bailout_replace" /\ Replace(u, "bailout_flag")
    BY <1>1, EntryChanges
  <2>2. CASE OverwriteBegin(u)
    BY <1>1, <2>2 DEF IInv, AimInv, TypeOK, OverwriteBegin, Goto, Raise
  <2>3. CASE OverwriteFiles(u)
    BY <1>1, <2>3 DEF IInv, TypeOK, OverwriteFiles
  <2>4. CASE OverwriteEnd(u)
    BY <1>1, <2>4 DEF IInv, TypeOK, OverwriteEnd
  <2>5. ASSUME NEW next, Replace(u, next) PROVE FALSE
    BY <1>1, <2>5 DEF IInv, TypeOK, Replace, CanReplace
  <2> QED BY <2>1, <2>2, <2>3, <2>4, <2>5
<1>2. IInv /\ [Next]_vars
        => [\A p \in Path : Destroys(p) => Allowed(p)]_vars
  BY <1>1
<1> QED BY <1>2, Invariant, PTL DEF Spec, OnlyOverwriteDestroys

-----------------------------------------------------------------------------
(* Every run counts down.                                                  *)

\* Only so many processes have died with a staging directory.
FiniteInv == IsFiniteSet(aged)

\* None at first.
LEMMA InitFinite == Init => FiniteInv
  BY FS_EmptySet DEF Init, FiniteInv

\* Time adds to them one by one.
LEMMA FiniteNext == FiniteInv /\ [Next]_vars => FiniteInv'
<1> SUFFICES ASSUME FiniteInv, [Next]_vars PROVE IsFiniteSet(aged')
  BY DEF FiniteInv
<1>1. aged' = aged \/ \E w \in Writers : aged' = aged \cup {w}
  BY DEF Next, vars, Tick, Run, Enter, RegisterSigint, RegisterSigterm,
     GcList, GcRemove, GcDone, MakeStaging, EnterFails, Body, WriteFiles,
     BodyRaises, LeaveWithoutCommit, BodyBailsOut, CallCommit, Commit,
     ResolveFinalPath, OverwriteBegin, OverwriteFiles, OverwriteEnd,
     OverwriteFails, DoSuffix, ProbeSlot, CommitReplace, Replace,
     ReplaceFails, CommitFlag, BailoutCommit, BailoutScan, BailoutReplace,
     BailoutFlag, Leave, Exit, RestoreSigint, RestoreSigterm, DoPrompt,
     Environment, SignalHandler, DefaultSignal, Crash, Age
<1> QED BY <1>1, FS_AddElement DEF FiniteInv

\* The values of Rank.
LEMMA RankIs ==
  /\ Rank("done") = 0 /\ Rank("crashed") = 0 /\ Rank("restore_term") = 1
  /\ Rank("restore_int") = 2 /\ Rank("exit") = 3 /\ Rank("flag") = 4
  /\ Rank("bailout_flag") = 4 /\ Rank("replace") = 5
  /\ Rank("bailout_replace") = 5 /\ Rank("rm_dir") = 6 /\ Rank("rm_files") = 7
  /\ Rank("rm_begin") = 8 /\ Rank("suffix_scan") = 8
  /\ Rank("bailout_scan") = 8 /\ Rank("prompt") = 9 /\ Rank("resolve") = 10
  /\ Rank("body") = 11 /\ Rank("mkdir") = 12 /\ Rank("gc") = 13
  /\ Rank("enter") = 14 /\ Rank("reg_term") = 15 /\ Rank("new") = 16
  BY DEF Rank, Gone

\* A directory less to collect.
LEMMA CollectingCountsDown ==
  ASSUME TypeOK, AgedInv, FiniteInv, NEW w \in Writers, GcRemove(w)
  PROVE  Nearer(w)
<1>1. PICK v \in collect[w] : collect' = [collect EXCEPT ![w] = @ \ {v}]
  BY DEF GcRemove
<1>2. pc[w] = "gc" /\ pc'[w] = "gc" /\ collect'[w] = collect[w] \ {v}
  BY <1>1 DEF GcRemove, TypeOK
<1>3. IsFiniteSet(collect[w])
  BY FS_Subset DEF AgedInv, FiniteInv
<1>4. /\ Cardinality(collect[w] \ {v}) = Cardinality(collect[w]) - 1
      /\ Cardinality(collect[w]) \in Nat
      /\ Cardinality(collect[w] \ {v}) \in Nat
  BY <1>1, <1>3, FS_RemoveElement, FS_CardinalityType
<1>5. /\ Left(w) = Cardinality(collect[w])
      /\ Left(w)' = Cardinality(collect[w] \ {v})
  BY <1>2 DEF Left
<1> QED BY <1>2, <1>4, <1>5 DEF Nearer

\* A name less to try.
LEMMA ProbingCountsDown ==
  ASSUME TypeOK, NEW w \in Writers, DoSuffix(w) \/ BailoutScan(w)
  PROVE  Nearer(w)
<1> USE DEF TypeOK
<1>1. CASE UNCHANGED pc
  <2>1. /\ pc[w] \in {"suffix_scan", "bailout_scan"}
        /\ target[w].n + 2 <= MaxCounter
        /\ target' = [target EXCEPT ![w].n = target[w].n + 1]
    BY <1>1 DEF DoSuffix, BailoutScan, ProbeSlot, Goto, Abort, Raise
  <2>2. target[w] \in Slot
    BY <2>1
  <2>3. target'[w].n = target[w].n + 1
    BY <2>1, <2>2 DEF Slot
  <2>4. target[w].n \in 1 .. MaxCounter /\ MaxCounter \in Nat
    BY <2>2, BoundsAssumption DEF Slot
  <2>5. /\ Left(w) = MaxCounter - target[w].n
        /\ Left(w)' = MaxCounter - (target[w].n + 1)
    BY <1>1, <2>1, <2>3 DEF Left
  <2>6. Left(w)' \in 0 .. Left(w) - 1
    BY <2>1, <2>4, <2>5
  <2> QED BY <1>1, <2>6 DEF Nearer
<1>2. CASE pc' # pc
  <2>1. /\ pc[w] \in {"suffix_scan", "bailout_scan"}
        /\ pc'[w] \in {"replace", "bailout_replace", "exit"}
    BY <1>2 DEF DoSuffix, BailoutScan, ProbeSlot, Goto, Abort, Raise
  <2> QED BY <2>1, RankIs DEF Nearer
<1> QED BY <1>1, <1>2

\* A file less to write.
LEMMA WritingCountsDown ==
  ASSUME TypeOK, NEW w \in Writers, WriteFiles(w)
  PROVE  Nearer(w)
<1>1. /\ pc[w] = "body" /\ pc'[w] = "body"
      /\ \/ staging[w] = "empty" /\ staging'[w] = "partial"
         \/ staging[w] = "partial" /\ staging'[w] = "whole"
  BY DEF WriteFiles, TypeOK
<1> QED BY <1>1 DEF Left, Nearer

\* Every other call, answer, signal or crash goes on to a lower label.
LEMMA GoingOnCountsDown ==
  ASSUME TypeOK, NEW w \in Writers,
         \/ Run(w) /\ ~ GcRemove(w) /\ ~ DoSuffix(w) /\ ~ BailoutScan(w)
              /\ ~ WriteFiles(w)
         \/ DoPrompt(w) \/ SignalHandler(w) \/ DefaultSignal(w) \/ Crash(w)
  PROVE  Nearer(w)
<1> USE RankIs DEF TypeOK, Nearer, Goto, Raise
<1>1. CASE Enter(w) /\ ~ GcRemove(w)
  BY <1>1
  DEF Enter, RegisterSigint, RegisterSigterm, GcList, GcDone, MakeStaging,
      EnterFails, Entering
<1>2. CASE Body(w) /\ ~ WriteFiles(w)
  BY <1>2 DEF Body, BodyRaises, LeaveWithoutCommit, BodyBailsOut, CallCommit
<1>3. CASE Commit(w) /\ ~ DoSuffix(w)
  BY <1>3
  DEF Commit, ResolveFinalPath, StartOverwrite, StartSuffix, Abort,
      OverwriteBegin, OverwriteFiles, OverwriteEnd, OverwriteFails,
      CommitReplace, Replace, ReplaceFails, CommitFlag
<1>4. CASE BailoutCommit(w) /\ ~ BailoutScan(w)
  BY <1>4
  DEF BailoutCommit, BailoutReplace, Replace, ReplaceFails, BailoutFlag
<1>5. CASE Leave(w)
  BY <1>5 DEF Leave, Exit, RestoreSigint, RestoreSigterm
<1>6. CASE DoPrompt(w)
  BY <1>6 DEF DoPrompt, StartOverwrite, StartSuffix, Abort
<1>7. CASE SignalHandler(w) \/ DefaultSignal(w) \/ Crash(w)
  BY <1>7
  DEF SignalHandler, AfterSignal, DefaultSignal, Crash, Gone, Entering,
      InBlock, PC, Restoring
<1> QED BY <1>1, <1>2, <1>3, <1>4, <1>5, <1>6, <1>7 DEF Run

\* So does every step of a process but growing old.
LEMMA OwnStepCountsDown ==
  ASSUME TypeOK, AgedInv, FiniteInv, NEW w \in Writers,
         \/ Run(w) \/ DoPrompt(w) \/ SignalHandler(w) \/ DefaultSignal(w)
         \/ Crash(w)
  PROVE  Nearer(w)
  BY CollectingCountsDown, ProbingCountsDown, WritingCountsDown,
     GoingOnCountsDown

\* A step of one process leaves every other one where it is: what a garbage
\* collection removes belongs to a process that is gone.
LEMMA OthersStay ==
  ASSUME TypeOK, AgedInv, NEW u \in Writers, NEW w \in Writers \ {u},
         Run(u) \/ DoPrompt(u) \/ Environment(u)
  PROVE  UNCHANGED <<pc[w], Left(w)>>
<1>1. /\ pc'[w] = pc[w] /\ collect'[w] = collect[w]
      /\ target'[w] = target[w]
      /\ staging'[w] = staging[w] \/ pc[w] \in Gone
  <2> USE DEF TypeOK, Goto, Raise, private, flags
  <2>1. CASE GcRemove(u)
    BY <2>1 DEF GcRemove, AgedInv
  <2>2. CASE Enter(u) /\ ~ GcRemove(u)
    BY <2>2 DEF Enter, RegisterSigint, RegisterSigterm, GcList, GcDone,
       MakeStaging, EnterFails
  <2>3. CASE Body(u) \/ Leave(u) \/ DoPrompt(u) \/ Environment(u)
    BY <2>3 DEF Body, WriteFiles, BodyRaises, LeaveWithoutCommit,
       BodyBailsOut, CallCommit, Leave, Exit, Cleanup, RestoreSigint,
       RestoreSigterm, DoPrompt, StartOverwrite, StartSuffix, Abort,
       Environment, SignalHandler, DefaultSignal, Crash, Age
  <2>4. CASE Commit(u) \/ BailoutCommit(u)
    BY <2>4 DEF Commit, ResolveFinalPath, StartOverwrite, StartSuffix, Abort,
       OverwriteBegin, OverwriteFiles, OverwriteEnd, OverwriteFails, DoSuffix,
       ProbeSlot, CommitReplace, Replace, ReplaceFails, CommitFlag,
       BailoutCommit, BailoutScan, BailoutReplace, BailoutFlag
  <2> QED BY <2>1, <2>2, <2>3, <2>4 DEF Run
<1>2. pc[w] \in Gone => Left(w)' = Left(w)
  BY <1>1 DEF Left, Gone
<1>3. staging'[w] = staging[w] => Left(w)' = Left(w)
  BY <1>1 DEF Left
<1> QED BY <1>1, <1>2, <1>3

\* For any number of processes and any bounds: every call of a run, and
\* whatever strikes it, brings it nearer to its end, and no other run, no
\* garbage collection and no clock takes it back.
THEOREM RunsCountDown == Spec => CountsDown
<1> DEFINE Step == \A w \in Writers :
                     Nearer(w) \/ (~ Run(w) /\ UNCHANGED <<pc[w], Left(w)>>)
<1>1. TypeOK /\ AgedInv /\ FiniteInv /\ [Next]_vars => [Step]_vars
  <2> SUFFICES ASSUME TypeOK, AgedInv, FiniteInv, Next, NEW w \in Writers
               PROVE  Nearer(w) \/ (~ Run(w) /\ UNCHANGED <<pc[w], Left(w)>>)
    OBVIOUS
  <2>1. Run(w) => Nearer(w)
    BY OwnStepCountsDown
  <2>2. CASE Tick
    <3>1. UNCHANGED <<pc[w], Left(w)>>
      BY <2>2 DEF Tick, private, Left
    <3> QED BY <2>1, <3>1
  <2>3. ASSUME NEW u \in Writers \ {w}, Run(u) \/ DoPrompt(u) \/ Environment(u)
        PROVE  UNCHANGED <<pc[w], Left(w)>>
    BY <2>3, OthersStay
  <2>4. CASE Age(w)
    <3>1. UNCHANGED <<pc[w], Left(w)>>
      BY <2>4 DEF Age, private, Left
    <3> QED BY <2>1, <3>1
  <2>5. CASE DoPrompt(w) \/ SignalHandler(w) \/ DefaultSignal(w) \/ Crash(w)
    BY <2>5, OwnStepCountsDown
  <2> QED BY <2>1, <2>2, <2>3, <2>4, <2>5 DEF Next, Environment
<1>2. IInv => TypeOK /\ AgedInv
  BY DEF IInv
<1> QED
  BY <1>1, <1>2, InitFinite, FiniteNext, Invariant, PTL DEF Spec, CountsDown

-----------------------------------------------------------------------------
(* Names are taken in order.                                               *)

\* All names before a name are taken; all that a scan may try are.
Below(p) == \A n \in 1 .. p.n - 1 : Exists([p EXCEPT !.n = n])
Full(p) == \A n \in 1 .. MaxCounter - 1 : Exists([p EXCEPT !.n = n])

Scanning(w) ==
  pc[w] \in {"suffix_scan", "replace", "bailout_scan", "bailout_replace"}

\* A run that looks for a name, or has found one, has found all before it
\* taken, and one that has given up is on its way out.
ScanInv ==
  /\ NamesInOrder
  /\ \A w \in Writers :
       /\ Scanning(w) /\ target[w] # Out => Below(target[w])
       /\ exc[w] = "abort" => pc[w] \in {"exit"} \cup Restoring \cup Gone
       /\ exc[w] = "abort" /\ target[w] # Out => Full(target[w])

\* A name that is taken stays taken.
LEMMA SlotsStay ==
  ASSUME TypeOK, [Next]_vars, NEW p \in Slot, Exists(p)
  PROVE  Exists(p)'
<1> USE DEF Exists
<1>1. p # Out /\ p \in Path
  BY DEF Slot, Out, Path
<1>2. ASSUME NEW u \in Writers,
             OverwriteBegin(u) \/ OverwriteFiles(u) \/ OverwriteEnd(u)
      PROVE  entry'[p] = entry[p]
  BY <1>1, <1>2 DEF OverwriteBegin, OverwriteFiles, OverwriteEnd, TypeOK
<1>3. ASSUME NEW u \in Writers, NEW next, Replace(u, next)
      PROVE  entry'[p] = entry[p] \/ entry'[p].state # "absent"
  BY <1>1, <1>3 DEF Replace, CanReplace, TypeOK
<1> QED BY <1>2, <1>3, EntryChanges

\* Of what is below a name, likewise.
LEMMA BelowStays ==
  ASSUME TypeOK, [Next]_vars, NEW p \in Slot
  PROVE  (Below(p) => Below(p)') /\ (Full(p) => Full(p)')
<1>1. ASSUME NEW n \in 1 .. MaxCounter PROVE [p EXCEPT !.n = n] \in Slot
  BY DEF Slot
<1>2. /\ 1 .. p.n - 1 \subseteq 1 .. MaxCounter
      /\ 1 .. MaxCounter - 1 \subseteq 1 .. MaxCounter
  BY BoundsAssumption DEF Slot
<1> QED BY <1>1, <1>2, SlotsStay DEF Below, Full

\* What a step does to a run's target: nothing; it starts a scan; it goes on to
\* the next name because this one is taken, or gives up for the same reason.
LEMMA TargetMoves ==
  ASSUME TypeOK, AimInv, ScanInv, [Next]_vars, NEW w \in Writers
  PROVE  /\ exc'[w] = "abort" => pc'[w] \in {"exit"} \cup Restoring \cup Gone
         /\ \/ /\ target'[w] = target[w]
               /\ Scanning(w)' => Scanning(w) \/ target[w] = Out
               /\ exc'[w] = "abort" => exc[w] = "abort" \/ target[w] = Out
            \/ /\ target'[w] \in Slot /\ target'[w].n = 1
               /\ exc'[w] # "abort"
            \/ /\ Scanning(w) /\ target[w] \in Slot /\ Exists(target[w])
               /\ \/ /\ target'[w] = [target[w] EXCEPT !.n = @ + 1]
                     /\ exc'[w] # "abort"
                  \/ /\ target'[w] = target[w]
                     /\ target[w].n + 2 > MaxCounter
                     /\ ~ Scanning(w)'
<1> USE DEF AimInv, ScanInv, TypeOK, Goto, Raise, private, flags, Scanning,
            Entering, InBlock, Restoring, Gone
<1>1. ASSUME NEW u \in Writers,
             \/ Enter(u) \/ BodyRaises(u) \/ WriteFiles(u)
             \/ LeaveWithoutCommit(u) \/ CallCommit(u) \/ Leave(u)
      PROVE  /\ target'[w] = target[w]
             /\ Scanning(w)' => Scanning(w) \/ target[w] = Out
             /\ exc'[w] = "abort" => exc[w] = "abort"
                  /\ pc'[w] \in {"exit"} \cup Restoring \cup Gone
  BY <1>1 DEF Enter, RegisterSigint, RegisterSigterm, GcList, GcRemove, GcDone,
     MakeStaging, EnterFails, BodyRaises, WriteFiles, LeaveWithoutCommit,
     CallCommit, Leave, Exit, Cleanup, RestoreSigint, RestoreSigterm
<1>2. ASSUME NEW u \in Writers, Environment(u)
      PROVE  /\ target'[w] = target[w]
             /\ Scanning(w)' => Scanning(w) \/ target[w] = Out
             /\ exc'[w] = "abort" => exc[w] = "abort"
                  /\ pc'[w] \in {"exit"} \cup Restoring \cup Gone
  BY <1>2 DEF Environment, SignalHandler, AfterSignal, Cleanup, DefaultSignal,
     Crash, Age
<1>3. ASSUME NEW u \in Writers,
             \/ OverwriteBegin(u) \/ OverwriteFiles(u) \/ OverwriteEnd(u)
             \/ OverwriteFails(u) \/ CommitReplace(u) \/ CommitFlag(u)
             \/ BailoutReplace(u) \/ BailoutFlag(u)
      PROVE  /\ target'[w] = target[w]
             /\ Scanning(w)' => Scanning(w) \/ target[w] = Out
             /\ exc'[w] = "abort" => exc[w] = "abort"
                  /\ pc'[w] \in {"exit"} \cup Restoring \cup Gone
  BY <1>3 DEF OverwriteBegin, OverwriteFiles, OverwriteEnd, OverwriteFails,
     CommitReplace, Replace, ReplaceFails, CommitFlag, BailoutReplace,
     BailoutFlag
<1>4. ASSUME NEW u \in Writers, u # w,
             \/ BodyBailsOut(u) \/ ResolveFinalPath(u) \/ DoPrompt(u)
             \/ DoSuffix(u) \/ BailoutScan(u)
      PROVE  UNCHANGED <<target[w], pc[w], exc[w]>>
  BY <1>4 DEF BodyBailsOut, ResolveFinalPath, DoPrompt, StartOverwrite,
     StartSuffix, Abort, DoSuffix, BailoutScan, ProbeSlot
<1>5. CASE BodyBailsOut(w) \/ ResolveFinalPath(w) \/ DoPrompt(w)
  <2>1. exc[w] # "abort" /\ target[w] = Out
    BY <1>5 DEF BodyBailsOut, ResolveFinalPath, DoPrompt
  <2>2. minute \in 0 .. MaxMinute /\ 1 \in 1 .. MaxCounter
    BY BoundsAssumption
  <2>3. \/ /\ target'[w] \in Slot /\ target'[w].n = 1
           /\ exc'[w] = exc[w]
        \/ /\ target'[w] = target[w]
           /\ exc'[w] = "abort" => pc'[w] = "exit"
    BY <1>5, <2>1, <2>2
    DEF BodyBailsOut, ResolveFinalPath, DoPrompt, StartOverwrite, StartSuffix,
        Abort, Slot
  <2> QED BY <2>1, <2>3
<1>6. CASE DoSuffix(w) \/ BailoutScan(w)
  <2>1. exc[w] # "abort" /\ Scanning(w) /\ target[w] \in Slot
    BY <1>6 DEF DoSuffix, BailoutScan
  <2> QED BY <1>6, <2>1 DEF DoSuffix, BailoutScan, ProbeSlot, Abort, Slot
<1>7. CASE Tick \/ UNCHANGED vars
  BY <1>7 DEF Tick, vars
<1> QED
  BY <1>1, <1>2, <1>3, <1>4, <1>5, <1>6, <1>7
  DEF Next, Run, Body, Commit, BailoutCommit

\* A new name is one that a scan has found, all before it taken.
LEMMA NamesStayInOrder ==
  ASSUME TypeOK, ScanInv, [Next]_vars
  PROVE  NamesInOrder'
<1> SUFFICES ASSUME NEW p \in Slot, Exists(p)' PROVE Below(p)'
  BY DEF NamesInOrder, Below
<1>1. CASE Exists(p)
  BY <1>1, BelowStays DEF ScanInv, NamesInOrder, Below
<1>2. CASE ~ Exists(p)
  <2>1. p # Out /\ p \in Path
    BY DEF Slot, Out, Path
  <2>2. ASSUME NEW u \in Writers,
               OverwriteBegin(u) \/ OverwriteFiles(u) \/ OverwriteEnd(u)
        PROVE  entry'[p] = entry[p]
    BY <2>1, <2>2 DEF OverwriteBegin, OverwriteFiles, OverwriteEnd, TypeOK
  <2>3. ASSUME NEW u \in Writers, NEW next, Replace(u, next), target[u] # p
        PROVE  entry'[p] = entry[p]
    BY <2>1, <2>3 DEF Replace, TypeOK
  <2>4. PICK u \in Writers : Scanning(u) /\ target[u] = p
    BY <1>2, <2>2, <2>3, EntryChanges DEF Exists, Scanning
  <2>5. Below(p)
    BY <2>1, <2>4 DEF ScanInv
  <2> QED BY <2>5, BelowStays
<1> QED BY <1>1, <1>2

\* The invariant is inductive.
LEMMA ScanNext == TypeOK /\ AimInv /\ ScanInv /\ [Next]_vars => ScanInv'
<1> SUFFICES ASSUME TypeOK, AimInv, ScanInv, [Next]_vars PROVE ScanInv'
  OBVIOUS
<1>1. ASSUME NEW w \in Writers
      PROVE  /\ Scanning(w)' /\ target'[w] # Out => Below(target[w])'
             /\ exc'[w] = "abort"
                  => pc'[w] \in {"exit"} \cup Restoring \cup Gone
             /\ exc'[w] = "abort" /\ target'[w] # Out => Full(target[w])'
  <2>1. target[w] \in {Out} \cup Slot
    BY DEF TypeOK, Path
  <2>2. CASE /\ target'[w] = target[w]
             /\ Scanning(w)' => Scanning(w) \/ target[w] = Out
             /\ exc'[w] = "abort" => exc[w] = "abort" \/ target[w] = Out
    <3>1. CASE target[w] = Out
      BY <2>2, <3>1, TargetMoves
    <3>2. CASE target[w] \in Slot /\ target[w] # Out
      <4>1. /\ Scanning(w)' => Below(target[w])
            /\ exc'[w] = "abort" => Full(target[w])
        BY <2>2, <3>2 DEF ScanInv
      <4>2. /\ Scanning(w)' => Below(target[w])'
            /\ exc'[w] = "abort" => Full(target[w])'
        BY <2>2, <3>2, <4>1, BelowStays DEF Below, Full
      <4> QED BY <4>2, TargetMoves
    <3> QED BY <2>1, <3>1, <3>2
  <2>3. CASE target'[w] \in Slot /\ target'[w].n = 1 /\ exc'[w] # "abort"
    <3>1. 1 .. target'[w].n - 1 = {}
      BY <2>3
    <3> QED BY <2>3, <3>1 DEF Below
  <2>4. CASE /\ Scanning(w) /\ target[w] \in Slot /\ Exists(target[w])
             /\ target'[w] = [target[w] EXCEPT !.n = @ + 1]
             /\ exc'[w] # "abort"
    <3>1. Below(target[w]) /\ target[w] # Out
      BY <2>4 DEF ScanInv, Slot, Out
    <3>2. ASSUME NEW n \in 1 .. target'[w].n - 1
          PROVE  Exists([target[w] EXCEPT !.n = n])
      <4>1. target'[w].n = target[w].n + 1 /\ target[w].n \in Nat
        BY <2>4 DEF Slot
      <4>2. n \in 1 .. target[w].n - 1 \/ n = target[w].n
        BY <4>1
      <4>3. n = target[w].n => [target[w] EXCEPT !.n = n] = target[w]
        BY <2>4 DEF Slot
      <4> QED BY <2>4, <3>1, <4>2, <4>3 DEF Below
    <3>3. ASSUME NEW n \in 1 .. target'[w].n - 1
          PROVE  Exists([target[w] EXCEPT !.n = n])'
      <4>1. [target'[w] EXCEPT !.n = n] = [target[w] EXCEPT !.n = n]
        BY <2>4 DEF Slot
      <4>2. n \in 1 .. MaxCounter
        BY <2>1, <2>4, BoundsAssumption DEF Slot
      <4>3. [target[w] EXCEPT !.n = n] \in Slot
        BY <2>4, <4>2 DEF Slot
      <4>4. \A q \in Slot : Exists(q) => Exists(q)'
        BY SlotsStay
      <4> QED BY <3>2, <4>1, <4>3, <4>4 DEF Exists
    <3> QED BY <2>4, <3>3 DEF Below
  <2>5. CASE /\ Scanning(w) /\ target[w] \in Slot /\ Exists(target[w])
             /\ target'[w] = target[w] /\ target[w].n + 2 > MaxCounter
             /\ ~ Scanning(w)'
    <3>1. Below(target[w]) /\ target[w] # Out
      BY <2>5 DEF ScanInv, Slot, Out
    <3>2. Full(target[w])
      <4>1. SUFFICES ASSUME NEW n \in 1 .. MaxCounter - 1
                     PROVE  Exists([target[w] EXCEPT !.n = n])
        BY DEF Full
      <4>2. target[w].n \in 1 .. MaxCounter /\ MaxCounter \in Nat
        BY <2>5, BoundsAssumption DEF Slot
      <4>3. n \in 1 .. target[w].n - 1 \/ n = target[w].n
        BY <2>5, <4>2
      <4>4. n = target[w].n => [target[w] EXCEPT !.n = n] = target[w]
        BY <2>5 DEF Slot
      <4> QED BY <2>5, <3>1, <4>3, <4>4 DEF Below
    <3>3. Full(target[w])'
      BY <2>5, <3>2, BelowStays DEF Full
    <3> QED BY <2>5, <3>3, TargetMoves
  <2> QED BY <2>2, <2>3, <2>4, <2>5, TargetMoves
<1> QED BY <1>1, NamesStayInOrder DEF ScanInv

\* Earlier runs have left no gaps, either.
LEMMA InitScan == Init => ScanInv
<1> SUFFICES ASSUME Init PROVE ScanInv
  OBVIOUS
<1>1. PICK before \in BOOLEAN, k \in Earlier :
        entry = [p \in Path |-> IF \/ p = Out /\ before
                                   \/ p # Out /\ p.minute = 0 /\ p.n <= k
                                  THEN [state |-> Complete(p), owner |-> Before]
                                  ELSE Absent]
  BY DEF Init
<1>2. ASSUME NEW p \in Slot
      PROVE  Exists(p) <=> p.minute = 0 /\ p.n <= k
  BY <1>1 DEF Exists, Path, Slot, Out, Complete, Absent
<1>3. k \in Nat
  BY BoundsAssumption
<1>4. ASSUME NEW p \in Slot, Exists(p), NEW n \in 1 .. p.n - 1
      PROVE  Exists([p EXCEPT !.n = n])
  <2>1. /\ [p EXCEPT !.n = n] \in Slot
        /\ [p EXCEPT !.n = n].minute = p.minute
        /\ [p EXCEPT !.n = n].n = n
    BY BoundsAssumption DEF Slot
  <2>2. n <= k
    BY <1>2, <1>3, <1>4 DEF Slot
  <2> QED BY <1>2, <1>4, <2>1, <2>2
<1> QED BY <1>4 DEF Init, ScanInv, NamesInOrder, Scanning

\* For any number of runs, any cap and any interruptions, the names of a minute
\* are numbered without a gap ...
THEOREM NamesAreInOrder == Spec => []NamesInOrder
<1>1. Spec => []ScanInv
  BY InitScan, ScanNext, Invariant, PTL DEF Spec, IInv
<1>2. ScanInv => NamesInOrder
  BY DEF ScanInv
<1> QED BY <1>1, <1>2, PTL

\* ... and a run that gives up has found all of them taken, but for the last
\* one under the cap.
THEOREM GivingUpIsEarned == Spec => []GivesUpWhenFull
<1>1. Spec => []ScanInv
  BY InitScan, ScanNext, Invariant, PTL DEF Spec, IInv
<1>2. ScanInv => GivesUpWhenFull
  BY DEF ScanInv, GivesUpWhenFull, Full
<1> QED BY <1>1, <1>2, PTL
=============================================================================

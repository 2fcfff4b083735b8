----------------------------- MODULE AtomicWriter -----------------------------
(***************************************************************************)
(* scripts/atomic_writer.py: the context manager that lets a pipeline run  *)
(* build its files in a private staging directory and publish them by one  *)
(* rename.  Several operating-system processes (Writers) may run with the  *)
(* same output directory; each uses one AtomicWriter, so the directory     *)
(* entries of the parent are shared and everything else is private.        *)
(*                                                                         *)
(* A step is what Python runs between two points at which another process  *)
(* or a signal handler can intervene: one file system call, one handler    *)
(* registration, one flag assignment.                                      *)
(***************************************************************************)
EXTENDS Naturals, FiniteSets

CONSTANTS
  Writers,     \* processes that run the pipeline on one output directory
  NoOne,       \* owner of an entry that does not exist
  Before,      \* owner of an output directory that an earlier run left
  Modes,       \* values of on_exists the run tries (no_callback: prompt, None)
  MaxCounter,  \* the cap of the suffix counters (100 in the code)
  MaxMinute,   \* bound on the clock's minutes
  Earlier,     \* how many slots of each kind earlier runs may have taken
  Faults       \* file system calls that may raise OSError

ASSUME WritersAssumption == NoOne \notin Writers /\ Before \notin Writers
                            /\ NoOne # Before
ASSUME ModesAssumption ==
  Modes \subseteq {"overwrite", "suffix", "prompt", "no_callback"}
ASSUME BoundsAssumption ==
  /\ MaxCounter \in Nat \ {0, 1}
  /\ MaxMinute \in Nat
  /\ Earlier \subseteq 0 .. MaxCounter - 1 /\ Earlier # {}
ASSUME FaultsAssumption ==
  Faults \subseteq {"enter", "rmtree", "replace", "cleanup"}

VARIABLES
  entry,      \* entries of the parent directory, other than staging
  staging,    \* contents of .tmp-{uuid} of each writer
  aged,       \* writers whose staging directory has an mtime 7 days old
  minute,     \* the wall clock, to the minute
  pc,         \* where each process is
  mode,       \* on_exists of each writer
  target,     \* candidate or final path
  victim,     \* owner of the directory that rmtree opened
  collect,    \* the old staging directories __enter__ still has to remove
  exc,        \* the exception a process is propagating
  handlers,   \* the signals whose handler is _signal_handler
  committed,  \* _committed
  bailedOut   \* _bailed_out

vars == <<entry, staging, aged, minute, pc, mode, target, victim, collect,
          exc, handlers, committed, bailedOut>>

flags == <<committed, bailedOut>>
private == <<mode, victim, collect, handlers>>

-----------------------------------------------------------------------------
(* Paths and directory contents.                                           *)

Out == [kind |-> "out", minute |-> 0, n |-> 1]

\* {output_dir}-{timestamp}, {output_dir}-failed-{timestamp}; n > 1 adds -n.
Slot == [kind : {"suffix", "failed"}, minute : 0 .. MaxMinute,
         n : 1 .. MaxCounter]

Path == {Out} \cup Slot

\* "torn" and "empty": rmtree has removed some, then all, of what it held.
Entry == [state : {"absent", "whole", "partial", "evidence", "torn", "empty"},
          owner : Writers \cup {NoOne, Before}]

Absent == [state |-> "absent", owner |-> NoOne]

\* What a finished run leaves in a directory of each kind.
Complete(p) == IF p.kind = "failed" THEN "evidence" ELSE "whole"

Exists(p) == entry[p].state # "absent"

StagingState == {"absent", "empty", "partial", "whole", "evidence"}

Signals == {"SIGINT", "SIGTERM"}

Entering == {"gc", "mkdir"}             \* inside the try of __enter__
InBlock == {"body", "resolve", "prompt", "rm_begin", "rm_files", "rm_dir",
            "suffix_scan", "replace", "flag", "bailout_scan",
            "bailout_replace", "bailout_flag"}
Restoring == {"restore_int", "restore_term"}
Gone == {"done", "crashed"}

PC == {"new", "reg_term", "enter", "exit"}
        \cup Entering \cup InBlock \cup Restoring \cup Gone

TypeOK ==
  /\ entry \in [Path -> Entry]
  /\ staging \in [Writers -> StagingState]
  /\ aged \subseteq Writers
  /\ minute \in 0 .. MaxMinute
  /\ pc \in [Writers -> PC]
  /\ mode \in [Writers -> Modes]
  /\ target \in [Writers -> Path]
  /\ \A w \in Writers :
       pc[w] \in {"suffix_scan", "bailout_scan"} => target[w] \in Slot
  /\ victim \in [Writers -> Writers \cup {NoOne, Before}]
  /\ collect \in [Writers -> SUBSET Writers]
  /\ exc \in [Writers -> {"none", "error", "abort", "bailout", "signal",
                          "killed"}]
  /\ handlers \in [Writers -> SUBSET Signals]
  /\ committed \in [Writers -> BOOLEAN]
  /\ bailedOut \in [Writers -> BOOLEAN]

Init ==
  /\ \E before \in BOOLEAN, k \in Earlier :
       entry = [p \in Path |-> IF \/ p = Out /\ before
                                  \/ p # Out /\ p.minute = 0 /\ p.n <= k
                                 THEN [state |-> Complete(p), owner |-> Before]
                                 ELSE Absent]
  /\ staging = [w \in Writers |-> "absent"]
  /\ aged = {}
  /\ minute = 0
  /\ pc = [w \in Writers |-> "new"]
  /\ mode \in [Writers -> Modes]
  /\ target = [w \in Writers |-> Out]
  /\ victim = [w \in Writers |-> NoOne]
  /\ collect = [w \in Writers |-> {}]
  /\ exc = [w \in Writers |-> "none"]
  /\ handlers = [w \in Writers |-> {}]
  /\ committed = [w \in Writers |-> FALSE]
  /\ bailedOut = [w \in Writers |-> FALSE]

Goto(w, label) == pc' = [pc EXCEPT ![w] = label]

\* An exception leaves the with block: __exit__ is next.
Raise(w, kind) ==
  /\ exc' = [exc EXCEPT ![w] = kind]
  /\ Goto(w, "exit")

-----------------------------------------------------------------------------
(* __enter__                                                               *)

RegisterSigint(w) ==
  /\ pc[w] = "new"
  /\ handlers' = [handlers EXCEPT ![w] = {"SIGINT"}]
  /\ Goto(w, "reg_term")
  /\ UNCHANGED <<entry, staging, aged, minute, mode, target, victim, collect,
                 exc, flags>>

RegisterSigterm(w) ==
  /\ pc[w] = "reg_term"
  /\ handlers' = [handlers EXCEPT ![w] = Signals]
  /\ Goto(w, "enter")
  /\ UNCHANGED <<entry, staging, aged, minute, mode, target, victim, collect,
                 exc, flags>>

\* Mutants of GcList: the age of a directory is not looked at, or is compared
\* the wrong way round.
GcListAnyAge(w) ==
  /\ pc[w] = "enter"
  /\ collect' = [collect EXCEPT ![w] = {v \in Writers : staging[v] # "absent"}]
  /\ Goto(w, "gc")
  /\ UNCHANGED <<entry, staging, aged, minute, mode, target, victim, exc,
                 handlers, flags>>

GcListYoung(w) ==
  /\ pc[w] = "enter"
  /\ collect' = [collect EXCEPT ![w] =
                   {v \in Writers \ aged : staging[v] # "absent"}]
  /\ Goto(w, "gc")
  /\ UNCHANGED <<entry, staging, aged, minute, mode, target, victim, exc,
                 handlers, flags>>

\* _gc_orphans lists .tmp-* and keeps those whose mtime is 7 days old.
GcList(w) ==
  /\ pc[w] = "enter"
  /\ collect' = [collect EXCEPT ![w] = {v \in aged : staging[v] # "absent"}]
  /\ Goto(w, "gc")
  /\ UNCHANGED <<entry, staging, aged, minute, mode, target, victim, exc,
                 handlers, flags>>

\* rmtree(candidate, ignore_errors=True) of one of them.
GcRemove(w) ==
  /\ pc[w] = "gc"
  /\ \E v \in collect[w] :
       /\ collect' = [collect EXCEPT ![w] = @ \ {v}]
       /\ \/ staging' = [staging EXCEPT ![v] = "absent"]
          \/ "cleanup" \in Faults /\ UNCHANGED staging
  /\ UNCHANGED <<entry, aged, minute, pc, mode, target, victim, exc, handlers,
                 flags>>

GcDone(w) ==
  /\ pc[w] = "gc"
  /\ collect[w] = {}
  /\ Goto(w, "mkdir")
  /\ UNCHANGED <<entry, staging, aged, minute, target, exc, private, flags>>

MakeStaging(w) ==
  /\ pc[w] = "mkdir"
  /\ staging' = [staging EXCEPT ![w] = "empty"]
  /\ Goto(w, "body")
  /\ UNCHANGED <<entry, aged, minute, target, exc, private, flags>>

\* _gc_orphans cannot read the parent directory, or mkdir fails.
EnterFails(w) ==
  /\ pc[w] \in Entering
  /\ "enter" \in Faults
  /\ exc' = [exc EXCEPT ![w] = "error"]
  /\ Goto(w, "restore_int")
  /\ UNCHANGED <<entry, staging, aged, minute, target, private, flags>>

-----------------------------------------------------------------------------
(* The body of the with block, as SkillPipeline.run drives it.             *)

\* STEP 3 writes the artifacts; STEP 5 adds summary.json and rationale.md.
WriteFiles(w) ==
  /\ pc[w] = "body"
  /\ \/ /\ staging[w] = "empty"
        /\ staging' = [staging EXCEPT ![w] = "partial"]
     \/ /\ staging[w] = "partial"
        /\ staging' = [staging EXCEPT ![w] = "whole"]
  /\ UNCHANGED <<entry, aged, minute, pc, target, exc, private, flags>>

BodyRaises(w) ==
  /\ pc[w] = "body"
  /\ Raise(w, "error")
  /\ UNCHANGED <<entry, staging, aged, minute, target, private, flags>>

\* A caller that leaves the block normally without calling commit.
LeaveWithoutCommit(w) ==
  /\ pc[w] = "body"
  /\ Goto(w, "exit")
  /\ UNCHANGED <<entry, staging, aged, minute, target, exc, private, flags>>

\* Mutant of BodyBailsOut: the candidate lacks "-failed".
BodyBailsOutUnmarked(w) ==
  /\ pc[w] = "body"
  /\ staging[w] = "partial"
  /\ staging' = [staging EXCEPT ![w] = "evidence"]
  /\ target' = [target EXCEPT ![w] =
                  [kind |-> "suffix", minute |-> minute, n |-> 1]]
  /\ Goto(w, "bailout_scan")
  /\ UNCHANGED <<entry, aged, minute, exc, private, flags>>

\* STEP 4 gives up: troubleshoot.md is written, then bailout_commit is called
\* and computes its first candidate.
BodyBailsOut(w) ==
  /\ pc[w] = "body"
  /\ staging[w] = "partial"
  /\ staging' = [staging EXCEPT ![w] = "evidence"]
  /\ target' = [target EXCEPT ![w] =
                  [kind |-> "failed", minute |-> minute, n |-> 1]]
  /\ Goto(w, "bailout_scan")
  /\ UNCHANGED <<entry, aged, minute, exc, private, flags>>

CallCommit(w) ==
  /\ pc[w] = "body"
  /\ staging[w] = "whole"
  /\ Goto(w, "resolve")
  /\ UNCHANGED <<entry, staging, aged, minute, target, exc, private, flags>>

-----------------------------------------------------------------------------
(* commit: _resolve_final_path, then os.replace, then the flag.            *)

\* Mutant of StartSuffix: the scan starts at output_dir itself.
StartSuffixUnnamed(w) ==
  /\ Goto(w, "suffix_scan")
  /\ UNCHANGED <<target, exc>>

\* _do_suffix starts with the candidate that bears no counter.
StartSuffix(w) ==
  /\ target' = [target EXCEPT ![w] =
                  [kind |-> "suffix", minute |-> minute, n |-> 1]]
  /\ Goto(w, "suffix_scan")
  /\ UNCHANGED exc

StartOverwrite(w) ==
  /\ Goto(w, "rm_begin")
  /\ UNCHANGED <<target, exc>>

Abort(w) ==
  /\ Raise(w, "abort")
  /\ UNCHANGED target

\* Mutant of ResolveFinalPath: without a callback it overwrites.
ResolveFinalPathUnasked(w) ==
  /\ pc[w] = "resolve"
  /\ \/ ~ Exists(Out) /\ Goto(w, "replace") /\ UNCHANGED <<target, exc>>
     \/ Exists(Out) /\ mode[w] # "suffix" /\ StartOverwrite(w)
     \/ Exists(Out) /\ mode[w] = "suffix" /\ StartSuffix(w)
  /\ UNCHANGED <<entry, staging, aged, minute, private, flags>>

ResolveFinalPath(w) ==
  /\ pc[w] = "resolve"
  /\ \/ ~ Exists(Out) /\ Goto(w, "replace") /\ UNCHANGED <<target, exc>>
     \/ Exists(Out) /\ mode[w] = "overwrite" /\ StartOverwrite(w)
     \/ Exists(Out) /\ mode[w] = "suffix" /\ StartSuffix(w)
     \/ Exists(Out) /\ mode[w] = "no_callback" /\ Abort(w)
     \/ /\ Exists(Out) /\ mode[w] = "prompt"
        /\ Goto(w, "prompt")
        /\ UNCHANGED <<target, exc>>
  /\ UNCHANGED <<entry, staging, aged, minute, private, flags>>

\* The user answers overwrite, suffix, or anything else (cancel); a callback
\* that raises leaves the block in the same way.
DoPrompt(w) ==
  /\ pc[w] = "prompt"
  /\ StartOverwrite(w) \/ StartSuffix(w) \/ Abort(w)
  /\ UNCHANGED <<entry, staging, aged, minute, private, flags>>

\* shutil.rmtree(output_dir) opens the directory and starts on its files ...
OverwriteBegin(w) ==
  /\ pc[w] = "rm_begin"
  /\ IF Exists(Out)
       THEN /\ victim' = [victim EXCEPT ![w] = entry[Out].owner]
            /\ entry' = [entry EXCEPT ![Out].state =
                           IF @ = "empty" THEN @ ELSE "torn"]
            /\ Goto(w, "rm_files")
            /\ UNCHANGED exc
       ELSE Raise(w, "error") /\ UNCHANGED <<entry, victim>>
  /\ UNCHANGED <<staging, aged, minute, mode, target, collect, handlers, flags>>

\* ... removes them through the directory it opened ...
OverwriteFiles(w) ==
  /\ pc[w] = "rm_files"
  /\ entry' = IF entry[Out].owner = victim[w] /\ entry[Out].state = "torn"
                THEN [entry EXCEPT ![Out].state = "empty"]
                ELSE entry
  /\ Goto(w, "rm_dir")
  /\ UNCHANGED <<staging, aged, minute, target, exc, private, flags>>

\* ... and the directory itself, by name, which fails unless it is empty.
OverwriteEnd(w) ==
  /\ pc[w] = "rm_dir"
  /\ IF entry[Out].state = "empty"
       THEN /\ entry' = [entry EXCEPT ![Out] = Absent]
            /\ Goto(w, "replace")
            /\ UNCHANGED exc
       ELSE Raise(w, "error") /\ UNCHANGED entry
  /\ UNCHANGED <<staging, aged, minute, target, private, flags>>

\* A file that cannot be removed, or that another process removed first.
OverwriteFails(w) ==
  /\ \/ pc[w] \in {"rm_begin", "rm_files", "rm_dir"} /\ "rmtree" \in Faults
     \/ /\ pc[w] = "rm_files"
        /\ \/ \E v \in Writers \ {w} : pc[v] = "rm_files"
           \/ entry[Out] # [state |-> "torn", owner |-> victim[w]]
  /\ Raise(w, "error")
  /\ UNCHANGED <<entry, staging, aged, minute, target, private, flags>>

\* Mutant of ProbeSlot: the counter is forgotten, the same name is tried again.
ProbeSlotStuck(w, found) ==
  /\ IF Exists(target[w]) THEN UNCHANGED pc ELSE Goto(w, found)
  /\ UNCHANGED <<entry, staging, aged, minute, target, exc, private, flags>>

\* Another one: past the limit the counter starts again.
ProbeSlotWraps(w, found) ==
  /\ \/ /\ ~ Exists(target[w])
        /\ Goto(w, found)
        /\ UNCHANGED target
     \/ /\ Exists(target[w])
        /\ target' = [target EXCEPT ![w].n =
                        IF @ + 2 <= MaxCounter THEN @ + 1 ELSE 1]
        /\ UNCHANGED pc
  /\ UNCHANGED <<entry, staging, aged, minute, exc, private, flags>>

\* And one that counts twice.
ProbeSlotByTwo(w, found) ==
  /\ \/ /\ ~ Exists(target[w])
        /\ Goto(w, found)
        /\ UNCHANGED <<target, exc>>
     \/ /\ Exists(target[w])
        /\ target[w].n + 2 <= MaxCounter
        /\ target' = [target EXCEPT ![w].n = @ + 2]
        /\ UNCHANGED <<pc, exc>>
     \/ /\ Exists(target[w])
        /\ target[w].n + 2 > MaxCounter
        /\ Abort(w)
  /\ UNCHANGED <<entry, staging, aged, minute, private, flags>>

\* One turn of the while candidate.exists() loop.
ProbeSlot(w, found) ==
  /\ \/ /\ ~ Exists(target[w])
        /\ Goto(w, found)
        /\ UNCHANGED <<target, exc>>
     \/ /\ Exists(target[w])
        /\ target[w].n + 2 <= MaxCounter
        /\ target' = [target EXCEPT ![w].n = @ + 1]
        /\ UNCHANGED <<pc, exc>>
     \/ /\ Exists(target[w])
        /\ target[w].n + 2 > MaxCounter
        /\ Abort(w)
  /\ UNCHANGED <<entry, staging, aged, minute, private, flags>>

DoSuffix(w) == pc[w] = "suffix_scan" /\ ProbeSlot(w, "replace")

\* Mutant of CanReplace: a move that takes the place of what it finds.
CanReplaceAnything(w) == staging[w] # "absent"

\* os.replace(staging, target): renames onto nothing or an empty directory.
CanReplace(w) ==
  staging[w] # "absent" /\ entry[target[w]].state \in {"absent", "empty"}

Replace(w, next) ==
  /\ CanReplace(w)
  /\ entry' = [entry EXCEPT ![target[w]] =
                 [state |-> staging[w], owner |-> w]]
  /\ staging' = [staging EXCEPT ![w] = "absent"]
  /\ Goto(w, next)
  /\ UNCHANGED <<aged, minute, target, exc, private, flags>>

ReplaceFails(w) ==
  /\ ~ CanReplace(w) \/ "replace" \in Faults
  /\ Raise(w, "error")
  /\ UNCHANGED <<entry, staging, aged, minute, target, private, flags>>

\* Mutants of CommitReplace and BailoutReplace: an OSError is swallowed and
\* the flag is set all the same.
IgnoreFailure(w, next) ==
  /\ ~ CanReplace(w) \/ "replace" \in Faults
  /\ Goto(w, next)
  /\ UNCHANGED <<entry, staging, aged, minute, target, exc, private, flags>>

CommitReplaceUnchecked(w) ==
  /\ pc[w] = "replace"
  /\ Replace(w, "flag") \/ IgnoreFailure(w, "flag")

BailoutReplaceUnchecked(w) ==
  /\ pc[w] = "bailout_replace"
  /\ Replace(w, "bailout_flag") \/ IgnoreFailure(w, "bailout_flag")

CommitReplace(w) ==
  /\ pc[w] = "replace"
  /\ Replace(w, "flag") \/ ReplaceFails(w)

CommitFlag(w) ==
  /\ pc[w] = "flag"
  /\ committed' = [committed EXCEPT ![w] = TRUE]
  /\ Goto(w, "exit")
  /\ UNCHANGED <<entry, staging, aged, minute, target, exc, private, bailedOut>>

-----------------------------------------------------------------------------
(* bailout_commit, then the BailOutError that run() raises again.          *)

BailoutScan(w) == pc[w] = "bailout_scan" /\ ProbeSlot(w, "bailout_replace")

BailoutReplace(w) ==
  /\ pc[w] = "bailout_replace"
  /\ Replace(w, "bailout_flag") \/ ReplaceFails(w)

BailoutFlag(w) ==
  /\ pc[w] = "bailout_flag"
  /\ bailedOut' = [bailedOut EXCEPT ![w] = TRUE]
  /\ Raise(w, "bailout")
  /\ UNCHANGED <<entry, staging, aged, minute, target, private, committed>>

-----------------------------------------------------------------------------
(* __exit__                                                                *)

\* cleanup(): rmtree of the staging directory, errors ignored.
Cleanup(w) ==
  \/ staging' = [staging EXCEPT ![w] = "absent"]
  \/ "cleanup" \in Faults /\ UNCHANGED staging

\* Mutant of KeepsStaging: leaving without an exception counts as a commit.
KeepsStagingIfQuiet(w) == bailedOut[w] \/ exc[w] = "none"

KeepsStaging(w) == bailedOut[w] \/ (exc[w] = "none" /\ committed[w])

\* Mutant of Exit: _restore_signal_handlers is not in a finally clause, and an
\* exception goes past it.
ExitUnrestored(w) ==
  /\ pc[w] = "exit"
  /\ IF KeepsStaging(w) THEN UNCHANGED staging ELSE Cleanup(w)
  /\ Goto(w, IF exc[w] = "none" THEN "restore_int" ELSE "done")
  /\ UNCHANGED <<entry, aged, minute, target, exc, private, flags>>

Exit(w) ==
  /\ pc[w] = "exit"
  /\ IF KeepsStaging(w) THEN UNCHANGED staging ELSE Cleanup(w)
  /\ Goto(w, "restore_int")
  /\ UNCHANGED <<entry, aged, minute, target, exc, private, flags>>

RestoreSigint(w) ==
  /\ pc[w] = "restore_int"
  /\ handlers' = [handlers EXCEPT ![w] = @ \ {"SIGINT"}]
  /\ Goto(w, "restore_term")
  /\ UNCHANGED <<entry, staging, aged, minute, mode, target, victim, collect,
                 exc, flags>>

RestoreSigterm(w) ==
  /\ pc[w] = "restore_term"
  /\ handlers' = [handlers EXCEPT ![w] = @ \ {"SIGTERM"}]
  /\ Goto(w, "done")
  /\ UNCHANGED <<entry, staging, aged, minute, mode, target, victim, collect,
                 exc, flags>>

-----------------------------------------------------------------------------
(* The environment: signals, SIGKILL or power loss, and time.              *)

\* Where sys.exit(130) takes a process that was at the given label.
AfterSignal(label) ==
  IF label \in Entering THEN "restore_int"
  ELSE IF label \in InBlock THEN "exit"
  ELSE IF label = "exit" THEN "restore_int"
  ELSE "done"       \* outside every try: nothing restores the handlers

\* _signal_handler: cleanup(), then SystemExit(130) where the signal struck.
SignalHandler(w) ==
  /\ pc[w] \notin Gone
  /\ handlers[w] # {}
  /\ Cleanup(w)
  /\ exc' = [exc EXCEPT ![w] = "signal"]
  /\ Goto(w, AfterSignal(pc[w]))
  /\ UNCHANGED <<entry, aged, minute, target, private, flags>>

\* A signal that still has its previous disposition ends the process.
DefaultSignal(w) ==
  /\ pc[w] \notin Gone
  /\ handlers[w] # Signals
  /\ exc' = [exc EXCEPT ![w] = "killed"]
  /\ Goto(w, "done")
  /\ UNCHANGED <<entry, staging, aged, minute, target, private, flags>>

Crash(w) ==
  /\ pc[w] \notin Gone
  /\ Goto(w, "crashed")
  /\ UNCHANGED <<entry, staging, aged, minute, target, exc, private, flags>>

\* Seven days pass over a staging directory that no process uses any more.
Age(w) ==
  /\ pc[w] \in Gone
  /\ staging[w] # "absent"
  /\ w \notin aged
  /\ aged' = aged \cup {w}
  /\ UNCHANGED <<entry, staging, minute, pc, target, exc, private, flags>>

Tick ==
  /\ minute < MaxMinute
  /\ minute' = minute + 1
  /\ UNCHANGED <<entry, staging, aged, pc, target, exc, private, flags>>

-----------------------------------------------------------------------------

Enter(w) ==
  \/ RegisterSigint(w) \/ RegisterSigterm(w)
  \/ GcList(w) \/ GcRemove(w) \/ GcDone(w)
  \/ MakeStaging(w) \/ EnterFails(w)

Body(w) ==
  \/ WriteFiles(w) \/ BodyRaises(w) \/ LeaveWithoutCommit(w)
  \/ BodyBailsOut(w) \/ CallCommit(w)

Commit(w) ==
  \/ ResolveFinalPath(w)
  \/ OverwriteBegin(w) \/ OverwriteFiles(w) \/ OverwriteEnd(w)
  \/ OverwriteFails(w) \/ DoSuffix(w)
  \/ CommitReplace(w) \/ CommitFlag(w)

BailoutCommit(w) == BailoutScan(w) \/ BailoutReplace(w) \/ BailoutFlag(w)

Leave(w) == Exit(w) \/ RestoreSigint(w) \/ RestoreSigterm(w)

\* What a process does by itself, without the user or the environment.
Run(w) == Enter(w) \/ Body(w) \/ Commit(w) \/ BailoutCommit(w) \/ Leave(w)

Environment(w) ==
  SignalHandler(w) \/ DefaultSignal(w) \/ Crash(w) \/ Age(w)

Next ==
  \/ \E w \in Writers : Run(w) \/ DoPrompt(w) \/ Environment(w)
  \/ Tick

Spec == Init /\ [][Next]_vars

\* A process that is running keeps running; nothing makes a user answer.
FairSpec == Spec /\ \A w \in Writers : WF_vars(Run(w))

-----------------------------------------------------------------------------
(* Safety.                                                                 *)

\* A process that ended by itself, however it ended, leaves no .tmp-*
\* directory behind (atomic_writer.py: "commit not called or exception:
\* staging_dir is cleaned up"), unless rmtree silently failed to delete it.
NoLeftovers ==
  "cleanup" \notin Faults =>
    \A w \in Writers : pc[w] = "done" => staging[w] = "absent"

\* No other run's garbage collection takes the staging directory away from a
\* process that is still going to write to it or rename it.
LiveStagingKept ==
  \A w \in Writers :
    pc[w] \in InBlock \ {"flag", "bailout_flag"} => staging[w] # "absent"

\* A reader of the parent directory never sees a half-written result under a
\* published name, nor a failed run's files under a successful one's; only
\* an overwrite, under way or cut short, leaves output_dir incomplete.
PublishedIsWhole ==
  \A p \in Path :
    \/ entry[p].state \in {"absent", Complete(p)}
    \/ /\ p = Out
       /\ entry[p].state \in {"torn", "empty"}
       /\ \E w \in Writers : victim[w] = entry[p].owner

\* When commit has returned, the files of this very run are at the path it
\* returned; from output_dir only a later overwrite can have taken them.
CommitPublishes ==
  \A w \in Writers :
    committed[w] =>
      \/ entry[target[w]] = [state |-> "whole", owner |-> w]
      \/ target[w] = Out /\ \E v \in Writers : victim[v] = w

\* When a BailOutError reaches the caller, the failed run's files are at the
\* {output_dir}-failed-... path that its message names, and stay there.
BailOutKeepsEvidence ==
  \A w \in Writers :
    exc[w] = "bailout" =>
      /\ target[w].kind = "failed"
      /\ entry[target[w]] = [state |-> "evidence", owner |-> w]

Reported(w) == committed[w] \/ bailedOut[w]

\* Two runs that both return successfully or both bail out never report the
\* same directory, however their exists() checks and renames interleave;
\* output_dir is shared only when one of them overwrote the other.
DistinctResults ==
  \A v, w \in Writers :
    v # w /\ Reported(v) /\ Reported(w) /\ target[v] = target[w]
      => target[v] = Out /\ \E u \in Writers : victim[u] \in {v, w}

\* The n-th name of a kind and a minute is taken only when all before it are:
\* however the scans of several runs interleave, and wherever they are
\* interrupted, the counters leave no gap, and none is closed later.
NamesInOrder ==
  \A p \in Slot :
    Exists(p) => \A n \in 1 .. p.n - 1 : Exists([p EXCEPT !.n = n])

\* A run that has run out of names has not missed one: all that the scan may
\* try, the last name under the cap excepted, are taken.
GivesUpWhenFull ==
  \A w \in Writers :
    exc[w] = "abort" /\ target[w] # Out =>
      \A n \in 1 .. MaxCounter - 1 : Exists([target[w] EXCEPT !.n = n])

\* However a run ends, except by a signal, the previous SIGINT and SIGTERM
\* handlers are back.
HandlersRestored ==
  \A w \in Writers :
    pc[w] = "done" /\ exc[w] \in {"none", "error", "abort", "bailout"}
      => handlers[w] = {}

\* A complete directory, whichever run wrote it, is only ever destroyed at
\* output_dir by a run whose on_exists lets it overwrite.
OnlyOverwriteDestroys ==
  [][\A p \in Path :
       entry[p].state = Complete(p) /\ entry'[p] # entry[p] =>
         /\ p = Out
         /\ \E w \in Writers : /\ mode[w] \in {"overwrite", "prompt"}
                               /\ pc[w] = "rm_begin" /\ pc'[w] # pc[w]]_vars

\* Calls that a run at a label has before it at most, but for repetitions ...
Rank(label) ==
  CASE label \in Gone -> 0
    [] label = "restore_term" -> 1
    [] label = "restore_int" -> 2
    [] label = "exit" -> 3
    [] label \in {"flag", "bailout_flag"} -> 4
    [] label \in {"replace", "bailout_replace"} -> 5
    [] label = "rm_dir" -> 6
    [] label = "rm_files" -> 7
    [] label \in {"rm_begin", "suffix_scan", "bailout_scan"} -> 8
    [] label = "prompt" -> 9
    [] label = "resolve" -> 10
    [] label = "body" -> 11
    [] label = "mkdir" -> 12
    [] label = "gc" -> 13
    [] label = "enter" -> 14
    [] label = "reg_term" -> 15
    [] label = "new" -> 16

\* ... and what is left to do at it: directories to collect, files to write,
\* names to try.
Left(w) ==
  CASE pc[w] = "gc" -> Cardinality(collect[w])
    [] pc[w] = "body" -> CASE staging[w] = "empty" -> 2
                           [] staging[w] = "partial" -> 1
                           [] OTHER -> 0
    [] pc[w] \in {"suffix_scan", "bailout_scan"} -> MaxCounter - target[w].n
    [] OTHER -> 0

Nearer(w) ==
  \/ Rank(pc'[w]) < Rank(pc[w])
  \/ pc'[w] = pc[w] /\ Left(w)' \in 0 .. Left(w) - 1

\* No run goes round in circles: each of its calls, and whatever strikes it,
\* brings it nearer to its end, and nothing that another run, a garbage
\* collection or the clock does takes it back.
CountsDown ==
  [][\A w \in Writers :
       Nearer(w) \/ (~ Run(w) /\ UNCHANGED <<pc[w], Left(w)>>)]_vars

-----------------------------------------------------------------------------
(* Liveness, under FairSpec.                                               *)

\* A run never loops or waits for ever: it ends, or it is asking the user.
Terminates ==
  \A w \in Writers : pc[w] # "prompt" ~> pc[w] \in Gone \cup {"prompt"}

\* A run that starts collecting after a crash left an old staging directory
\* removes it, unless it is itself interrupted first.
OrphanReclaimed ==
  \A v, w \in Writers :
    ("cleanup" \notin Faults /\ v \in aged /\ pc[w] = "enter")
      ~> (staging[v] = "absent" \/ exc[w] # "none" \/ pc[w] = "crashed")

-----------------------------------------------------------------------------
(* Refinement of OutputDir.                                                *)

Shown ==
  [p \in Path |->
     IF entry[p].state \in {"torn", "empty"}
       THEN [state |-> "removing", owner |-> entry[p].owner]
       ELSE entry[p]]

StatusOf(w) ==
  IF pc[w] = "crashed" \/ exc[w] \in {"error", "abort", "signal", "killed"}
    THEN "failed"
  ELSE IF exc[w] = "bailout"
    THEN IF pc[w] = "done" THEN "bailed" ELSE "preserved"
  ELSE IF pc[w] = "bailout_flag" THEN "preserved"
  ELSE IF pc[w] = "done" THEN IF committed[w] THEN "ok" ELSE "failed"
  ELSE IF committed[w] \/ pc[w] = "flag" THEN "published" ELSE "running"

Promise == INSTANCE OutputDir WITH
  ResultPath <- {p \in Path : p.kind # "failed"},
  FailedPath <- {p \in Path : p.kind = "failed"},
  shown <- Shown,
  status <- [w \in Writers |-> StatusOf(w)]

\* The writer does what OutputDir promises to the readers of the directory:
\* its file system calls, flags and exceptions, hidden, are steps of it.
ImplementsOutputDir == Promise!Spec

-----------------------------------------------------------------------------
(* What the documentation says, where the code does something else.        *)

\* atomic_writer.py:129: "on an exception: cleanup (output_dir keeps its
\* previous state)".  A run that fails while it replaces an earlier result
\* leaves a complete directory at output_dir, the old one or the new.
OutputSurvives ==
  \A w \in Writers :
    pc[w] = "done" /\ exc[w] # "none" /\ victim[w] = Before
      => entry[Out].state = "whole"

\* atomic_writer.py:19: within one minute "-2, -3 ... counters are added
\* (upper limit 100)"; 297: OutputExistsAbort "past 100 collisions".  A run
\* that gives up has found every name up to the limit taken.
AbortOnlyPastCap ==
  \A w \in Writers :
    exc[w] = "abort" /\ target[w] # Out =>
      \A n \in 1 .. MaxCounter : Exists([target[w] EXCEPT !.n = n])

\* atomic_writer.py:16: the previous handlers are restored, "also when
\* __enter__ fails".
EnterRestoresHandlers ==
  \A w \in Writers : pc[w] = "done" /\ exc[w] = "signal" => handlers[w] = {}
=============================================================================

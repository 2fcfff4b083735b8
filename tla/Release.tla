------------------------------ MODULE Release ------------------------------
(***************************************************************************)
(* What one command line run promises to whoever called it and to whoever  *)
(* reads the output directory: the requested checks are let through one    *)
(* after the other; a result is shown only when none is missing, and the   *)
(* files of a failed run only when a check has given up; the exit code is  *)
(* about what was shown, and nothing of the run moves after it.  Staging,  *)
(* retries, the steps before the gate and the writer's way through a       *)
(* commit are not visible here.                                            *)
(***************************************************************************)
EXTENDS Integers

VARIABLES
  requested,    \* the checks that the configuration asks for
  passed,       \* what each check answered, once it is let through
  gaveUp,       \* the check whose failure ends the run
  status,       \* how far the run is, as its caller can tell
  shown,        \* what the parent directory shows of the run
  exitCode

Order == <<"validation", "dry_run", "build">>
Missing == {check \in requested : passed[check] = "not_run"}

Answers(check) == IF check = "validation" THEN {"ok", "warn"}
                  ELSE {"ok", "skipped"}

\* The next check: it is missing, those before it are not.
IsDue(check) ==
  /\ check \in Missing
  /\ \A i, j \in 1 .. 3 : i < j /\ Order[j] = check => Order[i] \notin Missing

LetThrough(check) ==
  /\ status = "running" /\ gaveUp = "none"
  /\ IsDue(check)
  /\ \E answer \in Answers(check) :
       passed' = [passed EXCEPT ![check] = answer]
  /\ UNCHANGED <<gaveUp, status, shown, exitCode>>

GiveUp(check) ==
  /\ status = "running" /\ gaveUp = "none"
  /\ IsDue(check)
  /\ gaveUp' = check
  /\ UNCHANGED <<passed, status, shown, exitCode>>

Publish ==
  /\ status = "running" /\ gaveUp = "none"
  /\ Missing = {}
  /\ status' = "published" /\ shown' = "result"
  /\ UNCHANGED <<passed, gaveUp, exitCode>>

Preserve ==
  /\ status = "running" /\ gaveUp # "none"
  /\ status' = "preserved" /\ shown' = "evidence"
  /\ UNCHANGED <<passed, gaveUp, exitCode>>

\* Only another run's overwrite takes something away, and never the evidence.
Overwritten ==
  /\ shown = "result"
  /\ shown' = "nothing"
  /\ UNCHANGED <<passed, gaveUp, status, exitCode>>

Report(before, after) ==
  /\ status = before
  /\ status' = after
  /\ UNCHANGED <<passed, gaveUp, shown, exitCode>>

\* An error, at any moment before something is shown.
Refuse == Report("running", "refused")

\* A signal or a crash, at any moment.
Cut == \E before \in {"running", "published", "preserved", "refused"} :
         Report(before, "cut")

\* Unusable input ends a run before it has begun.
RejectInput ==
  /\ status = "running" /\ passed = [check \in DOMAIN passed |-> "not_run"]
  /\ status' = "refused" /\ exitCode' = 1
  /\ UNCHANGED <<passed, gaveUp, shown>>

Codes ==
  CASE status = "ok" -> {IF passed["validation"] = "warn" THEN 2 ELSE 0}
    [] status \in {"bailed", "refused"} -> {1}
    [] status = "cut" -> {130, 143}
    [] OTHER -> {}

Exit ==
  /\ exitCode' \in Codes
  /\ UNCHANGED <<passed, gaveUp, status, shown>>

Init ==
  /\ requested \in {{"validation", "dry_run"},
                    {"validation", "dry_run", "build"}}
  /\ passed = [check \in {"validation", "dry_run", "build"} |-> "not_run"]
  /\ gaveUp = "none" /\ status = "running" /\ shown = "nothing"
  /\ exitCode = -1

Move ==
  \/ \E check \in requested : LetThrough(check) \/ GiveUp(check)
  \/ Publish \/ Preserve
  \/ Report("published", "ok") \/ Report("preserved", "bailed")
  \/ Refuse \/ Cut \/ RejectInput \/ Exit

Next ==
  /\ Overwritten \/ (exitCode = -1 /\ Move)
  /\ UNCHANGED requested

Spec == Init /\ [][Next]_<<requested, passed, gaveUp, status, shown, exitCode>>
=============================================================================

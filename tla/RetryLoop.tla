------------------------------ MODULE RetryLoop ------------------------------
(***************************************************************************)
(* scripts/_shared/retry.py: retry_with_fix, the loop in which STEP 4 runs *)
(* each of its checks.  An operation is tried, a failure is handed to a    *)
(* fix, and the operation is tried again if the fix was applied.           *)
(*                                                                         *)
(* An operation's outcome is reduced to what the loop and its callers tell *)
(* apart: it satisfies success_predicate ("ok", "warn" for the soft        *)
(* success of exit code 2, "skipped" for a missing tool), it does not      *)
(* ("failed"), it raises ("error"), or the user stops it ("abort").        *)
(***************************************************************************)
EXTENDS Naturals, Sequences

CONSTANTS
  MaxAttempts,  \* max_attempts, 3 in every call
  FixOutcomes   \* what fix_attempt may answer: "applied", "not_applied"

ASSUME AttemptsAssumption == MaxAttempts \in Nat \ {0}
ASSUME FixAssumption == FixOutcomes \subseteq {"applied", "not_applied"}

VARIABLES
  phase,    \* where the loop is
  attempt,  \* attempt_num
  outcome,  \* of the operation tried last
  log,      \* attempts
  verdict   \* of the RetryResult that the loop returned

loopVars == <<phase, attempt, outcome, log, verdict>>

Satisfying == {"ok", "warn", "skipped"}
Failing == {"failed", "error"}
Outcome == Satisfying \cup Failing \cup {"abort"}

RetryAttempt == [outcome : Satisfying \cup Failing,
                 fix : {"none", "applied", "not_applied"}]

TypeOK ==
  /\ phase \in {"idle", "operate", "fix", "returned", "raised"}
  /\ attempt \in 0 .. MaxAttempts
  /\ outcome \in Outcome \cup {"none"}
  /\ log \in Seq(RetryAttempt) /\ Len(log) <= MaxAttempts
  /\ verdict \in {"none", "success", "bailout"}

Init ==
  /\ phase = "idle"
  /\ attempt = 0
  /\ outcome = "none"
  /\ log = <<>>
  /\ verdict = "none"

Record(fix) == log' = Append(log, [outcome |-> outcome', fix |-> fix])

Return(result) == phase' = "returned" /\ verdict' = result

Call ==
  /\ phase \in {"idle", "returned"}
  /\ phase' = "operate"
  /\ attempt' = 1
  /\ outcome' = "none"
  /\ log' = <<>>
  /\ verdict' = "none"

\* Mutants of Operate: the last attempt's failure is handed to the fix as well;
\* the last attempt's result is returned as a success whatever it is.
OperateFixesLast(outcomes) ==
  /\ phase = "operate"
  /\ outcome' \in outcomes
  /\ IF outcome' \in Satisfying
       THEN Record("none") /\ Return("success")
       ELSE phase' = "fix" /\ UNCHANGED <<log, verdict>>
  /\ UNCHANGED attempt

OperateTrustsLast(outcomes) ==
  /\ phase = "operate"
  /\ outcome' \in outcomes
  /\ IF outcome' \in Satisfying \/ attempt = MaxAttempts
       THEN Record("none") /\ Return("success")
       ELSE phase' = "fix" /\ UNCHANGED <<log, verdict>>
  /\ UNCHANGED attempt

\* operation(), then success_predicate, inside the try.
Operate(outcomes) ==
  /\ phase = "operate"
  /\ outcome' \in outcomes
  /\ \/ /\ outcome' \in Satisfying
        /\ Record("none")
        /\ Return("success")
     \/ /\ outcome' \in Failing
        /\ attempt < MaxAttempts
        /\ phase' = "fix"
        /\ UNCHANGED <<log, verdict>>
     \/ /\ outcome' \in Failing
        /\ attempt = MaxAttempts
        /\ Record("none")
        /\ Return("bailout")
     \/ /\ outcome' = "abort"
        /\ phase' = "raised"
        /\ UNCHANGED <<log, verdict>>
  /\ UNCHANGED attempt

\* Mutants of TryFix: another attempt follows a fix that was not applied; the
\* attempt is not counted.
TryFixAnyway ==
  /\ phase = "fix"
  /\ UNCHANGED <<outcome, verdict>>
  /\ \E fix \in FixOutcomes : Record(fix)
  /\ attempt' = attempt + 1
  /\ phase' = "operate"

TryFixUncounted ==
  /\ phase = "fix"
  /\ phase' = "operate"
  /\ UNCHANGED <<attempt, outcome, log, verdict>>

\* fix_attempt(error or result): retry if it was applied, else bail out.
TryFix ==
  /\ phase = "fix"
  /\ UNCHANGED outcome
  /\ \E fix \in FixOutcomes :
       /\ Record(fix)
       /\ \/ /\ fix = "applied"
             /\ attempt' = attempt + 1
             /\ phase' = "operate"
             /\ UNCHANGED verdict
          \/ /\ fix = "not_applied"
             /\ Return("bailout")
             /\ UNCHANGED attempt

Next == Call \/ Operate(Outcome) \/ TryFix

Spec == Init /\ [][Next]_loopVars

-----------------------------------------------------------------------------

Last(attempts) == attempts[Len(attempts)]

\* Nothing is retried unless its failure was followed by a fix that changed
\* something: every attempt but the current one failed and was fixed.
RetriesAreFixed ==
  /\ \A i \in 1 .. Len(log) :
       i < attempt => log[i].outcome \in Failing /\ log[i].fix = "applied"
  /\ phase \in {"operate", "fix", "raised"} => Len(log) = attempt - 1

\* What the loop returns agrees with its last attempt: success if that one
\* succeeded, a bail-out if it failed and was the last one allowed or could
\* not be fixed.  No fix is left unverified when the loop returns.
VerdictIsEarned ==
  phase = "returned" =>
    /\ Len(log) = attempt
    /\ Last(log).outcome = outcome
    /\ \/ /\ verdict = "success"
          /\ outcome \in Satisfying /\ Last(log).fix = "none"
       \/ /\ verdict = "bailout"
          /\ outcome \in Failing
          /\ Last(log).fix = IF attempt = MaxAttempts THEN "none"
                             ELSE "not_applied"

\* Operations and fixes that a call of the loop has before it at most.
Remaining ==
  CASE phase = "operate" -> 2 * (MaxAttempts - attempt) + 2
    [] phase = "fix" -> 2 * (MaxAttempts - attempt) + 1
    [] OTHER -> 0

\* The attempts of a call run out: no outcome and no fix, applied or not, gives
\* it another operation beyond max_attempts.
AttemptsRunOut ==
  [][Remaining > 0 => Remaining' \in 0 .. Remaining - 1]_loopVars
=============================================================================

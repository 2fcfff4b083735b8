--------------------------- MODULE RetryLoop_proofs ---------------------------
(***************************************************************************)
(* Proofs about retry_with_fix for any max_attempts and any fix.           *)
(***************************************************************************)
EXTENDS RetryLoop, TLAPS

\* The loop is at attempt number Len(log) + 1, or has just returned after
\* attempt number Len(log).
LoopInv ==
  /\ phase \in {"operate", "fix", "returned", "raised"} => attempt >= 1
  /\ phase = "idle" => attempt = 0 /\ Len(log) = 0
  /\ phase = "fix" => outcome \in Failing /\ attempt < MaxAttempts
  /\ RetriesAreFixed
  /\ VerdictIsEarned

\* Recording an attempt within the limit keeps the log's type and its past.
LEMMA AppendLog ==
  ASSUME TypeOK, Len(log) < MaxAttempts, NEW record \in RetryAttempt
  PROVE  LET longer == Append(log, record)
         IN  /\ longer \in Seq(RetryAttempt)
             /\ Len(longer) = Len(log) + 1
             /\ Len(longer) <= MaxAttempts
             /\ Last(longer) = record
             /\ \A i \in 1 .. Len(log) : longer[i] = log[i]
  BY AttemptsAssumption DEF TypeOK, Last

\* The invariant holds before the first call.
LEMMA InitLoop == Init => TypeOK /\ LoopInv
  BY AttemptsAssumption
  DEF Init, TypeOK, LoopInv, RetriesAreFixed, VerdictIsEarned

\* Each of the loop's steps preserves it.
LEMMA NextLoop ==
  TypeOK /\ LoopInv /\ [Next]_loopVars => TypeOK' /\ LoopInv'
<1> SUFFICES ASSUME TypeOK, LoopInv, [Next]_loopVars
             PROVE  TypeOK' /\ LoopInv'
  OBVIOUS
<1> USE AttemptsAssumption DEF TypeOK, LoopInv, RetriesAreFixed, VerdictIsEarned
<1>1. CASE Call
  BY <1>1 DEF Call
<1>2. CASE Operate(Outcome)
  <2>1. CASE phase' = "raised"
    BY <1>2, <2>1 DEF Operate, Return, Outcome, Satisfying, Failing
  <2>2. CASE phase' = "fix"
    BY <1>2, <2>2 DEF Operate, Return, Outcome
  <2>3. CASE phase' = "returned"
    <3> DEFINE record == [outcome |-> outcome', fix |-> "none"]
    <3>1. record \in RetryAttempt /\ log' = Append(log, record)
      BY <1>2, <2>3 DEF Operate, Record, RetryAttempt
    <3>2. Len(log) = attempt - 1 /\ Len(log) < MaxAttempts
      BY <1>2 DEF Operate
    <3>3. /\ log' \in Seq(RetryAttempt) /\ Len(log') = attempt
          /\ Last(log') = record
          /\ \A i \in 1 .. Len(log) : log'[i] = log[i]
      BY <3>1, <3>2, AppendLog
    <3> QED BY <1>2, <2>3, <3>2, <3>3 DEF Operate, Return, Outcome, Failing,
               Satisfying
  <2> QED BY <1>2, <2>1, <2>2, <2>3 DEF Operate, Return
<1>3. CASE TryFix
  <2>1. PICK fix \in FixOutcomes :
          /\ Record(fix)
          /\ \/ /\ fix = "applied"
                /\ attempt' = attempt + 1
                /\ phase' = "operate"
                /\ UNCHANGED verdict
             \/ /\ fix = "not_applied"
                /\ Return("bailout")
                /\ UNCHANGED attempt
    BY <1>3 DEF TryFix
  <2> DEFINE record == [outcome |-> outcome, fix |-> fix]
  <2>2. record \in RetryAttempt /\ log' = Append(log, record)
    BY <1>3, <2>1, FixAssumption DEF TryFix, Record, RetryAttempt
  <2>3. Len(log) = attempt - 1 /\ Len(log) < MaxAttempts
    BY <1>3 DEF TryFix
  <2>4. /\ log' \in Seq(RetryAttempt) /\ Len(log') = attempt
        /\ Last(log') = record
        /\ \A i \in 1 .. Len(log) : log'[i] = log[i]
    BY <2>2, <2>3, AppendLog
  <2>5. log'[attempt] = record
    BY <2>4 DEF Last
  <2>6. CASE fix = "applied"
    BY <1>3, <2>1, <2>3, <2>4, <2>5, <2>6 DEF TryFix
  <2>7. CASE fix = "not_applied"
    BY <1>3, <2>1, <2>3, <2>4, <2>5, <2>7 DEF TryFix, Return
  <2> QED BY <2>1, <2>6, <2>7
<1>4. CASE UNCHANGED loopVars
  BY <1>4 DEF loopVars, Last
<1> QED BY <1>1, <1>2, <1>3, <1>4 DEF Next

\* So it holds throughout.
LEMMA LoopInvariant == Spec => [](TypeOK /\ LoopInv)
  BY InitLoop, NextLoop, PTL DEF Spec

\* The loop's variables keep their types; in particular it never starts or
\* records more than max_attempts attempts.
THEOREM LoopTypeCorrect == Spec => []TypeOK
  BY LoopInvariant, PTL

\* No attempt follows a failure that was not fixed.
THEOREM LoopRetriesFixed == Spec => []RetriesAreFixed
<1>1. LoopInv => RetriesAreFixed
  BY DEF LoopInv
<1> QED BY <1>1, LoopInvariant, PTL

\* Success and bail-out are what the last recorded attempt says.
THEOREM LoopVerdictEarned == Spec => []VerdictIsEarned
<1>1. LoopInv => VerdictIsEarned
  BY DEF LoopInv
<1> QED BY <1>1, LoopInvariant, PTL

\* Each operation or fix leaves fewer of them before the call, whatever comes
\* of it; so a call makes at most 2 * max_attempts steps.
THEOREM LoopAttemptsRunOut == Spec => AttemptsRunOut
<1>1. /\ TypeOK /\ LoopInv /\ [Next]_loopVars
      => [Remaining > 0 => Remaining' \in 0 .. Remaining - 1]_loopVars
  <2> SUFFICES ASSUME TypeOK, LoopInv, Next, Remaining > 0
               PROVE  Remaining' \in 0 .. Remaining - 1
    OBVIOUS
  <2> USE AttemptsAssumption DEF TypeOK, LoopInv, Remaining
  <2>1. CASE Call
    BY <2>1 DEF Call
  <2>2. CASE Operate(Outcome)
    <3>1. /\ phase = "operate" /\ attempt' = attempt
          /\ \/ phase' \in {"returned", "raised"}
             \/ phase' = "fix"
      BY <2>2 DEF Operate, Return
    <3> QED BY <3>1
  <2>3. CASE TryFix
    <3>1. /\ phase = "fix"
          /\ \/ phase' = "operate" /\ attempt' = attempt + 1
             \/ phase' = "returned"
      BY <2>3 DEF TryFix, Return
    <3>2. attempt \in 1 .. MaxAttempts - 1
      BY <3>1
    <3> QED BY <3>1, <3>2
  <2> QED BY <2>1, <2>2, <2>3 DEF Next
<1> QED BY <1>1, LoopInvariant, PTL DEF Spec, AttemptsRunOut
=============================================================================

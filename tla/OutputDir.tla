------------------------------ MODULE OutputDir ------------------------------
(***************************************************************************)
(* What AtomicWriter promises to whoever reads the parent directory while  *)
(* runs come and go: results appear whole, under a name that was free or   *)
(* that an overwrite had cleared; each run shows at most one result; and a *)
(* run reports success or a bail-out only after showing it.  Staging       *)
(* directories, signals, flags and retries are not visible here.           *)
(***************************************************************************)
CONSTANTS
  Writers,      \* runs
  NoOne,        \* owner of nothing
  Out,          \* output_dir
  ResultPath,   \* where a result may appear: Out and the suffixed names
  FailedPath    \* where a failed run's files may appear

VARIABLES
  shown,        \* what each path shows
  status        \* how far each run is, as its caller can tell

Nothing == [state |-> "absent", owner |-> NoOne]

\* An overwrite starts to remove a complete output_dir.
BeginOverwrite(w) ==
  /\ status[w] = "running"
  /\ shown[Out].state = "whole"
  /\ shown' = [shown EXCEPT ![Out].state = "removing"]
  /\ UNCHANGED status

EndOverwrite(w) ==
  /\ status[w] = "running"
  /\ shown[Out].state = "removing"
  /\ shown' = [shown EXCEPT ![Out] = Nothing]
  /\ UNCHANGED status

\* A whole result appears in one step.
Publish(w, p) ==
  /\ status[w] = "running"
  /\ shown[p].state = "absent" \/ (p = Out /\ shown[p].state = "removing")
  /\ shown' = [shown EXCEPT ![p] = [state |-> "whole", owner |-> w]]
  /\ status' = [status EXCEPT ![w] = "published"]

\* So do the files of a run that bails out, under a name of their own.
Preserve(w, p) ==
  /\ status[w] = "running"
  /\ shown[p].state = "absent"
  /\ shown' = [shown EXCEPT ![p] = [state |-> "evidence", owner |-> w]]
  /\ status' = [status EXCEPT ![w] = "preserved"]

Succeed(w) ==
  /\ status[w] = "published"
  /\ status' = [status EXCEPT ![w] = "ok"]
  /\ UNCHANGED shown

ReportBailOut(w) ==
  /\ status[w] = "preserved"
  /\ status' = [status EXCEPT ![w] = "bailed"]
  /\ UNCHANGED shown

\* An error, a cancellation, a signal or a crash, at any moment.
Fail(w) ==
  /\ status[w] \in {"running", "published", "preserved"}
  /\ status' = [status EXCEPT ![w] = "failed"]
  /\ UNCHANGED shown

Init ==
  /\ status = [w \in Writers |-> "running"]
  /\ \A p \in ResultPath : shown[p].state \in {"absent", "whole"}
  /\ \A p \in FailedPath : shown[p].state \in {"absent", "evidence"}

Next ==
  \E w \in Writers :
    \/ BeginOverwrite(w) \/ EndOverwrite(w)
    \/ \E p \in ResultPath : Publish(w, p)
    \/ \E p \in FailedPath : Preserve(w, p)
    \/ Succeed(w) \/ ReportBailOut(w) \/ Fail(w)

Spec == Init /\ [][Next]_<<shown, status>>
=============================================================================

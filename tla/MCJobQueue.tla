----------------------------- MODULE MCJobQueue -----------------------------
(***************************************************************************)
(* Instances of JobQueue for TLC: the budgets of the runs, and symmetry.   *)
(***************************************************************************)
EXTENDS JobQueue, TLC

Quiet == [k \in BudgetKinds |-> 0]
Once(kinds) == [k \in BudgetKinds |-> IF k \in kinds THEN 1 ELSE 0]
TwoEnqueues(kinds) == [Once(kinds) EXCEPT !["enqueue"] = 2]

\* Everything the properties are not expected to survive is left at zero; the
\* README says which event breaks what.  First what is lost, late, pruned or
\* taken over without a cancel, then cancels with nothing lost or pruned.
RecordBudgets ==
    {TwoEnqueues({"repeat", "cleanup", "fault", "dbFault"}),
     TwoEnqueues({"repeat", "dbFault", "lockLoss"}),
     TwoEnqueues({"cancel", "crash", "clientCrash", "lockLoss"}),
     [Quiet EXCEPT !["enqueue"] = 2, !["cancel"] = 2]}

SettleBudgets    == {TwoEnqueues({"repeat", "fault", "crash"})}

\* The violated runs: just enough for what they show.
RetryBudgets     == {TwoEnqueues({"cancel", "repeat", "clientCrash"})}
ReenqueueBudgets == {TwoEnqueues({})}
CleanupBudgets   == {TwoEnqueues({"cleanup"})}
OneCancelBudgets == {Once({"enqueue", "cancel"})}
OneFaultBudgets  == {Once({"enqueue", "fault"})}
OneCrashBudgets  == {Once({"enqueue", "crash"})}
TwoCrashBudgets  == {[Quiet EXCEPT !["enqueue"] = 1, !["crash"] = 2]}

\* One client has no broker, so the clients are not interchangeable.
SlotSymmetry == Permutations(Workers) \cup Permutations(Rows)
Symmetry == SlotSymmetry \cup Permutations(Clients)
=============================================================================

-------------------------- MODULE MCActionLifecycle --------------------------
(***************************************************************************)
(* Budgets of the runs of ActionLifecycle, and their symmetry.             *)
(***************************************************************************)
EXTENDS ActionLifecycle, TLC

None == [k \in BudgetKinds |-> 0]
Once(kinds) == [k \in BudgetKinds |-> IF k \in kinds THEN 1 ELSE 0]

\* Consent given or refused: a repeated run, a stall and a write that is
\* misreported; a page that is not read, a broker that is away.
ConsentBudgets ==
    {Once({"approve", "decide", "execute", "retry", "stall", "land"}),
     Once({"approve", "decide", "execute", "fault", "unread"})}

\* Runs of an adapter that cannot read, to their end; a rejection, and what
\* might get past it; a run that fails halfway.
EndsBudgets ==
    {Once({"execute", "bulk", "reject", "stall", "settings", "clientCrash"}),
     Once({"approve", "decide", "execute", "reject"}),
     Once({"approve", "execute", "break", "stall"})}

\* The violated runs: just enough for what they show.
DryBudgets    == {Once({"execute"})}
AskBudgets    == {[None EXCEPT !["execute"] = 2]}
QueueBudgets  == {Once({"execute", "decide"})}
DecideBudgets == {[None EXCEPT !["execute"] = 2, !["decide"] = 1]}
RaceBudgets   == {Once({"decide", "reject"})}
TwoBudgets    == {[None EXCEPT !["decide"] = 2]}
StallBudgets  == {Once({"execute", "stall"})}

Symmetry == Permutations(Clients) \cup Permutations(Approvals)
            \cup Permutations(Runners)
=============================================================================

----------------------- MODULE ActionLifecycleProofs -----------------------
(***************************************************************************)
(* What holds of ActionLifecycle for every set of approvals, jobs, clients *)
(* and runners, every adapter and risk band, and every budget.             *)
(***************************************************************************)
EXTENDS ActionLifecycle, TLAPS

ClientPcs ==
    {"idle", "approve", "reject", "decline", "consent", "askCreate",
     "askStatus", "enqueue", "markQueued"}

RunnerPcs ==
    {"idle", "action", "approval", "askCheck", "askCreate", "askStatus",
     "executing", "inspect", "write", "result", "failed", "noChange", "log",
     "experiment", "complete", "settle"}

ApprovalStatuses == {"unborn", "PENDING", "APPROVED", "REJECTED"}

(***************************************************************************)
(* The helpers keep the shape of what they write.                          *)
(***************************************************************************)

\* Spending leaves every budget a natural number.
LEMMA ActionSpendTyped ==
    ASSUME TypeOK, NEW k \in BudgetKinds, Spend(k)
    PROVE  budget' \in [BudgetKinds -> Nat]
<1>1. budget[k] \in Nat /\ budget[k] > 0
    BY DEF TypeOK, Spend
<1>2. budget[k] - 1 \in Nat
    BY <1>1
<1> QED
    BY <1>2 DEF TypeOK, Spend

LEMMA SetStatusTyped ==
    ASSUME TypeOK, NEW s \in Statuses, SetStatus(s)
    PROVE  action' \in [status : Statuses, approved : BOOLEAN]
BY DEF TypeOK, SetStatus

LEMMA NewApprovalTyped ==
    ASSUME TypeOK, NewApproval
    PROVE  approval' \in [Approvals -> ApprovalStatuses]
BY DEF TypeOK, NewApproval, ApprovalStatuses

LEMMA IdleTyped ==
    /\ IdleClient \in ClientRecords /\ IdleClient.pc = "idle"
    /\ IdleRunner \in RunnerRecords /\ IdleRunner.pc = "idle"
    /\ ~IdleRunner.guard
    /\ AbsentJob \in JobRecords
BY DEF IdleClient, ClientRecords, IdleRunner, RunnerRecords, Statuses,
       AbsentJob, JobRecords

LEMMA QueuedJobTyped ==
    ASSUME NEW a \in Approvals \cup {NoApproval}, NEW dry \in BOOLEAN
    PROVE  QueuedJob(a, dry) \in JobRecords
BY DEF QueuedJob, AbsentJob, JobRecords

\* A client that only moves on keeps its record; nobody else is touched.
LEMMA GoClientMoves ==
    ASSUME TypeOK, NEW c \in Clients, NEW pc \in ClientPcs, GoClient(c, pc)
    PROVE  /\ client' \in [Clients -> ClientRecords]
           /\ client'[c] = [client[c] EXCEPT !.pc = pc]
           /\ client'[c].pc = pc
           /\ \A d \in Clients : d # c => client'[d] = client[d]
<1>1. client[c] \in ClientRecords
    BY DEF TypeOK
<1>2. [client[c] EXCEPT !.pc = pc] \in ClientRecords
    BY <1>1 DEF ClientRecords, ClientPcs
<1>3. [client[c] EXCEPT !.pc = pc].pc = pc
    BY <1>1 DEF ClientRecords
<1> QED
    BY <1>2, <1>3 DEF GoClient, TypeOK

LEMMA GoRunnerMoves ==
    ASSUME TypeOK, NEW w \in Runners, NEW pc \in RunnerPcs, GoRunner(w, pc)
    PROVE  /\ runner' \in [Runners -> RunnerRecords]
           /\ runner'[w] = [runner[w] EXCEPT !.pc = pc]
           /\ runner'[w].pc = pc
           /\ \A v \in Runners : v # w => runner'[v] = runner[v]
<1>1. runner[w] \in RunnerRecords
    BY DEF TypeOK
<1>2. [runner[w] EXCEPT !.pc = pc] \in RunnerRecords
    BY <1>1 DEF RunnerRecords, RunnerPcs
<1>3. [runner[w] EXCEPT !.pc = pc].pc = pc
    BY <1>1 DEF RunnerRecords
<1> QED
    BY <1>2, <1>3 DEF GoRunner, TypeOK

(***************************************************************************)
(* Type correctness, one step per action.  A slot that is busy names its   *)
(* job, or Stall and Settle could write outside the jobs.                  *)
(***************************************************************************)

JobNamed == \A w \in Runners : runner[w].pc # "idle" => runner[w].job \in Jobs

Typed == TypeOK /\ JobNamed

LEMMA InitTyped == Init => Typed
<1> SUFFICES ASSUME Init PROVE Typed
    OBVIOUS
<1>1. action \in [status : Statuses, approved : BOOLEAN]
  <2>1. \E s \in {"PROPOSED", "QUEUED", "AWAITING_APPROVAL"} :
            action = [status |-> s, approved |-> FALSE]
      BY DEF Init
  <2> QED
      BY <2>1 DEF Statuses
<1>2. approval \in [Approvals -> ApprovalStatuses]
    BY DEF Init, ApprovalStatuses
<1>3. trail \in [changeLog : BOOLEAN, experiment : BOOLEAN,
                 rollback : SUBSET {RollbackData}]
    BY DEF Init
<1>4. site \in [same : BOOLEAN, writes : Nat]
    BY DEF Init
<1>5. /\ job \in [Jobs -> JobRecords]
      /\ client \in [Clients -> ClientRecords]
      /\ runner \in [Runners -> RunnerRecords]
      /\ \A w \in Runners : runner[w].pc = "idle"
    BY IdleTyped DEF Init
<1> QED
    BY <1>1, <1>2, <1>3, <1>4, <1>5, ActionBudgetAssumption
       DEF Init, Typed, TypeOK, JobNamed, ApprovalStatuses

\* What the requests do: no slot moves.
ClientCall(c) ==
    \/ ReadToApprove(c) \/ ReadToReject(c) \/ ReadToBulkApprove(c)
    \/ \E a \in Approvals : ReadToDecide(c, a)
    \/ \E dry \in BOOLEAN : ReadToExecute(c, dry)
    \/ ClientCrash(c)

LEMMA ClientCallTyped ==
    ASSUME Typed, NEW c \in Clients, ClientCall(c)
    PROVE  TypeOK'
<1>0. TypeOK
    BY DEF Typed
<1>1. CASE ReadToApprove(c)
  <2>1. client' \in [Clients -> ClientRecords]
      BY <1>0, <1>1, GoClientMoves DEF ReadToApprove, ClientPcs
  <2>2. budget' \in [BudgetKinds -> Nat]
      BY <1>0, <1>1, ActionSpendTyped DEF ReadToApprove, BudgetKinds
  <2> QED
      BY <1>0, <1>1, <2>1, <2>2 DEF ReadToApprove, TypeOK
<1>2. CASE ReadToReject(c)
  <2>1. client' \in [Clients -> ClientRecords]
      BY <1>0, <1>2, GoClientMoves DEF ReadToReject, ClientPcs
  <2>2. budget' \in [BudgetKinds -> Nat]
      BY <1>0, <1>2, ActionSpendTyped DEF ReadToReject, BudgetKinds
  <2> QED
      BY <1>0, <1>2, <2>1, <2>2 DEF ReadToReject, TypeOK
<1>3. CASE ReadToBulkApprove(c)
  <2>1. PICK batch \in SUBSET With("PENDING") \ {{}} :
            client' = [client EXCEPT ![c] =
                [pc |-> "consent", todo |-> batch, mark |-> "ifEnqueued"]]
      BY <1>3 DEF ReadToBulkApprove
  <2>2. [pc |-> "consent", todo |-> batch, mark |-> "ifEnqueued"]
            \in ClientRecords
      BY DEF ClientRecords, With
  <2>3. budget' \in [BudgetKinds -> Nat]
      BY <1>0, <1>3, ActionSpendTyped DEF ReadToBulkApprove, BudgetKinds
  <2> QED
      BY <1>0, <1>3, <2>1, <2>2, <2>3 DEF ReadToBulkApprove, TypeOK
<1>4. ASSUME NEW a \in Approvals, ReadToDecide(c, a) PROVE TypeOK'
  <2>1. PICK pc \in {"consent", "decline"} :
            client' = [client EXCEPT ![c] =
                [pc |-> pc, todo |-> {a}, mark |-> "ifEnqueued"]]
      BY <1>4 DEF ReadToDecide
  <2>2. [pc |-> pc, todo |-> {a}, mark |-> "ifEnqueued"] \in ClientRecords
      BY DEF ClientRecords
  <2>3. budget' \in [BudgetKinds -> Nat]
      BY <1>0, <1>4, ActionSpendTyped DEF ReadToDecide, BudgetKinds
  <2> QED
      BY <1>0, <1>4, <2>1, <2>2, <2>3 DEF ReadToDecide, TypeOK
<1>5. ASSUME NEW dry \in BOOLEAN, ReadToExecute(c, dry) PROVE TypeOK'
  <2>1. budget' \in [BudgetKinds -> Nat]
      BY <1>0, <1>5, ActionSpendTyped DEF ReadToExecute, BudgetKinds
  <2>2. CASE GoClient(c, "askCreate")
    <3>1. client' \in [Clients -> ClientRecords]
        BY <1>0, <2>2, GoClientMoves DEF ClientPcs
    <3> QED
        BY <1>0, <1>5, <2>1, <3>1 DEF ReadToExecute, TypeOK
  <2>3. CASE \E a \in IF With("APPROVED") = {} THEN {NoApproval}
                      ELSE With("APPROVED") :
                client' = [client EXCEPT ![c] =
                              [pc |-> "enqueue", todo |-> {a},
                               mark |-> IF dry THEN "never" ELSE "always"]]
    <3>1. PICK a \in Approvals \cup {NoApproval} :
                client' = [client EXCEPT ![c] =
                              [pc |-> "enqueue", todo |-> {a},
                               mark |-> IF dry THEN "never" ELSE "always"]]
        BY <2>3 DEF With
    <3>2. [pc |-> "enqueue", todo |-> {a},
           mark |-> IF dry THEN "never" ELSE "always"] \in ClientRecords
        BY DEF ClientRecords
    <3> QED
        BY <1>0, <1>5, <2>1, <3>1, <3>2 DEF ReadToExecute, TypeOK
  <2> QED
      BY <1>5, <2>2, <2>3 DEF ReadToExecute
<1>6. CASE ClientCrash(c)
  <2>1. budget' \in [BudgetKinds -> Nat]
      BY <1>0, <1>6, ActionSpendTyped DEF ClientCrash, BudgetKinds
  <2> QED
      BY <1>0, <1>6, <2>1, IdleTyped DEF ClientCrash, TypeOK
<1> QED
    BY <1>1, <1>2, <1>3, <1>4, <1>5, <1>6 DEF ClientCall

LEMMA ClientStepTyped ==
    ASSUME Typed, NEW c \in Clients, ClientStep(c)
    PROVE  TypeOK'
<1>0. TypeOK
    BY DEF Typed
<1>1. CASE Approve(c)
  <2>1. action' \in [status : Statuses, approved : BOOLEAN]
      BY <1>1 DEF Approve, Statuses
  <2>2. approval' \in [Approvals -> ApprovalStatuses]
      BY <1>0, <1>1 DEF Approve, TypeOK, ApprovalStatuses
  <2>3. consent' \in SUBSET Approvals /\ declined' \in BOOLEAN
      BY <1>0, <1>1 DEF Approve, TypeOK, With
  <2> QED
      BY <1>0, <1>1, <2>1, <2>2, <2>3, IdleTyped
         DEF Approve, TypeOK, ApprovalStatuses
<1>2. CASE Reject(c)
  <2>1. action' \in [status : Statuses, approved : BOOLEAN]
      BY <1>2 DEF Reject, Statuses
  <2>2. approval' \in [Approvals -> ApprovalStatuses]
      BY <1>0, <1>2 DEF Reject, TypeOK, ApprovalStatuses
  <2>3. declined' \in BOOLEAN
      BY <1>2 DEF Reject
  <2> QED
      BY <1>0, <1>2, <2>1, <2>2, <2>3, IdleTyped
         DEF Reject, TypeOK, ApprovalStatuses
<1>3. CASE Decline(c)
  <2>1. action' \in [status : Statuses, approved : BOOLEAN]
      BY <1>0, <1>3, SetStatusTyped DEF Decline, Statuses
  <2>2. approval' \in [Approvals -> ApprovalStatuses]
      BY <1>0, <1>3 DEF Decline, TypeOK, ApprovalStatuses
  <2>3. declined' \in BOOLEAN
      BY <1>3 DEF Decline
  <2> QED
      BY <1>0, <1>3, <2>1, <2>2, <2>3, IdleTyped
         DEF Decline, TypeOK, ApprovalStatuses
<1>4. CASE Consent(c)
  <2>1. action' \in [status : Statuses, approved : BOOLEAN]
      BY <1>4 DEF Consent, Statuses
  <2>2. approval' \in [Approvals -> ApprovalStatuses]
      BY <1>0, <1>4 DEF Consent, TypeOK, ApprovalStatuses
  <2>3. consent' \in SUBSET Approvals /\ declined' \in BOOLEAN
      BY <1>0, <1>4 DEF Consent, TypeOK
  <2>4. client' \in [Clients -> ClientRecords]
      BY <1>0, <1>4, GoClientMoves DEF Consent, ClientPcs
  <2> QED
      BY <1>0, <1>4, <2>1, <2>2, <2>3, <2>4
         DEF Consent, TypeOK, ApprovalStatuses
<1>5. CASE AskCreate(c)
  <2>1. client' \in [Clients -> ClientRecords]
      BY <1>0, <1>5, GoClientMoves DEF AskCreate, ClientPcs
  <2> QED
      BY <1>0, <1>5, <2>1, NewApprovalTyped
         DEF AskCreate, TypeOK, ApprovalStatuses
<1>6. CASE AskStatus(c)
  <2>1. action' \in [status : Statuses, approved : BOOLEAN]
      BY <1>0, <1>6, SetStatusTyped DEF AskStatus, Statuses
  <2> QED
      BY <1>0, <1>6, <2>1, IdleTyped DEF AskStatus, TypeOK
<1>7. CASE MarkQueued(c)
  <2>1. action' \in [status : Statuses, approved : BOOLEAN]
      BY <1>0, <1>7, SetStatusTyped DEF MarkQueued, Statuses
  <2>2. [client[c] EXCEPT !.pc = "enqueue"] \in ClientRecords
      BY <1>0 DEF TypeOK, ClientRecords
  <2> QED
      BY <1>0, <1>7, <2>1, <2>2, IdleTyped DEF MarkQueued, TypeOK
<1>8. ASSUME NEW a \in Approvals \cup {NoApproval}, Enqueue(c, a)
      PROVE  TypeOK'
  <2> DEFINE rest == client[c].todo \ {a}
  <2>1. /\ [client[c] EXCEPT !.pc = "markQueued", !.todo = rest]
               \in ClientRecords
        /\ [client[c] EXCEPT !.todo = rest] \in ClientRecords
    <3>1. client[c] \in ClientRecords
        BY <1>0 DEF TypeOK
    <3>2. rest \in SUBSET (Approvals \cup {NoApproval})
        BY <3>1 DEF ClientRecords
    <3> HIDE DEF rest
    <3> QED
        BY <3>1, <3>2 DEF ClientRecords
  <2>2. client' \in [Clients -> ClientRecords]
      BY <1>0, <1>8, <2>1, IdleTyped DEF Enqueue, TypeOK
  <2>3. job' \in [Jobs -> JobRecords]
    <3>1. CASE UNCHANGED job
        BY <1>0, <3>1 DEF TypeOK
    <3>2. CASE job' = [job EXCEPT ![KeyedJob] =
                          QueuedJob(a, client[c].mark = "never")]
        BY <1>0, <3>2, QueuedJobTyped DEF TypeOK
    <3>3. CASE job' = [job EXCEPT ![KeyedJob].state = "lost"]
      <4>1. job[KeyedJob] \in JobRecords
          BY <1>0, KeyedAssumption DEF TypeOK
      <4>2. [job[KeyedJob] EXCEPT !.state = "lost"] \in JobRecords
          BY <4>1 DEF JobRecords
      <4> QED
          BY <1>0, <3>3, <4>2 DEF TypeOK
    <3> QED
        BY <1>8, <3>1, <3>2, <3>3 DEF Enqueue
  <2>4. budget' \in [BudgetKinds -> Nat]
    <3>1. UNCHANGED budget \/ Spend("fault")
        BY <1>8 DEF Enqueue
    <3> QED
        BY <1>0, <3>1, ActionSpendTyped DEF TypeOK, BudgetKinds
  <2>5. UNCHANGED <<action, approval, permitted, runner, site, trail,
                    consent, declined, broken>>
      BY <1>8 DEF Enqueue
  <2> QED
      BY <1>0, <2>2, <2>3, <2>4, <2>5 DEF TypeOK
<1> QED
    BY <1>1, <1>2, <1>3, <1>4, <1>5, <1>6, <1>7, <1>8 DEF ClientStep

LEMMA RunnerStepTyped ==
    ASSUME Typed, NEW w \in Runners, RunnerStep(w)
    PROVE  TypeOK'
<1>0. TypeOK /\ runner[w] \in RunnerRecords
    BY DEF Typed, TypeOK
<1> DEFINE Moved == runner' \in [Runners -> RunnerRecords]
           Set   == action' \in [status : Statuses, approved : BOOLEAN]
<1>1. CASE ReadAction(w)
  <2>1. \A pc \in {"settle", "approval"} :
            [runner[w] EXCEPT !.pc = pc, !.seen = action.status]
                \in RunnerRecords
      BY <1>0 DEF TypeOK, RunnerRecords
  <2>2. Moved
      BY <1>0, <1>1, <2>1 DEF ReadAction, TypeOK
  <2> QED
      BY <1>0, <1>1, <2>2 DEF ReadAction, TypeOK
<1>2. CASE CheckApproval(w)
  <2>1. \A pc \in {"askCheck", "inspect", "executing"}, b \in BOOLEAN :
            [runner[w] EXCEPT !.pc = pc, !.approver = b] \in RunnerRecords
      BY <1>0 DEF RunnerRecords
  <2>2. PICK pc \in {"askCheck", "inspect", "executing"}, b \in BOOLEAN :
            runner' = [runner EXCEPT ![w].pc = pc, ![w].approver = b]
      BY <1>2 DEF CheckApproval, HasApproval
  <2>3. [runner[w] EXCEPT !.pc = pc, !.approver = b] \in RunnerRecords
      BY <2>1
  <2>4. Moved
      BY <1>0, <2>2, <2>3 DEF TypeOK
  <2> QED
      BY <1>0, <1>2, <2>4 DEF CheckApproval, TypeOK
<1>3. CASE ParkCheck(w)
  <2>1. Moved
      BY <1>0, <1>3, GoRunnerMoves DEF ParkCheck, RunnerPcs
  <2> QED
      BY <1>0, <1>3, <2>1 DEF ParkCheck, TypeOK
<1>4. CASE ParkCreate(w)
  <2>1. Moved
      BY <1>0, <1>4, GoRunnerMoves DEF ParkCreate, RunnerPcs
  <2> QED
      BY <1>0, <1>4, <2>1, NewApprovalTyped
         DEF ParkCreate, TypeOK, ApprovalStatuses
<1>5. CASE ParkStatus(w)
  <2>1. Moved
      BY <1>0, <1>5, GoRunnerMoves DEF ParkStatus, RunnerPcs
  <2>2. Set
      BY <1>0, <1>5, SetStatusTyped DEF ParkStatus, Statuses
  <2> QED
      BY <1>0, <1>5, <2>1, <2>2 DEF ParkStatus, TypeOK
<1>6. CASE MarkExecuting(w)
  <2>1. Moved
      BY <1>0, <1>6, GoRunnerMoves DEF MarkExecuting, RunnerPcs
  <2>2. Set
      BY <1>0, <1>6, SetStatusTyped DEF MarkExecuting, Statuses
  <2> QED
      BY <1>0, <1>6, <2>1, <2>2 DEF MarkExecuting, TypeOK
<1>7. CASE Inspect(w)
  <2>1. budget' \in [BudgetKinds -> Nat]
    <3>1. UNCHANGED budget \/ Spend("unread")
        BY <1>7 DEF Inspect
    <3> QED
        BY <1>0, <3>1, ActionSpendTyped DEF TypeOK, BudgetKinds
  <2>2. CASE GoRunner(w, "write")
    <3>1. Moved
        BY <1>0, <2>2, GoRunnerMoves DEF RunnerPcs
    <3> QED
        BY <1>0, <1>7, <2>1, <3>1 DEF Inspect, TypeOK
  <2>3. CASE \E o \in {"fail", "noChange", "ok"} :
                runner' = [runner EXCEPT ![w].pc = "result",
                                         ![w].outcome = o]
    <3> PICK o \in {"fail", "noChange", "ok"} :
                runner' = [runner EXCEPT ![w].pc = "result",
                                         ![w].outcome = o]
        BY <2>3
    <3>1. [runner[w] EXCEPT !.pc = "result", !.outcome = o] \in RunnerRecords
        BY <1>0 DEF RunnerRecords
    <3>2. Moved
        BY <1>0, <3>1 DEF TypeOK
    <3> QED
        BY <1>0, <1>7, <2>1, <3>2 DEF Inspect, TypeOK
  <2> QED
      BY <1>7, <2>2, <2>3 DEF Inspect
<1>8. CASE Write(w)
  <2>1. \A o \in {"fail", "ok"} :
            [runner[w] EXCEPT !.pc = "result", !.outcome = o]
                \in RunnerRecords
      BY <1>0 DEF RunnerRecords
  <2>2. PICK o \in {"fail", "ok"} :
            runner' = [runner EXCEPT ![w].pc = "result", ![w].outcome = o]
      BY <1>8 DEF Write
  <2>3. Moved
    <3>1. [runner[w] EXCEPT !.pc = "result", !.outcome = o] \in RunnerRecords
        BY <2>1
    <3> QED
        BY <1>0, <2>2, <3>1 DEF TypeOK
  <2>4. site' \in [same : BOOLEAN, writes : Nat]
    <3>1. site.writes + 1 \in Nat
        BY <1>0 DEF TypeOK
    <3>2. site' = [same |-> TRUE, writes |-> site.writes + 1] \/ site' = site
        BY <1>8 DEF Write
    <3>3. [same |-> TRUE, writes |-> site.writes + 1]
              \in [same : BOOLEAN, writes : Nat]
        BY <3>1
    <3>4. site \in [same : BOOLEAN, writes : Nat]
        BY <1>0 DEF TypeOK
    <3> QED
        BY <3>2, <3>3, <3>4
  <2>5. budget' \in [BudgetKinds -> Nat]
    <3>1. UNCHANGED budget \/ Spend("land")
        BY <1>8 DEF Write
    <3> QED
        BY <1>0, <3>1, ActionSpendTyped DEF TypeOK, BudgetKinds
  <2> QED
      BY <1>0, <1>8, <2>3, <2>4, <2>5 DEF Write, TypeOK
<1>9. CASE RecordResult(w)
  <2>1. Moved
      BY <1>0, <1>9, GoRunnerMoves DEF RecordResult, RunnerPcs
  <2>2. trail' \in [changeLog : BOOLEAN, experiment : BOOLEAN,
                    rollback : SUBSET {RollbackData}]
      BY <1>0, <1>9 DEF RecordResult, TypeOK
  <2> QED
      BY <1>0, <1>9, <2>1, <2>2 DEF RecordResult, TypeOK
<1>10. CASE WriteFailed(w)
  <2>1. Moved
      BY <1>0, <1>10, GoRunnerMoves DEF WriteFailed, RunnerPcs
  <2>2. runner[w].seen \in Statuses /\ "FAILED" \in Statuses
      BY <1>0 DEF RunnerRecords, Statuses
  <2>3. Set
      BY <1>0, <1>10, <2>2, SetStatusTyped DEF WriteFailed
  <2> QED
      BY <1>0, <1>10, <2>1, <2>3 DEF WriteFailed, TypeOK
<1>11. CASE WriteNoChange(w)
  <2>1. Moved
      BY <1>0, <1>11, GoRunnerMoves DEF WriteNoChange, RunnerPcs
  <2>2. Set
      BY <1>0, <1>11, SetStatusTyped DEF WriteNoChange, Statuses
  <2> QED
      BY <1>0, <1>11, <2>1, <2>2 DEF WriteNoChange, TypeOK
<1>12. CASE WriteLog(w)
  <2>1. Moved
      BY <1>0, <1>12, GoRunnerMoves DEF WriteLog, RunnerPcs
  <2>2. trail' \in [changeLog : BOOLEAN, experiment : BOOLEAN,
                    rollback : SUBSET {RollbackData}]
      BY <1>0, <1>12 DEF WriteLog, TypeOK
  <2> QED
      BY <1>0, <1>12, <2>1, <2>2 DEF WriteLog, TypeOK
<1>13. CASE WriteExperiment(w)
  <2>1. Moved
      BY <1>0, <1>13, GoRunnerMoves DEF WriteExperiment, RunnerPcs
  <2>2. trail' \in [changeLog : BOOLEAN, experiment : BOOLEAN,
                    rollback : SUBSET {RollbackData}]
      BY <1>0, <1>13 DEF WriteExperiment, TypeOK
  <2> QED
      BY <1>0, <1>13, <2>1, <2>2 DEF WriteExperiment, TypeOK
<1>14. CASE Complete(w)
  <2>1. Moved
      BY <1>0, <1>14, GoRunnerMoves DEF Complete, RunnerPcs
  <2>2. Set
      BY <1>0, <1>14, SetStatusTyped DEF Complete, Statuses
  <2> QED
      BY <1>0, <1>14, <2>1, <2>2 DEF Complete, TypeOK
<1>15. CASE Settle(w)
  <2>1. ASSUME NEW j \in Jobs
        PROVE  [job[j] EXCEPT !.state = "done", !.owner = NoRunner]
                   \in JobRecords
    <3>1. job[j] \in JobRecords
        BY <1>0 DEF TypeOK
    <3> QED
        BY <3>1 DEF JobRecords
  <2>2. job' \in [Jobs -> JobRecords]
      BY <1>0, <1>15, <2>1 DEF Settle, EndRun, TypeOK
  <2> QED
      BY <1>0, <1>15, <2>2, IdleTyped DEF Settle, EndRun, TypeOK
<1> QED
    BY <1>1, <1>2, <1>3, <1>4, <1>5, <1>6, <1>7, <1>8, <1>9, <1>10, <1>11,
       <1>12, <1>13, <1>14, <1>15 DEF RunnerStep

LEMMA TakeTyped ==
    ASSUME Typed, NEW w \in Runners, NEW j \in Jobs, Take(w, j)
    PROVE  TypeOK'
<1>0. TypeOK /\ job[j] \in JobRecords
    BY DEF Typed, TypeOK
<1>1. [job[j] EXCEPT !.state = "running", !.owner = w] \in JobRecords
    BY <1>0 DEF JobRecords
<1>2. job' \in [Jobs -> JobRecords]
    BY <1>0, <1>1 DEF Take, TypeOK
<1>3. CanAutoExecute \in BOOLEAN
    BY <1>0 DEF CanAutoExecute, TypeOK
<1>4. [IdleRunner EXCEPT !.pc = "action", !.job = j, !.appr = job[j].appr,
                         !.dry = job[j].dry, !.guard = CanAutoExecute]
          \in RunnerRecords
    BY <1>0, <1>3 DEF IdleRunner, RunnerRecords, JobRecords, Statuses
<1>5. runner' \in [Runners -> RunnerRecords]
    BY <1>0, <1>4 DEF Take, TypeOK
<1> QED
    BY <1>0, <1>2, <1>5 DEF Take, TypeOK

LEMMA StallTyped ==
    ASSUME Typed, NEW w \in Runners, Stall(w)
    PROVE  TypeOK'
<1>0. TypeOK
    BY DEF Typed
<1> DEFINE j == runner[w].job
<1>1. j \in Jobs /\ job[j] \in JobRecords
    BY DEF Typed, JobNamed, Stall, TypeOK
<1>2. \A s \in {"lost", "queued"} :
          [job[j] EXCEPT !.state = s, !.owner = NoRunner, !.stalled = TRUE]
              \in JobRecords
    BY <1>1 DEF JobRecords
<1>3. PICK s \in {"lost", "queued"} :
          job' = [job EXCEPT ![j] = [job[j] EXCEPT !.state = s,
                                     !.owner = NoRunner, !.stalled = TRUE]]
    BY DEF Stall
<1>4. job' \in [Jobs -> JobRecords]
    BY <1>0, <1>1, <1>2, <1>3 DEF TypeOK
<1>5. budget' \in [BudgetKinds -> Nat]
    BY <1>0, ActionSpendTyped DEF Stall, BudgetKinds
<1>6. runner' \in [Runners -> RunnerRecords]
    BY <1>0, IdleTyped DEF Stall, TypeOK
<1> QED
    BY <1>0, <1>4, <1>5, <1>6 DEF Stall, TypeOK

\* A run that ends gives its job back, if it still holds it.
LEMMA EndRunTyped ==
    ASSUME TypeOK, NEW w \in Runners, EndRun(w)
    PROVE  /\ job' \in [Jobs -> JobRecords]
           /\ runner' \in [Runners -> RunnerRecords]
<1>1. ASSUME NEW j \in Jobs
      PROVE  [job[j] EXCEPT !.state = "done", !.owner = NoRunner]
                 \in JobRecords
  <2>1. job[j] \in JobRecords
      BY DEF TypeOK
  <2> QED
      BY <2>1 DEF JobRecords
<1> QED
    BY <1>1, IdleTyped DEF EndRun, TypeOK

LEMMA BreaksTyped ==
    ASSUME Typed, NEW w \in Runners, Breaks(w)
    PROVE  TypeOK'
<1>1. TypeOK
    BY DEF Typed
<1>2. budget' \in [BudgetKinds -> Nat]
    BY <1>1, ActionSpendTyped DEF Breaks, BudgetKinds
<1>3. job' \in [Jobs -> JobRecords] /\ runner' \in [Runners -> RunnerRecords]
    BY <1>1, EndRunTyped DEF Breaks
<1> QED
    BY <1>1, <1>2, <1>3 DEF Breaks, TypeOK

LEMMA RetryJobTyped ==
    ASSUME Typed, NEW old \in Jobs, NEW new \in Jobs, RetryJob(old, new)
    PROVE  TypeOK'
<1>0. TypeOK /\ job[old] \in JobRecords
    BY DEF Typed, TypeOK
<1>1. QueuedJob(job[old].appr, job[old].dry) \in JobRecords
    BY <1>0, QueuedJobTyped DEF JobRecords
<1>2. budget' \in [BudgetKinds -> Nat]
    BY <1>0, ActionSpendTyped DEF RetryJob, BudgetKinds
<1> QED
    BY <1>0, <1>1, <1>2 DEF RetryJob, TypeOK

LEMMA SettingsTyped == Typed /\ SettingsChange => TypeOK'
<1> SUFFICES ASSUME Typed, SettingsChange PROVE TypeOK'
    OBVIOUS
<1>1. TypeOK
    BY DEF Typed
<1>2. budget' \in [BudgetKinds -> Nat]
    BY <1>1, ActionSpendTyped DEF SettingsChange, BudgetKinds
<1> QED
    BY <1>1, <1>2 DEF SettingsChange, TypeOK

\* Every step is a request's, a slot's, or one of the four others.
LEMMA NextCases ==
    Next => \/ \E c \in Clients : ClientCall(c) \/ ClientStep(c)
            \/ \E w \in Runners : RunnerStep(w) \/ Stall(w) \/ Breaks(w)
            \/ \E w \in Runners, j \in Jobs : Take(w, j)
            \/ \E old, new \in Jobs : RetryJob(old, new)
            \/ SettingsChange
BY DEF Next, ClientCall

\* A step of a run keeps what the job gave it, until the slot is free again.
LEMMA RunnerStepKeeps ==
    ASSUME TypeOK, NEW w \in Runners, RunnerStep(w)
    PROVE  /\ runner[w].pc # "idle"
           /\ \A v \in Runners : v # w => runner'[v] = runner[v]
           /\ \/ runner'[w] = IdleRunner
              \/ /\ runner'[w].job = runner[w].job
                 /\ runner'[w].guard = runner[w].guard
<1>0. runner \in [Runners -> RunnerRecords] /\ runner[w] \in RunnerRecords
    BY DEF TypeOK
<1>1. ASSUME NEW pc, GoRunner(w, pc)
      PROVE  /\ \A v \in Runners : v # w => runner'[v] = runner[v]
             /\ runner'[w].job = runner[w].job
             /\ runner'[w].guard = runner[w].guard
    BY <1>0, <1>1 DEF GoRunner, RunnerRecords
<1>2. ASSUME NEW pc, NEW o,
             runner' = [runner EXCEPT ![w].pc = pc, ![w].outcome = o]
      PROVE  /\ \A v \in Runners : v # w => runner'[v] = runner[v]
             /\ runner'[w].job = runner[w].job
             /\ runner'[w].guard = runner[w].guard
    BY <1>0, <1>2 DEF RunnerRecords
<1>3. CASE ReadAction(w)
    BY <1>0, <1>3 DEF ReadAction, RunnerRecords
<1>4. CASE Inspect(w)
    BY <1>1, <1>2, <1>4 DEF Inspect
<1>5. CASE Write(w)
    BY <1>2, <1>5 DEF Write
<1>6. CASE Settle(w)
    BY <1>0, <1>6 DEF Settle, EndRun
<1>7. CASE CheckApproval(w)
    BY <1>0, <1>7 DEF CheckApproval, RunnerRecords
<1>8. CASE ParkCheck(w) \/ ParkCreate(w) \/ ParkStatus(w)
    BY <1>1, <1>8 DEF ParkCheck, ParkCreate, ParkStatus
<1>9. CASE MarkExecuting(w) \/ RecordResult(w) \/ WriteFailed(w)
    BY <1>1, <1>9 DEF MarkExecuting, RecordResult, WriteFailed
<1>10. CASE WriteNoChange(w) \/ WriteLog(w) \/ WriteExperiment(w)
    BY <1>1, <1>10 DEF WriteNoChange, WriteLog, WriteExperiment
<1>11. CASE Complete(w)
    BY <1>1, <1>11 DEF Complete
<1> QED
    BY <1>3, <1>4, <1>5, <1>6, <1>7, <1>8, <1>9, <1>10, <1>11 DEF RunnerStep

\* Requests, retries and settings leave the slots alone.
LEMMA ClientsLeaveRunners ==
    ASSUME NEW c \in Clients, ClientCall(c) \/ ClientStep(c)
    PROVE  UNCHANGED <<runner, site>>
BY DEF ClientCall, ClientStep, ReadToApprove, ReadToReject, ReadToBulkApprove,
       ReadToDecide, ReadToExecute, ClientCrash, Approve, Reject, Decline,
       Consent, AskCreate, AskStatus, Enqueue, MarkQueued

LEMMA NextKeepsTyped == Typed /\ [Next]_vars => Typed'
<1> SUFFICES ASSUME Typed, [Next]_vars PROVE Typed'
    OBVIOUS
<1>0. TypeOK /\ JobNamed
    BY DEF Typed
<1>1. CASE UNCHANGED vars
    BY <1>0, <1>1 DEF vars, Typed, TypeOK, JobNamed
<1>2. ASSUME NEW c \in Clients, ClientCall(c) \/ ClientStep(c) PROVE Typed'
  <2>1. TypeOK'
      BY <1>2, ClientCallTyped, ClientStepTyped
  <2> QED
      BY <1>0, <1>2, <2>1, ClientsLeaveRunners DEF Typed, JobNamed
<1>3. ASSUME NEW w \in Runners, RunnerStep(w) PROVE Typed'
  <2>1. TypeOK'
      BY <1>3, RunnerStepTyped
  <2>2. JobNamed'
      BY <1>0, <1>3, RunnerStepKeeps, IdleTyped DEF JobNamed
  <2> QED
      BY <2>1, <2>2 DEF Typed
<1>4. ASSUME NEW w \in Runners, Stall(w) \/ Breaks(w) PROVE Typed'
  <2>1. TypeOK'
      BY <1>4, StallTyped, BreaksTyped
  <2>2. JobNamed'
      BY <1>0, <1>4, IdleTyped DEF Stall, Breaks, EndRun, JobNamed, TypeOK
  <2> QED
      BY <2>1, <2>2 DEF Typed
<1>5. ASSUME NEW w \in Runners, NEW j \in Jobs, Take(w, j) PROVE Typed'
  <2>1. TypeOK'
      BY <1>5, TakeTyped
  <2>2. JobNamed'
    <3>1. ASSUME NEW v \in Runners, runner'[v].pc # "idle"
          PROVE  runner'[v].job \in Jobs
      <4>1. CASE v = w
          BY <1>0, <1>5, <4>1 DEF Take, TypeOK, IdleRunner
      <4>2. CASE v # w
          BY <1>0, <1>5, <3>1, <4>2 DEF Take, TypeOK, JobNamed
      <4> QED
          BY <4>1, <4>2
    <3> QED
        BY <3>1 DEF JobNamed
  <2> QED
      BY <2>1, <2>2 DEF Typed
<1>6. ASSUME NEW old \in Jobs, NEW new \in Jobs, RetryJob(old, new)
      PROVE  Typed'
    BY <1>0, <1>6, RetryJobTyped DEF RetryJob, Typed, JobNamed
<1>7. CASE SettingsChange
    BY <1>0, <1>7, SettingsTyped DEF SettingsChange, Typed, JobNamed
<1> QED
    BY <1>1, <1>2, <1>3, <1>4, <1>5, <1>6, <1>7, NextCases

THEOREM TypedInvariance == Spec => []Typed
BY InitTyped, NextKeepsTyped, PTL DEF Spec

\* Every variable keeps its type: in particular no request and no run writes
\* a status that is not an ActionStatus, and counters stay naturals.
THEOREM TypeCorrect == Spec => []TypeOK
<1>1. Typed => TypeOK
    BY DEF Typed
<1> QED
    BY <1>1, TypedInvariance, PTL

(***************************************************************************)
(* The guardrail.  GuardrailHolds is not inductive: a slot that is already *)
(* past the check writes without looking again.  What carries it is that   *)
(* nobody but a human makes an Approval APPROVED, that canAutoExecute is   *)
(* false for these types, and so that a slot past the check had consent.   *)
(***************************************************************************)

ApprovedByHuman ==
    \A a \in Approvals : approval[a] = "APPROVED" => a \in consent

PastCheck(w) == runner[w].pc \in {"executing", "inspect", "write"}

NeverCleared == \A w \in Runners : ~runner[w].guard

PastCheckConsented == \A w \in Runners : PastCheck(w) => consent # {}

GuardInv ==
    AlwaysAsk => /\ ApprovedByHuman /\ NeverCleared /\ PastCheckConsented
                 /\ site.writes > 0 => consent # {}

LEMMA InitGuard == Init => GuardInv
BY IdleTyped DEF Init, GuardInv, ApprovedByHuman, NeverCleared,
                 PastCheckConsented, PastCheck

\* Consent is never forgotten, and APPROVED always means somebody gave it.
LEMMA ConsentGrows ==
    ASSUME TypeOK, ApprovedByHuman, [Next]_vars
    PROVE  consent \subseteq consent' /\ ApprovedByHuman'
<1>1. CASE UNCHANGED <<approval, consent>>
    BY <1>1 DEF ApprovedByHuman
<1>2. ASSUME NewApproval, UNCHANGED consent PROVE ApprovedByHuman'
    BY <1>2 DEF TypeOK, ApprovedByHuman, NewApproval
<1>3. ASSUME NEW c \in Clients, Approve(c)
      PROVE  consent \subseteq consent' /\ ApprovedByHuman'
    BY <1>3 DEF Approve, TypeOK, ApprovedByHuman, With
<1>4. ASSUME NEW c \in Clients, Reject(c)
      PROVE  consent \subseteq consent' /\ ApprovedByHuman'
    BY <1>4 DEF Reject, TypeOK, ApprovedByHuman
<1>5. ASSUME NEW c \in Clients, Decline(c)
      PROVE  consent \subseteq consent' /\ ApprovedByHuman'
    BY <1>5 DEF Decline, TypeOK, ApprovedByHuman
<1>6. ASSUME NEW c \in Clients, Consent(c)
      PROVE  consent \subseteq consent' /\ ApprovedByHuman'
    BY <1>6 DEF Consent, TypeOK, ApprovedByHuman
<1>7. ASSUME NEW c \in Clients, ClientCall(c) \/ ClientStep(c)
      PROVE  consent \subseteq consent' /\ ApprovedByHuman'
  <2>1. CASE ClientCall(c)
      BY <1>1, <2>1 DEF ClientCall, ReadToApprove, ReadToReject,
            ReadToBulkApprove, ReadToDecide, ReadToExecute, ClientCrash
  <2>2. CASE AskStatus(c) \/ MarkQueued(c)
             \/ \E a \in Approvals \cup {NoApproval} : Enqueue(c, a)
      BY <1>1, <2>2 DEF AskStatus, MarkQueued, Enqueue
  <2>3. CASE AskCreate(c)
      BY <1>2, <2>3 DEF AskCreate
  <2> QED
      BY <1>3, <1>4, <1>5, <1>6, <1>7, <2>1, <2>2, <2>3 DEF ClientStep
<1>8. ASSUME NEW w \in Runners, RunnerStep(w)
      PROVE  consent \subseteq consent' /\ ApprovedByHuman'
  <2>1. CASE ParkCreate(w)
      BY <1>2, <2>1 DEF ParkCreate
  <2>2. CASE \/ ReadAction(w) \/ CheckApproval(w)
             \/ ParkCheck(w) \/ ParkStatus(w)
             \/ MarkExecuting(w) \/ Inspect(w) \/ Write(w) \/ RecordResult(w)
             \/ WriteFailed(w) \/ WriteNoChange(w)
             \/ WriteLog(w) \/ WriteExperiment(w) \/ Complete(w) \/ Settle(w)
      BY <1>1, <2>2 DEF ReadAction, CheckApproval, ParkCheck, ParkStatus,
            MarkExecuting, Inspect, Write, RecordResult, WriteFailed,
            WriteNoChange, WriteLog, WriteExperiment, Complete, Settle, EndRun
  <2> QED
      BY <1>8, <2>1, <2>2 DEF RunnerStep
<1>9. ASSUME NEW w \in Runners,
             Stall(w) \/ Breaks(w) \/ \E j \in Jobs : Take(w, j)
      PROVE  UNCHANGED <<approval, consent>>
    BY <1>9 DEF Stall, Breaks, Take
<1>10. (\E old, new \in Jobs : RetryJob(old, new)) \/ SettingsChange
           => UNCHANGED <<approval, consent>>
    BY DEF RetryJob, SettingsChange
<1> QED
    BY <1>1, <1>7, <1>8, <1>9, <1>10, NextCases DEF vars

LEMMA NextGuard == Typed /\ GuardInv /\ [Next]_vars => GuardInv'
<1> SUFFICES ASSUME Typed, GuardInv, [Next]_vars, AlwaysAsk
             PROVE  /\ ApprovedByHuman' /\ NeverCleared' /\ PastCheckConsented'
                    /\ (site.writes > 0 => consent # {})'
    BY DEF GuardInv
<1>0. /\ TypeOK /\ ApprovedByHuman /\ NeverCleared /\ PastCheckConsented
      /\ site.writes > 0 => consent # {}
    BY DEF Typed, GuardInv
<1>a. consent \subseteq consent' /\ ApprovedByHuman'
    BY <1>0, ConsentGrows
<1>1. ASSUME UNCHANGED <<runner, site>>
      PROVE  /\ NeverCleared' /\ PastCheckConsented'
             /\ (site.writes > 0 => consent # {})'
    BY <1>0, <1>a, <1>1 DEF NeverCleared, PastCheckConsented, PastCheck
<1>2. ASSUME NEW w \in Runners, RunnerStep(w)
      PROVE  /\ NeverCleared' /\ PastCheckConsented'
             /\ (site.writes > 0 => consent # {})'
  <2>1. NeverCleared'
      BY <1>0, <1>2, RunnerStepKeeps, IdleTyped DEF NeverCleared
  <2>2. PastCheck(w)' => consent' # {}
    <3>1. CASE CheckApproval(w)
      <4>1. HasApproval(w) => consent # {}
          BY <1>0 DEF HasApproval, With, ApprovedByHuman
      <4>2. ~runner[w].guard /\ runner[w] \in RunnerRecords
          BY <1>0 DEF NeverCleared, TypeOK
      <4>3. ~HasApproval(w) => runner'[w].pc = "askCheck"
          BY <1>0, <3>1, <4>2 DEF CheckApproval, TypeOK, RunnerRecords
      <4> QED
          BY <1>a, <4>1, <4>3 DEF PastCheck
    <3>2. CASE MarkExecuting(w) \/ Inspect(w)
        BY <1>0, <1>a, <3>2
           DEF MarkExecuting, Inspect, PastCheckConsented, PastCheck
    <3>3. CASE ReadAction(w)
        BY <1>0, <3>3 DEF ReadAction, PastCheck, TypeOK, RunnerRecords
    <3>4. CASE ParkCheck(w) \/ ParkCreate(w) \/ ParkStatus(w)
        BY <1>0, <3>4, GoRunnerMoves
           DEF ParkCheck, ParkCreate, ParkStatus, PastCheck, RunnerPcs
    <3>5. CASE Write(w)
        BY <1>0, <1>a, <3>5 DEF Write, PastCheckConsented, PastCheck
    <3>6. CASE RecordResult(w) \/ WriteFailed(w) \/ WriteNoChange(w)
        BY <1>0, <3>6, GoRunnerMoves
           DEF RecordResult, WriteFailed, WriteNoChange, PastCheck, RunnerPcs
    <3>7. CASE WriteLog(w) \/ WriteExperiment(w) \/ Complete(w)
        BY <1>0, <3>7, GoRunnerMoves
           DEF WriteLog, WriteExperiment, Complete, PastCheck, RunnerPcs
    <3>8. CASE Settle(w)
        BY <1>0, <3>8, IdleTyped DEF Settle, EndRun, PastCheck, TypeOK
    <3> QED
        BY <1>2, <3>1, <3>2, <3>3, <3>4, <3>5, <3>6, <3>7, <3>8 DEF RunnerStep
  <2>3. PastCheckConsented'
      BY <1>0, <1>2, <1>a, <2>2, RunnerStepKeeps
         DEF PastCheckConsented, PastCheck
  <2>4. CASE Write(w)
      BY <1>0, <1>a, <2>1, <2>3, <2>4 DEF Write, PastCheckConsented, PastCheck
  <2>5. CASE ~Write(w)
    <3>1. UNCHANGED site
        BY <1>2, <2>5 DEF RunnerStep, ReadAction, CheckApproval, ParkCheck,
           ParkCreate, ParkStatus, MarkExecuting, Inspect, RecordResult,
           WriteFailed, WriteNoChange, WriteLog, WriteExperiment, Complete,
           Settle, EndRun
    <3> QED
        BY <1>0, <1>a, <2>1, <2>3, <3>1
  <2> QED
      BY <2>4, <2>5
<1>3. ASSUME NEW w \in Runners, Stall(w) \/ Breaks(w)
      PROVE  /\ NeverCleared' /\ PastCheckConsented'
             /\ (site.writes > 0 => consent # {})'
    BY <1>0, <1>a, <1>3, IdleTyped
       DEF Stall, Breaks, EndRun, NeverCleared, PastCheckConsented, PastCheck,
           TypeOK
<1>4. ASSUME NEW w \in Runners, NEW j \in Jobs, Take(w, j)
      PROVE  /\ NeverCleared' /\ PastCheckConsented'
             /\ (site.writes > 0 => consent # {})'
  <2>1. /\ ~runner'[w].guard /\ runner'[w].pc = "action"
        /\ \A v \in Runners : v # w => runner'[v] = runner[v]
      BY <1>0, <1>4 DEF Take, TypeOK, CanAutoExecute, IdleRunner
  <2> QED
      BY <1>0, <1>a, <1>4, <2>1
         DEF Take, NeverCleared, PastCheckConsented, PastCheck
<1>5. (\E old, new \in Jobs : RetryJob(old, new)) \/ SettingsChange
          => UNCHANGED <<runner, site>>
    BY DEF RetryJob, SettingsChange
<1> QED
    BY <1>a, <1>1, <1>2, <1>3, <1>4, <1>5, NextCases, ClientsLeaveRunners
       DEF vars

\* Whatever the autonomy level, the job's payload, retries, stalls and races:
\* an action of a type that always asks is written to the live site only after
\* a human approved a request for it.
THEOREM Guardrail == Spec => []GuardrailHolds
<1>1. GuardInv => GuardrailHolds
    BY DEF GuardInv, GuardrailHolds
<1> QED
    BY <1>1, InitGuard, NextGuard, TypedInvariance, PTL DEF Spec

(***************************************************************************)
(* The rejection.  While it stands, the status stays REJECTED: a request   *)
(* that began before can only decide the action again, and a slot reads    *)
(* the status and settles.                                                 *)
(***************************************************************************)

Deciding == {"idle", "approve", "reject", "decline", "consent"}
Turning  == {"idle", "action", "settle"}

Quiet ==
    /\ action.status = "REJECTED"
    /\ \A c \in Clients : client[c].pc \in Deciding
    /\ \A w \in Runners : runner[w].pc \in Turning

RejectInv == declined => Quiet

\* Only one client moves, to a step of a decision.
LEMMA ClientStaysDeciding ==
    ASSUME TypeOK, Quiet, NEW c \in Clients,
           client' = [client EXCEPT ![c] = client'[c]],
           client'[c].pc \in Deciding,
           UNCHANGED runner, action'.status = "REJECTED"
    PROVE  Quiet'
<1>1. \A d \in Clients : client'[d].pc \in Deciding
    BY DEF Quiet, TypeOK
<1> QED
    BY <1>1 DEF Quiet

LEMMA DecidingCalls ==
    ASSUME TypeOK, Quiet, NEW c \in Clients, ClientCall(c)
    PROVE  Quiet'
<1>0. action.status = "REJECTED" /\ client[c] \in ClientRecords
    BY DEF Quiet, TypeOK
<1>1. CASE ReadToApprove(c) \/ ReadToReject(c)
  <2>1. \E pc \in {"approve", "reject"} : GoClient(c, pc)
      BY <1>1 DEF ReadToApprove, ReadToReject
  <2>2. PICK pc \in {"approve", "reject"} : GoClient(c, pc)
      BY <2>1
  <2>3. client'[c].pc = pc /\ client' = [client EXCEPT ![c] = client'[c]]
    <3>1. client'[c].pc = pc
        BY <2>2, GoClientMoves DEF ClientPcs
    <3>2. client' = [client EXCEPT ![c] = [client[c] EXCEPT !.pc = pc]]
        BY <2>2 DEF GoClient
    <3>3. client'[c] = [client[c] EXCEPT !.pc = pc]
        BY <3>2 DEF TypeOK
    <3> QED
        BY <3>1, <3>2, <3>3
  <2>4. UNCHANGED <<action, runner>>
      BY <1>1 DEF ReadToApprove, ReadToReject
  <2> QED
      BY <1>0, <2>3, <2>4, ClientStaysDeciding DEF Deciding
<1>2. CASE ReadToBulkApprove(c) \/ \E a \in Approvals : ReadToDecide(c, a)
  <2>1. \E pc \in {"consent", "decline"}, todo \in SUBSET Approvals :
            client' = [client EXCEPT ![c] =
                [pc |-> pc, todo |-> todo, mark |-> "ifEnqueued"]]
    <3>1. CASE ReadToBulkApprove(c)
        BY <3>1 DEF ReadToBulkApprove, With
    <3>2. CASE \E a \in Approvals : ReadToDecide(c, a)
        BY <3>2 DEF ReadToDecide
    <3> QED
        BY <1>2, <3>1, <3>2
  <2>2. client'[c].pc \in Deciding /\ client' = [client EXCEPT ![c] = client'[c]]
      BY <2>1 DEF TypeOK, Deciding
  <2>3. UNCHANGED <<action, runner>>
      BY <1>2 DEF ReadToBulkApprove, ReadToDecide
  <2> QED
      BY <1>0, <2>2, <2>3, ClientStaysDeciding
<1>3. ~ \E dry \in BOOLEAN : ReadToExecute(c, dry)
    BY <1>0 DEF ReadToExecute, NOT_EXECUTABLE
<1>4. CASE ClientCrash(c)
  <2>1. client'[c] = IdleClient /\ client' = [client EXCEPT ![c] = client'[c]]
      BY <1>4 DEF ClientCrash, TypeOK
  <2>2. UNCHANGED <<action, runner>>
      BY <1>4 DEF ClientCrash
  <2> QED
      BY <1>0, <2>1, <2>2, ClientStaysDeciding, IdleTyped DEF Deciding
<1> QED
    BY <1>1, <1>2, <1>3, <1>4 DEF ClientCall

\* A decision either approves, which ends the rejection, or rejects again.
LEMMA DecidingSteps ==
    ASSUME TypeOK, RejectInv, NEW c \in Clients, ClientStep(c)
    PROVE  RejectInv'
<1>1. CASE Approve(c) \/ Consent(c)
    BY <1>1 DEF Approve, Consent, RejectInv
<1>2. CASE Reject(c) \/ Decline(c)
  <2>1. /\ action'.status = "REJECTED"
        /\ client' = [client EXCEPT ![c] = IdleClient]
        /\ UNCHANGED runner
        /\ declined' = (declined \/ NothingElseRuns(c))
      BY <1>2 DEF Reject, Decline, SetStatus, TypeOK
  <2>2. ASSUME declined' PROVE Quiet'
    <3>1. CASE declined
      <4>1. /\ client'[c] = IdleClient
            /\ client' = [client EXCEPT ![c] = client'[c]]
          BY <2>1 DEF TypeOK
      <4> QED
          BY <2>1, <3>1, <4>1, ClientStaysDeciding, IdleTyped
             DEF RejectInv, Deciding
    <3>2. CASE NothingElseRuns(c)
      <4>1. \A d \in Clients : client'[d].pc = "idle"
          BY <2>1, <3>2, IdleTyped DEF TypeOK, NothingElseRuns
      <4>2. \A w \in Runners : runner'[w].pc = "idle"
          BY <2>1, <3>2 DEF NothingElseRuns
      <4> QED
          BY <2>1, <4>1, <4>2 DEF Quiet, Deciding, Turning
    <3> QED
        BY <2>1, <2>2, <3>1, <3>2
  <2> QED
      BY <2>2 DEF RejectInv
<1>3. CASE \/ AskCreate(c) \/ AskStatus(c) \/ MarkQueued(c)
           \/ \E a \in Approvals \cup {NoApproval} : Enqueue(c, a)
  <2>1. client[c].pc \notin Deciding
      BY <1>3 DEF AskCreate, AskStatus, MarkQueued, Enqueue, Deciding
  <2>2. ~declined
      BY <2>1 DEF RejectInv, Quiet
  <2>3. UNCHANGED declined
      BY <1>3 DEF AskCreate, AskStatus, MarkQueued, Enqueue
  <2> QED
      BY <2>2, <2>3 DEF RejectInv
<1> QED
    BY <1>1, <1>2, <1>3 DEF ClientStep

\* A slot that reads REJECTED settles; the later steps are out of reach.
LEMMA TurningSteps ==
    ASSUME TypeOK, Quiet, NEW w \in Runners, RunnerStep(w)
    PROVE  Quiet'
<1>0. runner[w].pc \in Turning /\ action.status = "REJECTED"
    BY DEF Quiet
<1>1. CASE ReadAction(w)
  <2>1. /\ runner'[w].pc = "settle"
        /\ \A v \in Runners : v # w => runner'[v] = runner[v]
      BY <1>0, <1>1
         DEF ReadAction, TERMINAL_STATUSES, TypeOK, RunnerRecords
  <2>2. UNCHANGED <<action, client>>
      BY <1>1 DEF ReadAction
  <2> QED
      BY <2>1, <2>2 DEF Quiet, Turning
<1>2. CASE Settle(w)
  <2>1. /\ runner'[w].pc = "idle"
        /\ \A v \in Runners : v # w => runner'[v] = runner[v]
      BY <1>2, IdleTyped DEF Settle, EndRun, TypeOK
  <2>2. UNCHANGED <<action, client>>
      BY <1>2 DEF Settle, EndRun
  <2> QED
      BY <2>1, <2>2 DEF Quiet, Turning
<1>3. ASSUME ~ReadAction(w), ~Settle(w) PROVE FALSE
    BY <1>0, <1>3
       DEF RunnerStep, Turning, CheckApproval, ParkCheck, ParkCreate,
           ParkStatus, MarkExecuting, Inspect, Write, RecordResult,
           WriteFailed, WriteNoChange, WriteLog, WriteExperiment, Complete
<1> QED
    BY <1>1, <1>2, <1>3

LEMMA NextReject == TypeOK /\ RejectInv /\ [Next]_vars => RejectInv'
<1> SUFFICES ASSUME TypeOK, RejectInv, [Next]_vars PROVE RejectInv'
    OBVIOUS
<1>1. CASE UNCHANGED vars
    BY <1>1 DEF vars, RejectInv, Quiet
<1>2. ASSUME NEW c \in Clients, ClientCall(c) PROVE RejectInv'
  <2>1. UNCHANGED declined
      BY <1>2 DEF ClientCall, ReadToApprove, ReadToReject, ReadToBulkApprove,
                  ReadToDecide, ReadToExecute, ClientCrash
  <2> QED
      BY <1>2, <2>1, DecidingCalls DEF RejectInv
<1>3. ASSUME NEW w \in Runners, RunnerStep(w) PROVE RejectInv'
  <2>1. UNCHANGED declined
      BY <1>3 DEF RunnerStep, ReadAction, CheckApproval, ParkCheck, ParkCreate,
         ParkStatus, MarkExecuting, Inspect, Write, RecordResult, WriteFailed,
         WriteNoChange, WriteLog, WriteExperiment, Complete, Settle, EndRun
  <2> QED
      BY <1>3, <2>1, TurningSteps DEF RejectInv
<1>4. ASSUME NEW w \in Runners, Stall(w) \/ Breaks(w) PROVE RejectInv'
  <2>1. \A v \in Runners : runner'[v] \in {runner[v], IdleRunner}
      BY <1>4 DEF Stall, Breaks, EndRun, TypeOK
  <2> QED
      BY <1>4, <2>1, IdleTyped DEF Stall, Breaks, RejectInv, Quiet, Turning
<1>5. ASSUME NEW w \in Runners, NEW j \in Jobs, Take(w, j) PROVE RejectInv'
  <2>1. \A v \in Runners : runner'[v].pc \in {runner[v].pc, "action"}
      BY <1>5 DEF Take, TypeOK, IdleRunner
  <2> QED
      BY <1>5, <2>1 DEF Take, RejectInv, Quiet, Turning
<1>6. (\E old, new \in Jobs : RetryJob(old, new)) \/ SettingsChange
          => UNCHANGED <<action, client, runner, declined>>
    BY DEF RetryJob, SettingsChange
<1> QED
    BY <1>1, <1>2, <1>3, <1>4, <1>5, <1>6, NextCases, DecidingSteps
       DEF RejectInv, Quiet

\* No stale job, retry, second "run" or change of autonomy level applies an
\* action that was rejected while nothing was in flight, until it is approved.
THEOREM Rejection == Spec => []RejectionHolds
<1>1. Init => RejectInv
    BY DEF Init, RejectInv
<1>2. Typed => TypeOK
    BY DEF Typed
<1>3. RejectInv => RejectionHolds
    BY DEF RejectInv, Quiet, Turning, RejectionHolds, Applying
<1> QED
    BY <1>1, <1>2, <1>3, NextReject, TypedInvariance, PTL DEF Spec
(***************************************************************************)
(* A completed action is on record, where nothing is compared with the     *)
(* live page first.  There the only way to COMPLETED is through the two    *)
(* records: no run answers "no change", none goes on after it has read     *)
(* COMPLETED (a refused dry run writes back what it read), and no request  *)
(* writes it.  Where the page is read, a run that stalled after its write  *)
(* is repeated, finds nothing to change, and completes without a record.   *)
(***************************************************************************)

Recorded == trail.changeLog /\ trail.experiment

SlotInOrder(w) ==
    /\ runner[w].outcome # "noChange" /\ runner[w].pc # "noChange"
    /\ runner[w].pc = "experiment" => trail.changeLog
    /\ runner[w].pc = "complete" => Recorded
    /\ runner[w].seen = "COMPLETED" => runner[w].pc \in Turning

RecordInv ==
    /\ action.status = "COMPLETED" => Recorded
    /\ \A w \in Runners : SlotInOrder(w)

LEMMA InitRecord == Init => RecordInv
<1> SUFFICES ASSUME Init PROVE RecordInv
    OBVIOUS
<1>1. action.status # "COMPLETED"
    BY DEF Init
<1>2. \A w \in Runners : runner[w] = IdleRunner
    BY DEF Init
<1> QED
    BY <1>1, <1>2 DEF RecordInv, SlotInOrder, IdleRunner, Turning

\* A slot that is taken from its run, or given one, has everything to do.
LEMMA FreshSlotInOrder ==
    ASSUME NEW w \in Runners,
           runner'[w].pc \in Turning, runner'[w].outcome # "noChange"
    PROVE  SlotInOrder(w)'
BY DEF SlotInOrder, Turning

\* A slot that is not moved stays in order while the records only grow.
LEMMA OthersStayInOrder ==
    ASSUME NEW w \in Runners, SlotInOrder(w), runner'[w] = runner[w],
           trail.changeLog => trail'.changeLog,
           trail.experiment => trail'.experiment
    PROVE  SlotInOrder(w)'
BY DEF SlotInOrder, Recorded

\* Nothing takes a record back.
LEMMA RecordsGrow ==
    ASSUME TypeOK, NEW w \in Runners, RunnerStep(w)
    PROVE  /\ trail.changeLog => trail'.changeLog
           /\ trail.experiment => trail'.experiment
<1>1. CASE RecordResult(w)
    BY <1>1 DEF RecordResult, TypeOK
<1>2. CASE WriteLog(w) \/ WriteExperiment(w)
    BY <1>2 DEF WriteLog, WriteExperiment, TypeOK
<1>3. CASE ~RecordResult(w) /\ ~WriteLog(w) /\ ~WriteExperiment(w)
  <2>1. UNCHANGED trail
      BY <1>3 DEF RunnerStep, ReadAction, CheckApproval, ParkCheck,
         ParkCreate, ParkStatus, MarkExecuting, Inspect, Write, WriteFailed,
         WriteNoChange, Complete, Settle, EndRun
  <2> QED
      BY <2>1
<1> QED
    BY <1>1, <1>2, <1>3

\* The step of a run, seen from its own slot and from the action's status.
LEMMA RunnerStepInOrder ==
    ASSUME TypeOK, ~CanRead, RecordInv, NEW w \in Runners, RunnerStep(w)
    PROVE  /\ SlotInOrder(w)'
           /\ action'.status = "COMPLETED" => Recorded'
<1>0. /\ runner \in [Runners -> RunnerRecords] /\ runner[w] \in RunnerRecords
      /\ SlotInOrder(w) /\ (action.status = "COMPLETED" => Recorded)
      /\ action \in [status : Statuses, approved : BOOLEAN]
    BY DEF TypeOK, RecordInv
<1>1. /\ trail.changeLog => trail'.changeLog
      /\ trail.experiment => trail'.experiment
    BY RecordsGrow
<1>2. ASSUME NEW pc \in RunnerPcs, GoRunner(w, pc)
      PROVE  /\ runner'[w].pc = pc
             /\ runner'[w].outcome = runner[w].outcome
             /\ runner'[w].seen = runner[w].seen
    BY <1>0, <1>2 DEF GoRunner, RunnerRecords
<1>3. ASSUME NEW o \in {"ok", "fail"},
             runner' = [runner EXCEPT ![w].pc = "result", ![w].outcome = o]
      PROVE  /\ runner'[w].pc = "result" /\ runner'[w].outcome = o
             /\ runner'[w].seen = runner[w].seen
    BY <1>0, <1>3 DEF RunnerRecords
<1>4. CASE ReadAction(w)
  <2>1. /\ runner'[w].pc = IF action.status \in TERMINAL_STATUSES
                           THEN "settle" ELSE "approval"
        /\ runner'[w].seen = action.status
        /\ runner'[w].outcome = runner[w].outcome
        /\ UNCHANGED <<action, trail>>
      BY <1>0, <1>4 DEF ReadAction, RunnerRecords
  <2> QED
      BY <1>0, <2>1 DEF SlotInOrder, TERMINAL_STATUSES, Turning, Recorded
<1>5. CASE CheckApproval(w)
  <2>1. /\ runner'[w].pc \in {"askCheck", "inspect", "executing"}
        /\ runner'[w].seen = runner[w].seen
        /\ runner'[w].outcome = runner[w].outcome
        /\ runner[w].pc = "approval"
        /\ UNCHANGED <<action, trail>>
      BY <1>0, <1>5 DEF CheckApproval, RunnerRecords
  <2> QED
      BY <1>0, <2>1 DEF SlotInOrder, Turning, Recorded
<1>6. CASE ParkCheck(w) \/ ParkCreate(w)
  <2>1. \E pc \in {"askCreate", "askStatus"} : GoRunner(w, pc)
      BY <1>6 DEF ParkCheck, ParkCreate
  <2>2. /\ runner'[w].pc \in {"askCreate", "askStatus"}
        /\ runner'[w].seen = runner[w].seen
        /\ runner'[w].outcome = runner[w].outcome
      BY <1>2, <2>1 DEF RunnerPcs
  <2>3. runner[w].pc \in {"askCheck", "askCreate"} /\ UNCHANGED <<action, trail>>
      BY <1>6 DEF ParkCheck, ParkCreate
  <2> QED
      BY <1>0, <2>2, <2>3 DEF SlotInOrder, Turning, Recorded
<1>7. CASE ParkStatus(w)
  <2>1. /\ runner'[w].pc = "settle"
        /\ runner'[w].outcome = runner[w].outcome
      BY <1>2, <1>7 DEF ParkStatus, RunnerPcs
  <2>2. action'.status # "COMPLETED"
      BY <1>0, <1>7 DEF ParkStatus, SetStatus
  <2> QED
      BY <1>0, <2>1, <2>2 DEF SlotInOrder, Turning
<1>8. CASE MarkExecuting(w)
  <2>1. /\ runner'[w].pc = "inspect"
        /\ runner'[w].outcome = runner[w].outcome
        /\ runner'[w].seen = runner[w].seen
      BY <1>2, <1>8 DEF MarkExecuting, RunnerPcs
  <2>2. action'.status # "COMPLETED" /\ runner[w].pc = "executing"
      BY <1>0, <1>8 DEF MarkExecuting, SetStatus
  <2> QED
      BY <1>0, <2>1, <2>2 DEF SlotInOrder, Turning
<1>9. CASE Inspect(w)
  <2>1. \A known \in BOOLEAN :
            (known = CanRead \/ CanRead) => ~NothingToChange(known)
      BY DEF NothingToChange
  <2>2. \/ \E o \in {"ok", "fail"} :
              runner' = [runner EXCEPT ![w].pc = "result", ![w].outcome = o]
        \/ GoRunner(w, "write")
      BY <1>9, <2>1 DEF Inspect
  <2>3. /\ runner'[w].pc \in {"result", "write"}
        /\ runner'[w].outcome \in {runner[w].outcome, "ok", "fail"}
        /\ runner'[w].seen = runner[w].seen
      BY <1>2, <1>3, <2>2 DEF RunnerPcs
  <2>4. runner[w].pc = "inspect" /\ UNCHANGED <<action, trail>>
      BY <1>9 DEF Inspect
  <2> QED
      BY <1>0, <2>3, <2>4 DEF SlotInOrder, Turning, Recorded
<1>10. CASE Write(w)
  <2>1. \E o \in {"ok", "fail"} :
              runner' = [runner EXCEPT ![w].pc = "result", ![w].outcome = o]
      BY <1>10 DEF Write
  <2>2. /\ runner'[w].pc = "result" /\ runner'[w].outcome \in {"ok", "fail"}
        /\ runner'[w].seen = runner[w].seen
      BY <1>3, <2>1
  <2>3. runner[w].pc = "write" /\ UNCHANGED <<action, trail>>
      BY <1>10 DEF Write
  <2> QED
      BY <1>0, <2>2, <2>3 DEF SlotInOrder, Turning, Recorded
<1>11. CASE RecordResult(w)
  <2>1. \E pc \in {"failed", "settle", "log"} : GoRunner(w, pc)
      BY <1>11 DEF RecordResult
  <2>2. /\ runner'[w].pc \in {"failed", "settle", "log"}
        /\ runner'[w].outcome = runner[w].outcome
        /\ runner'[w].seen = runner[w].seen
      BY <1>2, <2>1 DEF RunnerPcs
  <2>3. runner[w].pc = "result" /\ UNCHANGED action
      BY <1>11 DEF RecordResult
  <2> QED
      BY <1>0, <1>1, <2>2, <2>3 DEF SlotInOrder, Turning, Recorded
<1>12. CASE WriteFailed(w)
  <2>1. runner[w].outcome # "noChange" /\ runner[w].pc = "failed"
      BY <1>0, <1>12 DEF SlotInOrder, WriteFailed
  <2>2. runner[w].seen # "COMPLETED"
      BY <1>0, <2>1 DEF SlotInOrder, Turning
  <2>3. action'.status # "COMPLETED"
      BY <1>0, <1>12, <2>2 DEF WriteFailed, SetStatus
  <2>4. GoRunner(w, "settle")
      BY <1>12, <2>1 DEF WriteFailed
  <2>5. runner'[w].pc = "settle" /\ runner'[w].outcome = runner[w].outcome
      BY <1>2, <2>4 DEF RunnerPcs
  <2> QED
      BY <2>1, <2>3, <2>5 DEF SlotInOrder, Turning
<1>13. CASE WriteNoChange(w)
    BY <1>0, <1>13 DEF WriteNoChange, SlotInOrder
<1>14. CASE WriteLog(w)
  <2>1. /\ runner'[w].pc = "experiment"
        /\ runner'[w].outcome = runner[w].outcome
        /\ runner'[w].seen = runner[w].seen
      BY <1>2, <1>14 DEF WriteLog, RunnerPcs
  <2>2. trail'.changeLog
      BY <1>14 DEF WriteLog, TypeOK
  <2>3. runner[w].pc = "log" /\ UNCHANGED action
      BY <1>14 DEF WriteLog
  <2> QED
      BY <1>0, <1>1, <2>1, <2>2, <2>3 DEF SlotInOrder, Turning, Recorded
<1>15. CASE WriteExperiment(w)
  <2>1. /\ runner'[w].pc = "complete"
        /\ runner'[w].outcome = runner[w].outcome
        /\ runner'[w].seen = runner[w].seen
      BY <1>2, <1>15 DEF WriteExperiment, RunnerPcs
  <2>2. trail'.experiment
      BY <1>15 DEF WriteExperiment, TypeOK
  <2>3. runner[w].pc = "experiment" /\ UNCHANGED action
      BY <1>15 DEF WriteExperiment
  <2> QED
      BY <1>0, <1>1, <2>1, <2>2, <2>3 DEF SlotInOrder, Turning, Recorded
<1>16. CASE Complete(w)
  <2>1. /\ runner'[w].pc = "settle"
        /\ runner'[w].outcome = runner[w].outcome
      BY <1>2, <1>16 DEF Complete, RunnerPcs
  <2>2. Recorded
      BY <1>0, <1>16 DEF Complete, SlotInOrder
  <2> QED
      BY <1>0, <1>1, <2>1, <2>2 DEF SlotInOrder, Turning, Recorded
<1>17. CASE Settle(w)
  <2>1. runner'[w] = IdleRunner /\ UNCHANGED <<action, trail>>
      BY <1>0, <1>17 DEF Settle, EndRun
  <2> QED
      BY <1>0, <2>1 DEF SlotInOrder, Turning, Recorded, IdleRunner
<1> QED
    BY <1>4, <1>5, <1>6, <1>7, <1>8, <1>9, <1>10, <1>11, <1>12, <1>13, <1>14,
       <1>15, <1>16, <1>17 DEF RunnerStep

\* No request writes COMPLETED, and none touches the records.
LEMMA RequestsCompleteNothing ==
    ASSUME TypeOK, NEW c \in Clients, ClientCall(c) \/ ClientStep(c)
    PROVE  /\ action'.status = "COMPLETED" => action' = action
           /\ UNCHANGED trail
<1>0. action \in [status : Statuses, approved : BOOLEAN]
    BY DEF TypeOK
<1>1. CASE ClientCall(c)
    BY <1>1 DEF ClientCall, ReadToApprove, ReadToReject, ReadToBulkApprove,
                ReadToDecide, ReadToExecute, ClientCrash
<1>2. CASE Approve(c) \/ Reject(c) \/ Consent(c)
    BY <1>2 DEF Approve, Reject, Consent
<1>3. CASE Decline(c) \/ AskStatus(c) \/ MarkQueued(c)
    BY <1>0, <1>3 DEF Decline, AskStatus, MarkQueued, SetStatus
<1>4. CASE AskCreate(c) \/ \E a \in Approvals \cup {NoApproval} : Enqueue(c, a)
    BY <1>4 DEF AskCreate, Enqueue
<1> QED
    BY <1>1, <1>2, <1>3, <1>4 DEF ClientStep

LEMMA NextRecord ==
    (~CanRead /\ RecordInv) /\ TypeOK /\ [Next]_vars
        => (~CanRead /\ RecordInv)'
<1> SUFFICES ASSUME ~CanRead, RecordInv, TypeOK, [Next]_vars
             PROVE  RecordInv'
    OBVIOUS
<1>1. CASE UNCHANGED vars
    BY <1>1 DEF vars, RecordInv, SlotInOrder, Recorded
<1>2. ASSUME NEW c \in Clients, ClientCall(c) \/ ClientStep(c)
      PROVE  RecordInv'
  <2>1. UNCHANGED <<runner, trail>>
      BY <1>2, ClientsLeaveRunners, RequestsCompleteNothing
  <2> QED
      BY <1>2, <2>1, RequestsCompleteNothing
         DEF RecordInv, SlotInOrder, Recorded
<1>3. ASSUME NEW w \in Runners, RunnerStep(w) PROVE RecordInv'
  <2>1. SlotInOrder(w)' /\ (action'.status = "COMPLETED" => Recorded')
      BY <1>3, RunnerStepInOrder
  <2>2. ASSUME NEW v \in Runners, v # w PROVE SlotInOrder(v)'
    <3>1. runner'[v] = runner[v]
        BY <1>3, <2>2, RunnerStepKeeps
    <3> QED
        BY <1>3, <3>1, RecordsGrow, OthersStayInOrder DEF RecordInv
  <2> QED
      BY <2>1, <2>2 DEF RecordInv
<1>4. ASSUME NEW w \in Runners, Stall(w) \/ Breaks(w) PROVE RecordInv'
  <2>1. UNCHANGED <<action, trail>>
      BY <1>4 DEF Stall, Breaks
  <2>2. ASSUME NEW v \in Runners PROVE SlotInOrder(v)'
    <3>1. runner'[v] \in {runner[v], IdleRunner}
        BY <1>4 DEF Stall, Breaks, EndRun, TypeOK
    <3>2. CASE runner'[v] = runner[v]
        BY <2>1, <3>2, OthersStayInOrder DEF RecordInv
    <3>3. CASE runner'[v] = IdleRunner
        BY <3>3, FreshSlotInOrder DEF IdleRunner, Turning
    <3> QED
        BY <3>1, <3>2, <3>3
  <2> QED
      BY <2>1, <2>2 DEF RecordInv, Recorded
<1>5. ASSUME NEW w \in Runners, NEW j \in Jobs, Take(w, j) PROVE RecordInv'
  <2>1. UNCHANGED <<action, trail>>
      BY <1>5 DEF Take
  <2>2. runner'[w].pc = "action" /\ runner'[w].outcome = "none"
      BY <1>5 DEF Take, TypeOK, IdleRunner
  <2>3. SlotInOrder(w)'
      BY <2>2, FreshSlotInOrder DEF Turning
  <2>4. ASSUME NEW v \in Runners, v # w PROVE SlotInOrder(v)'
    <3>1. runner'[v] = runner[v]
        BY <1>5, <2>4 DEF Take, TypeOK
    <3> QED
        BY <2>1, <3>1, OthersStayInOrder DEF RecordInv
  <2> QED
      BY <2>1, <2>3, <2>4 DEF RecordInv, Recorded
<1>6. (\E old, new \in Jobs : RetryJob(old, new)) \/ SettingsChange
          => UNCHANGED <<action, runner, trail>>
    BY DEF RetryJob, SettingsChange
<1> QED
    BY <1>1, <1>2, <1>3, <1>4, <1>5, <1>6, NextCases
       DEF RecordInv, SlotInOrder, Recorded

\* Whatever stalls, is retried, is reported failed or races: an action that an
\* adapter without a read completed has its ChangeLog entry and its experiment.
THEOREM CompletionsRecorded == Spec /\ ~CanRead => []CompletedIsRecorded
<1>1. Init => RecordInv
    BY InitRecord
<1>2. Typed => TypeOK
    BY DEF Typed
<1>3. RecordInv => CompletedIsRecorded
    BY DEF RecordInv, Recorded, CompletedIsRecorded
<1>4. (~CanRead /\ RecordInv) /\ Typed /\ [Next]_vars
          => (~CanRead /\ RecordInv)'
    BY <1>2, NextRecord
<1> QED
    BY <1>1, <1>3, <1>4, TypedInvariance, PTL DEF Spec
=============================================================================

--------------------------- MODULE ActionLifecycle ---------------------------
(***************************************************************************)
(* The life of one SeoAction: a change to the customer's live website that *)
(* an agent or a user proposed.  Its writers are the routes of the web     *)
(* process ("clients": approve, reject, execute, decide and bulk approve)  *)
(* and the worker slots of the actions lane ("runners": actionsExecute in  *)
(* processors/actions.ts and applyChange in adapters/apply.ts).            *)
(*                                                                         *)
(* One action is one database statement, one transaction or one request to *)
(* the website, with the code around it, so a value that the code read     *)
(* earlier is a field of the client or runner that holds it.  The queue is *)
(* kept down to what these parts see of it; JobQueue has the rest.         *)
(***************************************************************************)
EXTENDS Integers, FiniteSets

CONSTANTS
    Approvals,   \* primary keys of Approval rows that name this action
    Jobs,        \* actions.execute jobs that may come to exist
    KeyedJob,    \* the one under the dedupe key actions.execute:<id>; the
                 \* others are made by retryJob
    Clients,     \* requests the web process serves at the same time
    Runners,     \* worker slots of the actions lane
    AlwaysAsk,   \* the action's type is in ALWAYS_REQUIRES_APPROVAL
    Safe,        \* its risk band is SAFE
    CanRead,     \* the page is read and compared with the change before it
                 \* is written: the adapter can, and the operation does
    Budgets,     \* how often each kind of event may happen in a behaviour
    NoApproval, NoJob, NoRunner

BudgetKinds ==
    {"approve", "reject", "execute", "decide", "bulk", "retry",
     "settings",                  \* the site's autonomy level changes
     "fault",                     \* the broker is away at an enqueue
     "stall",                     \* a worker dies or loses its lock
     "break",                     \* a database statement of a run fails
     "land",                      \* a write arrives but is reported failed
     "unread",                    \* reading the page fails, and is not vital
     "clientCrash"}

ASSUME KeyedAssumption == KeyedJob \in Jobs
ASSUME RiskAssumption ==
    /\ AlwaysAsk \in BOOLEAN /\ Safe \in BOOLEAN /\ CanRead \in BOOLEAN
    /\ AlwaysAsk => ~Safe
ASSUME ActionBudgetAssumption == Budgets \subseteq [BudgetKinds -> Nat]
ASSUME ActionNullAssumption ==
    NoApproval \notin Approvals /\ NoJob \notin Jobs /\ NoRunner \notin Runners

VARIABLES
    action,      \* the SeoAction row: status, and whether approvedAt is set
    approval,    \* the status of each Approval row
    permitted,   \* the autonomy level and autoApproveSafe permit this type
    job,         \* the actions.execute jobs
    client,      \* what each request is in the middle of
    runner,      \* what each worker slot is in the middle of
    site,        \* the live website: has it the change, and writes made
    trail,       \* what was recorded: ChangeLog, Experiment, rollbackData
    consent,     \* approvals a human ever approved (history)
    declined,    \* rejected while nothing was in flight, and not approved
                 \* since (history)
    broken,      \* a run failed halfway since EXECUTING was last written
                 \* (history)
    budget

vars == <<action, approval, permitted, job, client, runner, site, trail,
          consent, declined, broken, budget>>

----------------------------------------------------------------------------
(* The data *)

Statuses ==
    {"PROPOSED", "QUEUED", "AWAITING_APPROVAL", "APPROVED", "REJECTED",
     "EXECUTING", "COMPLETED", "FAILED"}

\* ROLLED_BACK, CANCELLED, MEASURING and EVALUATED, which these lists also
\* name, are written by no code that can run: see the README.
NOT_APPROVABLE == {"EXECUTING", "COMPLETED"}
NOT_REJECTABLE == {"EXECUTING", "COMPLETED"}

NOT_EXECUTABLE == {"EXECUTING", "COMPLETED", "REJECTED"}

\* Mutant: the worker does not stop at a rejected action.
TerminalNoReject == {"COMPLETED"}

TERMINAL_STATUSES == {"COMPLETED", "REJECTED"}

JobRecords ==
    [state : {"none", "queued", "running", "done",
              "lost"},                     \* in flight in Postgres, not in Redis
     appr : Approvals \cup {NoApproval},   \* payload.approvalId
     dry : BOOLEAN,                        \* payload.dryRun
     owner : Runners \cup {NoRunner},
     stalled : BOOLEAN]                    \* its one stall is used up

\* "mark" says when the QUEUED status is written after the enqueue; only a
\* dry run never writes it.
ClientRecords ==
    [pc : {"idle", "approve", "reject", "decline", "consent", "askCreate",
           "askStatus", "enqueue", "markQueued"},
     todo : SUBSET (Approvals \cup {NoApproval}),
     mark : {"always", "ifEnqueued", "never"}]

RunnerRecords ==
    [pc : {"idle", "action", "approval", "askCheck", "askCreate", "askStatus",
           "executing", "inspect", "write", "result", "failed", "noChange",
           "log", "experiment", "complete", "settle"},
     job : Jobs \cup {NoJob},
     appr : Approvals \cup {NoApproval},
     dry : BOOLEAN,
     guard : BOOLEAN,                      \* canAutoExecute, as evaluated
     approver : BOOLEAN,                   \* approvedByUserId is set
     seen : Statuses,                      \* action.status, as read
     outcome : {"none", "ok", "fail", "noChange"}]

IdleClient == [pc |-> "idle", todo |-> {}, mark |-> "never"]

IdleRunner ==
    [pc |-> "idle", job |-> NoJob, appr |-> NoApproval, dry |-> FALSE,
     guard |-> FALSE, approver |-> FALSE, seen |-> "PROPOSED",
     outcome |-> "none"]

AbsentJob ==
    [state |-> "none", appr |-> NoApproval, dry |-> FALSE,
     owner |-> NoRunner, stalled |-> FALSE]

QueuedJob(a, dry) ==
    [AbsentJob EXCEPT !.state = "queued", !.appr = a, !.dry = dry]

With(status) == {a \in Approvals : approval[a] = status}

\* Some types never run without a human; the rest is up to the site.
CanAutoExecute == ~AlwaysAsk /\ permitted

\* No request but c's is being served, and no job is being run.
NothingElseRuns(c) ==
    /\ \A d \in Clients \ {c} : client[d].pc = "idle"
    /\ \A w \in Runners : runner[w].pc = "idle"

Spend(kind) ==
    budget[kind] > 0 /\ budget' = [budget EXCEPT ![kind] = @ - 1]

SetStatus(s) == action' = [action EXCEPT !.status = s]

GoClient(c, pc) == client' = [client EXCEPT ![c].pc = pc]
GoRunner(w, pc) == runner' = [runner EXCEPT ![w].pc = pc]

\* An approval request that did not exist before.
NewApproval ==
    \E a \in Approvals : /\ approval[a] = "unborn"
                         /\ approval' = [approval EXCEPT ![a] = "PENDING"]

\* Issue fixes and GEO recommendations are PROPOSED; an agent's action is
\* QUEUED where the guardrail lets it run, and comes with a request otherwise.
Init ==
    /\ permitted \in BOOLEAN
    /\ \/ /\ action = [status |-> "PROPOSED", approved |-> FALSE]
          /\ approval = [a \in Approvals |-> "unborn"]
       \/ /\ CanAutoExecute
          /\ action = [status |-> "QUEUED", approved |-> FALSE]
          /\ approval = [a \in Approvals |-> "unborn"]
       \/ /\ ~CanAutoExecute
          /\ action = [status |-> "AWAITING_APPROVAL", approved |-> FALSE]
          /\ \E first \in Approvals :
                approval = [a \in Approvals |->
                               IF a = first THEN "PENDING" ELSE "unborn"]
    /\ job = [j \in Jobs |-> AbsentJob]
    /\ client = [c \in Clients |-> IdleClient]
    /\ runner = [w \in Runners |-> IdleRunner]
    /\ site \in [same : BOOLEAN, writes : {0}]
    /\ trail = [changeLog |-> FALSE, experiment |-> FALSE, rollback |-> {}]
    /\ consent = {}
    /\ declined = FALSE
    /\ broken = FALSE
    /\ budget \in Budgets

----------------------------------------------------------------------------
(* Approve and reject: the action's own page *)

\* getActionDetail and the status check, before the transaction.
ReadToApprove(c) ==
    /\ client[c].pc = "idle" /\ Spend("approve")
    /\ action.status \notin NOT_APPROVABLE
    /\ GoClient(c, "approve")
    /\ UNCHANGED <<action, approval, permitted, job, runner, site, trail,
                   consent, declined, broken>>

\* The open requests are closed in the transaction that approves the action.
Approve(c) ==
    /\ client[c].pc = "approve"
    /\ action' = [status |-> "APPROVED", approved |-> TRUE]
    /\ approval' = [a \in Approvals |-> IF approval[a] = "PENDING"
                                        THEN "APPROVED" ELSE approval[a]]
    /\ consent' = consent \cup With("PENDING")
    /\ declined' = FALSE
    /\ client' = [client EXCEPT ![c] = IdleClient]
    /\ UNCHANGED <<permitted, job, runner, site, trail, broken, budget>>

ReadToReject(c) ==
    /\ client[c].pc = "idle" /\ Spend("reject")
    /\ action.status \notin NOT_REJECTABLE
    /\ GoClient(c, "reject")
    /\ UNCHANGED <<action, approval, permitted, job, runner, site, trail,
                   consent, declined, broken>>

\* Only open requests are closed: one that was approved stays APPROVED.
Reject(c) ==
    /\ client[c].pc = "reject"
    /\ action' = [status |-> "REJECTED", approved |-> FALSE]
    /\ approval' = [a \in Approvals |-> IF approval[a] = "PENDING"
                                        THEN "REJECTED" ELSE approval[a]]
    /\ declined' = (declined \/ NothingElseRuns(c))
    /\ client' = [client EXCEPT ![c] = IdleClient]
    /\ UNCHANGED <<permitted, job, runner, site, trail, consent, broken,
                   budget>>

----------------------------------------------------------------------------
(* Decide and bulk approve: the approvals queue *)

\* decide: the request is open, as read before the transaction.
ReadToDecide(c, a) ==
    /\ client[c].pc = "idle" /\ Spend("decide")
    /\ approval[a] = "PENDING"
    /\ \E pc \in {"consent", "decline"} :
          client' = [client EXCEPT ![c] =
                        [pc |-> pc, todo |-> {a}, mark |-> "ifEnqueued"]]
    /\ UNCHANGED <<action, approval, permitted, job, runner, site, trail,
                   consent, declined, broken>>

\* bulk-approve-safe: any open requests of the SAFE band, up to its limit.
ReadToBulkApprove(c) ==
    /\ client[c].pc = "idle" /\ Spend("bulk")
    /\ Safe /\ ~AlwaysAsk
    /\ \E batch \in SUBSET With("PENDING") \ {{}} :
          client' = [client EXCEPT ![c] =
                        [pc |-> "consent", todo |-> batch,
                         mark |-> "ifEnqueued"]]
    /\ UNCHANGED <<action, approval, permitted, job, runner, site, trail,
                   consent, declined, broken>>

Decline(c) ==
    /\ client[c].pc = "decline"
    /\ approval' = [a \in Approvals |-> IF a \in client[c].todo
                                        THEN "REJECTED" ELSE approval[a]]
    /\ SetStatus("REJECTED")
    /\ declined' = (declined \/ NothingElseRuns(c))
    /\ client' = [client EXCEPT ![c] = IdleClient]
    /\ UNCHANGED <<permitted, job, runner, site, trail, consent, broken,
                   budget>>

\* The transaction writes by id and looks at no status again.
Consent(c) ==
    /\ client[c].pc = "consent"
    /\ approval' = [a \in Approvals |-> IF a \in client[c].todo
                                        THEN "APPROVED" ELSE approval[a]]
    /\ action' = [status |-> "APPROVED", approved |-> TRUE]
    /\ consent' = consent \cup (client[c].todo \cap Approvals)
    /\ declined' = FALSE
    /\ GoClient(c, "enqueue")
    /\ UNCHANGED <<permitted, job, runner, site, trail, broken, budget>>

----------------------------------------------------------------------------
(* Execute, and the enqueue it shares with the approvals queue *)

\* The page's one query gives the status, the settings and the approvals.  A
\* refused call asks for approval, unless a request is open already.
ReadToExecute(c, dry) ==
    /\ client[c].pc = "idle" /\ Spend("execute")
    /\ action.status \notin NOT_EXECUTABLE
    /\ LET cleared == \/ action.status = "APPROVED" \/ action.approved
                      \/ CanAutoExecute IN
       \/ /\ ~cleared /\ With("PENDING") = {}
          /\ GoClient(c, "askCreate")
       \/ /\ cleared
          /\ \E a \in IF With("APPROVED") = {} THEN {NoApproval}
                      ELSE With("APPROVED") :
                client' = [client EXCEPT ![c] =
                              [pc |-> "enqueue", todo |-> {a},
                               mark |-> IF dry THEN "never" ELSE "always"]]
    /\ UNCHANGED <<action, approval, permitted, job, runner, site, trail,
                   consent, declined, broken>>

AskCreate(c) ==
    /\ client[c].pc = "askCreate"
    /\ NewApproval
    /\ GoClient(c, "askStatus")
    /\ UNCHANGED <<action, permitted, job, runner, site, trail, consent,
                   declined, broken, budget>>

AskStatus(c) ==
    /\ client[c].pc = "askStatus"
    /\ SetStatus("AWAITING_APPROVAL")
    /\ client' = [client EXCEPT ![c] = IdleClient]
    /\ UNCHANGED <<approval, permitted, job, runner, site, trail, consent,
                   declined, broken, budget>>

\* enqueue under the action's dedupe key: a job in flight answers duplicate;
\* a broker that is away leaves a QUEUED row without a job.
Enqueue(c, a) ==
    LET rest == client[c].todo \ {a}
        Then(marked) ==
            client' = [client EXCEPT ![c] =
                IF marked THEN [@ EXCEPT !.pc = "markQueued", !.todo = rest]
                ELSE IF rest = {} THEN IdleClient
                ELSE [@ EXCEPT !.todo = rest]]
    IN  /\ client[c].pc = "enqueue" /\ a \in client[c].todo
        /\ \/ /\ job[KeyedJob].state \in {"queued", "running", "lost"}
              /\ Then(client[c].mark = "always")
              /\ UNCHANGED <<job, budget>>
           \/ /\ job[KeyedJob].state \in {"none", "done"}
              /\ job' = [job EXCEPT ![KeyedJob] =
                            QueuedJob(a, client[c].mark = "never")]
              /\ Then(client[c].mark # "never")
              /\ UNCHANGED budget
           \/ /\ job[KeyedJob].state \in {"none", "done"}
              /\ Spend("fault")
              /\ job' = [job EXCEPT ![KeyedJob].state = "lost"]
              /\ Then(client[c].mark = "always")
        /\ UNCHANGED <<action, approval, permitted, runner, site, trail,
                       consent, declined, broken>>

MarkQueued(c) ==
    /\ client[c].pc = "markQueued"
    /\ SetStatus("QUEUED")
    /\ client' = [client EXCEPT ![c] =
                     IF @.todo = {} THEN IdleClient
                     ELSE [@ EXCEPT !.pc = "enqueue"]]
    /\ UNCHANGED <<approval, permitted, job, runner, site, trail, consent,
                   declined, broken, budget>>

\* retryJob: a finished job's payload in a new job, past the dedupe key.
RetryJob(old, new) ==
    /\ job[old].state = "done" /\ job[new].state = "none" /\ new # KeyedJob
    /\ Spend("retry")
    /\ job' = [job EXCEPT ![new] = QueuedJob(job[old].appr, job[old].dry)]
    /\ UNCHANGED <<action, approval, permitted, client, runner, site, trail,
                   consent, declined, broken>>

SettingsChange ==
    /\ Spend("settings")
    /\ permitted' = ~permitted
    /\ UNCHANGED <<action, approval, job, client, runner, site, trail,
                   consent, declined, broken>>

\* The process dies with the request half served.
ClientCrash(c) ==
    /\ client[c].pc # "idle" /\ Spend("clientCrash")
    /\ client' = [client EXCEPT ![c] = IdleClient]
    /\ UNCHANGED <<action, approval, permitted, job, runner, site, trail,
                   consent, declined, broken>>

----------------------------------------------------------------------------
(* actionsExecute: the guardrail, evaluated again *)

\* BullMQ hands out a job; loadWebsite reads the settings it is run under.
Take(w, j) ==
    /\ runner[w].pc = "idle" /\ job[j].state = "queued"
    /\ job' = [job EXCEPT ![j].state = "running", ![j].owner = w]
    /\ runner' = [runner EXCEPT ![w] =
                     [IdleRunner EXCEPT !.pc = "action", !.job = j,
                         !.appr = job[j].appr, !.dry = job[j].dry,
                         !.guard = CanAutoExecute]]
    /\ UNCHANGED <<action, approval, permitted, client, site, trail, consent,
                   declined, broken, budget>>

ReadAction(w) ==
    /\ runner[w].pc = "action"
    /\ runner' = [runner EXCEPT
          ![w].pc = IF action.status \in TERMINAL_STATUSES THEN "settle"
                    ELSE "approval",
          ![w].seen = action.status]
    /\ UNCHANGED <<action, approval, permitted, job, client, site, trail,
                   consent, declined, broken, budget>>

\* The payload's approval must be APPROVED; without one any such row counts.
HasApproval(w) ==
    \E a \in With("APPROVED") : runner[w].appr \in {a, NoApproval}

\* Mutant: check and approver are left to whoever enqueued the job.
CheckApprovalTrusting(w) ==
    /\ runner[w].pc = "approval"
    /\ runner' = [runner EXCEPT
          ![w].pc = IF runner[w].dry THEN "inspect" ELSE "executing",
          ![w].approver = TRUE]
    /\ UNCHANGED <<action, approval, permitted, job, client, site, trail,
                   consent, declined, broken, budget>>

\* Every route that approves a row stores its user, the run's approver.
CheckApproval(w) ==
    /\ runner[w].pc = "approval"
    /\ runner' = [runner EXCEPT
          ![w].pc = IF ~runner[w].guard /\ ~HasApproval(w) THEN "askCheck"
                    ELSE IF runner[w].dry THEN "inspect" ELSE "executing",
          ![w].approver = HasApproval(w)]
    /\ UNCHANGED <<action, approval, permitted, job, client, site, trail,
                   consent, declined, broken, budget>>

\* Consent is missing: make sure there is a request, and park the action.
ParkCheck(w) ==
    /\ runner[w].pc = "askCheck"
    /\ GoRunner(w, IF With("PENDING") = {} THEN "askCreate" ELSE "askStatus")
    /\ UNCHANGED <<action, approval, permitted, job, client, site, trail,
                   consent, declined, broken, budget>>

ParkCreate(w) ==
    /\ runner[w].pc = "askCreate"
    /\ NewApproval
    /\ GoRunner(w, "askStatus")
    /\ UNCHANGED <<action, permitted, job, client, site, trail, consent,
                   declined, broken, budget>>

ParkStatus(w) ==
    /\ runner[w].pc = "askStatus"
    /\ SetStatus("AWAITING_APPROVAL")
    /\ GoRunner(w, "settle")
    /\ UNCHANGED <<approval, permitted, job, client, site, trail, consent,
                   declined, broken, budget>>

----------------------------------------------------------------------------
(* actionsExecute: apply and record *)

MarkExecuting(w) ==
    /\ runner[w].pc = "executing"
    /\ SetStatus("EXECUTING")
    /\ GoRunner(w, "inspect")
    /\ broken' = FALSE
    /\ UNCHANGED <<approval, permitted, job, client, site, trail, consent,
                   declined, budget>>

\* buildIntent finds no difference; without a before-snapshot it never does.
NothingToChange(known) == known /\ site.same

\* applyChange up to the write.  No adapter, a missing capability, a bad
\* payload or a failed read that is vital refuse, and so does its own gate on
\* types that always ask; another failed read goes on without the snapshot.
Inspect(w) ==
    LET Answer(o) == runner' = [runner EXCEPT ![w].pc = "result",
                                              ![w].outcome = o]
    IN  /\ runner[w].pc = "inspect"
        /\ \/ Answer("fail") /\ UNCHANGED budget
           \/ /\ AlwaysAsk => runner[w].approver
              /\ \E known \in BOOLEAN :
                    /\ \/ known = CanRead /\ UNCHANGED budget
                       \/ CanRead /\ ~known /\ Spend("unread")
                    /\ \/ NothingToChange(known) /\ Answer("noChange")
                       \/ /\ ~NothingToChange(known) /\ runner[w].dry
                          /\ Answer("ok")
                       \/ /\ ~NothingToChange(known) /\ ~runner[w].dry
                          /\ GoRunner(w, "write")
        /\ UNCHANGED <<action, approval, permitted, job, client, site, trail,
                       consent, declined, broken>>

\* The request to the live site; a failed one may have arrived all the same.
Write(w) ==
    LET Landed == site' = [same |-> TRUE, writes |-> site.writes + 1]
        Answer(o) == runner' = [runner EXCEPT ![w].pc = "result",
                                              ![w].outcome = o]
    IN  /\ runner[w].pc = "write"
        /\ \/ Landed /\ Answer("ok") /\ UNCHANGED budget
           \/ Landed /\ Answer("fail") /\ Spend("land")
           \/ UNCHANGED <<site, budget>> /\ Answer("fail")
        /\ UNCHANGED <<action, approval, permitted, job, client, trail,
                       consent, declined, broken>>

\* The keys the worker stores: the old field values are below "before".
RollbackData == {"before", "changes", "externalId", "adapter"}

\* The ActionExecution row gets its result.
RecordResult(w) ==
    /\ runner[w].pc = "result"
    /\ trail' = [trail EXCEPT !.rollback = @ \cup {RollbackData}]
    /\ GoRunner(w, IF runner[w].outcome # "ok" THEN "failed"
                   ELSE IF runner[w].dry THEN "settle" ELSE "log")
    /\ UNCHANGED <<action, approval, permitted, job, client, site, consent,
                   declined, broken, budget>>

\* A refused dry run writes back the status it read when it began.
WriteFailed(w) ==
    /\ runner[w].pc = "failed"
    /\ SetStatus(IF runner[w].dry THEN runner[w].seen ELSE "FAILED")
    /\ GoRunner(w, IF runner[w].outcome = "noChange" THEN "noChange"
                   ELSE "settle")
    /\ UNCHANGED <<approval, permitted, job, client, site, trail, consent,
                   declined, broken, budget>>

WriteNoChange(w) ==
    /\ runner[w].pc = "noChange"
    /\ SetStatus("COMPLETED")
    /\ GoRunner(w, "settle")
    /\ UNCHANGED <<approval, permitted, job, client, site, trail, consent,
                   declined, broken, budget>>

\* Mutant: the action is completed before the change is on record.
WriteLogLast(w) ==
    /\ runner[w].pc = "log"
    /\ SetStatus("COMPLETED")
    /\ trail' = [trail EXCEPT !.changeLog = TRUE]
    /\ GoRunner(w, "experiment")
    /\ UNCHANGED <<approval, permitted, job, client, site, consent, declined,
                   broken, budget>>

WriteLog(w) ==
    /\ runner[w].pc = "log"
    /\ trail' = [trail EXCEPT !.changeLog = TRUE]
    /\ GoRunner(w, "experiment")
    /\ UNCHANGED <<action, approval, permitted, job, client, site, consent,
                   declined, broken, budget>>

WriteExperiment(w) ==
    /\ runner[w].pc = "experiment"
    /\ trail' = [trail EXCEPT !.experiment = TRUE]
    /\ GoRunner(w, "complete")
    /\ UNCHANGED <<action, approval, permitted, job, client, site, consent,
                   declined, broken, budget>>

Complete(w) ==
    /\ runner[w].pc = "complete"
    /\ SetStatus("COMPLETED")
    /\ GoRunner(w, "settle")
    /\ UNCHANGED <<approval, permitted, job, client, site, trail, consent,
                   declined, broken, budget>>

\* The run ends; a slot that lost the lock no longer settles the job.
EndRun(w) ==
    /\ job' = [j \in Jobs |->
                  IF j = runner[w].job /\ job[j].owner = w
                  THEN [job[j] EXCEPT !.state = "done", !.owner = NoRunner]
                  ELSE job[j]]
    /\ runner' = [runner EXCEPT ![w] = IdleRunner]

Settle(w) ==
    /\ runner[w].pc = "settle"
    /\ EndRun(w)
    /\ UNCHANGED <<action, approval, permitted, client, site, trail, consent,
                   declined, broken, budget>>

\* A database statement of the run fails.  The job has one attempt, and
\* nothing puts the action back: it stays as the run had left it.
Breaks(w) ==
    /\ runner[w].pc \notin {"idle", "inspect", "write", "settle"}
    /\ Spend("break")
    /\ EndRun(w)
    /\ broken' = TRUE
    /\ UNCHANGED <<action, approval, permitted, client, site, trail, consent,
                   declined>>

\* Mutant: a stalled job is not run again.
StallEnds(w) ==
    /\ runner[w].pc # "idle" /\ job[runner[w].job].owner = w
    /\ Spend("stall")
    /\ job' = [job EXCEPT ![runner[w].job].state = "lost",
                          ![runner[w].job].owner = NoRunner]
    /\ \/ runner' = [runner EXCEPT ![w] = IdleRunner]
       \/ UNCHANGED runner
    /\ UNCHANGED <<action, approval, permitted, client, site, trail, consent,
                   declined, broken>>

\* A slot dies, or only loses its lock and goes on.  BullMQ runs the job once
\* more; at the second stall it fails it, and its row stays RUNNING.
Stall(w) ==
    /\ runner[w].pc # "idle" /\ job[runner[w].job].owner = w
    /\ Spend("stall")
    /\ LET j == runner[w].job IN
       job' = [job EXCEPT
                  ![j].state = IF job[j].stalled THEN "lost" ELSE "queued",
                  ![j].owner = NoRunner, ![j].stalled = TRUE]
    /\ \/ runner' = [runner EXCEPT ![w] = IdleRunner]
       \/ UNCHANGED runner
    /\ UNCHANGED <<action, approval, permitted, client, site, trail, consent,
                   declined, broken>>

----------------------------------------------------------------------------
ClientStep(c) ==
    \/ Approve(c) \/ Reject(c) \/ Decline(c) \/ Consent(c)
    \/ AskCreate(c) \/ AskStatus(c) \/ MarkQueued(c)
    \/ \E a \in Approvals \cup {NoApproval} : Enqueue(c, a)

RunnerStep(w) ==
    \/ ReadAction(w) \/ CheckApproval(w)
    \/ ParkCheck(w) \/ ParkCreate(w) \/ ParkStatus(w)
    \/ MarkExecuting(w) \/ Inspect(w) \/ Write(w) \/ RecordResult(w)
    \/ WriteFailed(w) \/ WriteNoChange(w)
    \/ WriteLog(w) \/ WriteExperiment(w) \/ Complete(w) \/ Settle(w)

Next ==
    \/ \E c \in Clients :
          \/ ReadToApprove(c) \/ ReadToReject(c) \/ ReadToBulkApprove(c)
          \/ \E a \in Approvals : ReadToDecide(c, a)
          \/ \E dry \in BOOLEAN : ReadToExecute(c, dry)
          \/ ClientStep(c)
          \/ ClientCrash(c)
    \/ \E old, new \in Jobs : RetryJob(old, new)
    \/ SettingsChange
    \/ \E w \in Runners : \/ RunnerStep(w)
                           \/ Stall(w) \/ Breaks(w)
                           \/ \E j \in Jobs : Take(w, j)

Spec == Init /\ [][Next]_vars

\* A request that began is served, a run goes on, and a job that keeps
\* waiting while slots come free is taken.  Nobody has to call, and nothing
\* has to fail.
FairSpec ==
    /\ Spec
    /\ \A c \in Clients : WF_vars(ClientStep(c))
    /\ \A w \in Runners : WF_vars(RunnerStep(w))
    /\ \A j \in Jobs : SF_vars(\E w \in Runners : Take(w, j))

----------------------------------------------------------------------------
(* Properties *)

\* Every variable has its type.
TypeOK ==
    /\ action \in [status : Statuses, approved : BOOLEAN]
    /\ approval \in [Approvals ->
                       {"unborn", "PENDING", "APPROVED", "REJECTED"}]
    /\ permitted \in BOOLEAN
    /\ job \in [Jobs -> JobRecords]
    /\ client \in [Clients -> ClientRecords]
    /\ runner \in [Runners -> RunnerRecords]
    /\ site \in [same : BOOLEAN, writes : Nat]
    /\ trail \in [changeLog : BOOLEAN, experiment : BOOLEAN,
                  rollback : SUBSET {RollbackData}]
    /\ consent \in SUBSET Approvals
    /\ declined \in BOOLEAN
    /\ broken \in BOOLEAN
    /\ budget \in [BudgetKinds -> Nat]

\* An action of a type that always asks changes the live site only after a
\* human approved a request for it, whatever the autonomy level, the payload
\* and the status say (constants.ts, ALWAYS_REQUIRES_APPROVAL).
GuardrailHolds == AlwaysAsk /\ site.writes > 0 => consent # {}

\* A write to the live site by w is about to be made, or to be prepared.
Applying(w) ==
    runner[w].pc \in {"executing", "inspect", "write"} /\ ~runner[w].dry

\* An action that was rejected while no request and no job was in flight is
\* not applied until somebody approves it again: not by a stale job, a retry,
\* a new "run" or a change of autonomy level.
RejectionHolds == declined => \A w \in Runners : ~Applying(w)

\* A rejected action is not applied, even if the rejection raced with other
\* requests or a job (actions.ts: "the approval may have been withdrawn").
RejectedNotWritten ==
    [][action.status = "REJECTED" => ~ \E w \in Runners : MarkExecuting(w)
      ]_vars

\* The change is written to the live site once.
AppliedOnce == site.writes <= 1

\* An action that changed the site and is COMPLETED has its ChangeLog entry
\* and its experiment (actions.ts: "Every change is measurable").
CompletedIsRecorded ==
    action.status = "COMPLETED" /\ site.writes > 0 =>
        trail.changeLog /\ trail.experiment

\* An action does not stay EXECUTING, not even through the death of the worker
\* that runs it, unless a run fails halfway: only a statement that fails after
\* actions.ts:217 may leave it there.
ExecutingEnds ==
    action.status = "EXECUTING" ~> action.status # "EXECUTING" \/ broken

\* The same without the exemption: a failed execution shows as one (the job's
\* one attempt is for "a visible failure", types.ts).
ExecutingEndsEver ==
    action.status = "EXECUTING" ~> action.status # "EXECUTING"

\* A dry run moves no status of the action (execute/route.ts).
DryRunMovesNothing ==
    [][\A w \in Runners :
          RunnerStep(w) /\ runner[w].dry => action'.status = action.status
      ]_vars

\* Once an approval was decided and no request is in flight, the queue shows
\* no open request for an action that is decided (approve/route.ts).
NoOpenRequestOnceDecided ==
    /\ action.status \in {"APPROVED", "REJECTED"}
    /\ \A c \in Clients : client[c].pc = "idle"
    => With("PENDING") = {}

\* Asking again reuses the open request (execute/route.ts, ensureApproval).
OneOpenRequest == Cardinality(With("PENDING")) <= 1

\* What the rollback route would restore from a snapshot.
RESTORABLE_FIELDS ==
    {"title", "metaTitle", "metaDescription", "canonicalUrl", "slug",
     "excerpt", "bodyHtml", "bodyMarkdown"}

\* The route takes the newest non-empty snapshot; all of them look alike.
CanRollBack == \E snapshot \in trail.rollback :
                  snapshot \cap RESTORABLE_FIELDS # {}

\* A change that is on record can be rolled back where the adapter reads
\* (actions.ts: "measurable and reversible by record").
ReversibleByRecord == trail.changeLog /\ CanRead => CanRollBack

\* An action the guardrail lets run is run: it does not stay QUEUED.
QueuedRuns == action.status = "QUEUED" ~> action.status # "QUEUED"

\* An approval that was given through the queue does not silently sit undone:
\* a job that will apply it is in flight, or the action moved on.
ApprovedIsQueued ==
    /\ action.status = "APPROVED"
    /\ \E a \in consent : approval[a] = "APPROVED"
    /\ \A c \in Clients : client[c].pc = "idle"
    => \E j \in Jobs : job[j].state \in {"queued", "running"} /\ ~job[j].dry
=============================================================================

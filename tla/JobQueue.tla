------------------------------ MODULE JobQueue ------------------------------
(***************************************************************************)
(* The job queue of packages/queue: one lane, its durable JobRecord rows   *)
(* in Postgres, the BullMQ broker in Redis, the processes that enqueue,    *)
(* cancel, retry and prune jobs ("clients"), and the concurrency slots of  *)
(* the worker process ("workers").  The code is queue.ts (enqueue,         *)
(* upsertJobRecord), status.ts (cancelJob, retryJob, cleanupOldJobs) and   *)
(* worker-runtime.ts (runJob and the row bookkeeping around it).           *)
(*                                                                         *)
(* One action is one database statement, one broker command or one stretch *)
(* of code between two awaits, so that the steps of clients, workers and   *)
(* the broker interleave as they do in the program.  A row is kept down to *)
(* the job id it is keyed by and its status; messages, timestamps, payload *)
(* and result JSON are left out, and so is the DELAYED status, which only  *)
(* a caller that passes delayMs could produce and none does.               *)
(***************************************************************************)
EXTENDS Integers, FiniteSets

CONSTANTS
    JobIds,      \* broker job ids that buildJobId can produce
    DedupeIds,   \* the ones made from a caller's dedupeKey; every other id
                 \* ends in a random token and is generated once
    Rows,        \* primary keys of JobRecord, never reused
    Clients,     \* processes that call enqueue, cancelJob, retryJob, ...
    Brokerless,  \* the clients that run without REDIS_URL (getQueue is null)
    Workers,     \* concurrency slots of the worker process
    Attempts,    \* QUEUE_POLICY[lane].attempts
    MaxStalled,  \* BullMQ's maxStalledCount, left at its default (1)
    Budgets,     \* how often each kind of event may happen in a behaviour
    NoRow,       \* an envelope without jobRecordId
    NoJob,       \* no job id
    NoWorker     \* no lock on the job

BudgetKinds ==
    {"enqueue", "cancel", "cleanup", "repeat",      \* what callers ask for
     "fault",                                       \* a broker command fails
     "dbFault",                                     \* a row write fails
     "crash", "clientCrash", "lockLoss"}            \* processes and locks

ASSUME DedupeAssumption == DedupeIds \subseteq JobIds
ASSUME BrokerlessAssumption == Brokerless \subseteq Clients
ASSUME AttemptsAssumption == Attempts \in Nat \ {0}
ASSUME MaxStalledAssumption == MaxStalled \in Nat
ASSUME BudgetAssumption == Budgets \subseteq [BudgetKinds -> Nat]
ASSUME NullAssumption ==
    NoRow \notin Rows /\ NoJob \notin JobIds /\ NoWorker \notin Workers

VARIABLES
    row,      \* Postgres: the JobRecord table
    broker,   \* Redis: the lane's BullMQ jobs, by job id
    late,     \* adds that timed out in the caller and may still land
    client,   \* what each client is in the middle of
    worker,   \* what each worker slot is in the middle of
    fresh,    \* random job ids not generated yet
    told,     \* what the last enqueue of a row answered its caller
    barred,   \* jobs cancelled while no worker held them (history)
    budget    \* events still allowed

vars == <<row, broker, late, client, worker, fresh, told, barred, budget>>

----------------------------------------------------------------------------
(* The data *)

Terminal == {"COMPLETED", "FAILED", "CANCELLED"}
InFlight == {"QUEUED", "RUNNING"}

\* "unborn" and "pruned" stand for a row that does not exist yet or any more.
RowRecords ==
    [jobId : JobIds \cup {NoJob},
     status : Terminal \cup InFlight \cup {"unborn", "pruned"}]

BrokerJobs ==
    [state : {"none", "queued", "active", "completed", "failed"},
     rec : Rows \cup {NoRow},           \* envelope.jobRecordId
     owner : Workers \cup {NoWorker},   \* who holds the lock
     made : Nat,                        \* job.attemptsMade
     started : Nat,                     \* job.attemptsStarted
     stalled : Nat]

ClientRecords ==
    [pc : {"idle", "remove", "reset", "create", "push", "pushFailed",
           "cancelMark", "cancelRemove", "delete"},
     job : JobIds \cup {NoJob},
     row : Rows \cup {NoRow},
     batch : SUBSET Rows]

WorkerRecords ==
    [pc : {"idle", "ensure", "markRun", "writeRun", "run", "writeEnd",
           "settle"},
     job : JobIds \cup {NoJob},
     env : Rows \cup {NoRow},           \* envelope.jobRecordId, as taken
     row : Rows \cup {NoRow},           \* ensureJobRecord's answer
     attempt : Nat,
     outcome : {"none", "ok", "skip", "throw", "fatal"},
     cancelled : BOOLEAN]               \* the status read before the write

IdleClient == [pc |-> "idle", job |-> NoJob, row |-> NoRow, batch |-> {}]

IdleWorker ==
    [pc |-> "idle", job |-> NoJob, env |-> NoRow, row |-> NoRow,
     attempt |-> 0, outcome |-> "none", cancelled |-> FALSE]

AbsentJob ==
    [state |-> "none", rec |-> NoRow, owner |-> NoWorker,
     made |-> 0, started |-> 0, stalled |-> 0]

QueuedJob(r) == [AbsentJob EXCEPT !.state = "queued", !.rec = r]

Live(r) == row[r].status \notin {"unborn", "pruned"}

\* The row findUnique({ jobId }) returns, as a set of at most one row.
RowOf(j) == {r \in Rows : Live(r) /\ row[r].jobId = j}

\* Mutant: the attempt in progress is not counted.
AttemptNumberMade(b) == b.made

AttemptNumber(b) == IF b.started > b.made + 1 THEN b.started ELSE b.made + 1

\* Some worker slot is working on j, with or without the job's lock.
Held(j) == \E w \in Workers : worker[w].job = j

Spend(kind) ==
    budget[kind] > 0 /\ budget' = [budget EXCEPT ![kind] = @ - 1]

\* A row write inside safeWrite or safeUpdateJobRecord: it fails silently
\* when the row was pruned or when Postgres does.
SafeWrite(r, status) ==
    \/ Live(r) /\ row' = [row EXCEPT ![r].status = status]
               /\ UNCHANGED budget
    \/ ~Live(r) /\ UNCHANGED <<row, budget>>
    \/ Live(r) /\ Spend("dbFault") /\ UNCHANGED row

\* BullMQ removes a job in any state but active: an active job is locked.
BrokerRemove(j) ==
    broker' = IF broker[j].state = "active" THEN broker
              ELSE [broker EXCEPT ![j] = AbsentJob]

\* BullMQ's add does nothing when the id exists, in whatever state.
BrokerAdd(j, r) ==
    broker' = IF broker[j].state = "none"
              THEN [broker EXCEPT ![j] = QueuedJob(r)]
              ELSE broker

Init ==
    /\ row = [r \in Rows |-> [jobId |-> NoJob, status |-> "unborn"]]
    /\ broker = [j \in JobIds |-> AbsentJob]
    /\ late = {}
    /\ client = [c \in Clients |-> IdleClient]
    /\ worker = [w \in Workers |-> IdleWorker]
    /\ fresh = JobIds \ DedupeIds
    /\ told = [r \in Rows |-> "none"]
    /\ barred = {}
    /\ budget \in Budgets

----------------------------------------------------------------------------
(* enqueue: durable row first, broker second *)

\* With a dedupeKey the row is looked up by job id.  An in-flight row answers
\* "duplicate", which changes nothing; a finished one is to be reused.
EnqueueKeyed(c, j) ==
    /\ client[c].pc = "idle" /\ j \in DedupeIds
    /\ Spend("enqueue")
    /\ \/ RowOf(j) = {} /\ client' = [client EXCEPT ![c] =
              [IdleClient EXCEPT !.pc = "create", !.job = j]]
       \/ \E r \in RowOf(j) :
              /\ row[r].status \in Terminal
              /\ client' = [client EXCEPT ![c] =
                    [pc |-> IF c \in Brokerless THEN "reset" ELSE "remove",
                     job |-> j, row |-> r, batch |-> {}]]
    /\ UNCHANGED <<row, broker, late, worker, fresh, told, barred>>

\* Mutant: broker first, and the row never.
EnqueueFreshNoRow(c, j) ==
    /\ client[c].pc = "idle" /\ j \in fresh
    /\ Spend("enqueue")
    /\ fresh' = fresh \ {j}
    /\ \E r \in Rows :
          /\ row[r].status = "unborn"
          /\ client' = [client EXCEPT ![c] =
                 [IdleClient EXCEPT !.pc = "push", !.job = j, !.row = r]]
    /\ UNCHANGED <<row, broker, late, worker, told, barred>>

\* Without one the job id is a new random token and the row is always new.
EnqueueFresh(c, j) ==
    /\ client[c].pc = "idle" /\ j \in fresh
    /\ Spend("enqueue")
    /\ fresh' = fresh \ {j}
    /\ client' = [client EXCEPT ![c] =
                     [IdleClient EXCEPT !.pc = "create", !.job = j]]
    /\ UNCHANGED <<row, broker, late, worker, told, barred>>

\* retryJob refuses a row that is still QUEUED or RUNNING; otherwise it
\* enqueues the stored payload anew, under a fresh id and in a row of its own.
CanRetry(r) == Live(r) /\ row[r].status \notin {"RUNNING", "QUEUED"}

RetryJob(c, r, j) == CanRetry(r) /\ EnqueueFresh(c, j)

\* Clear the finished job out of Redis, errors ignored.
RemoveFinished(c) ==
    /\ client[c].pc = "remove"
    /\ client' = [client EXCEPT ![c].pc = "reset"]
    /\ \/ BrokerRemove(client[c].job) /\ UNCHANGED budget
       \/ Spend("fault") /\ UNCHANGED broker
    /\ UNCHANGED <<row, late, worker, fresh, told, barred>>

\* What enqueue does after the durable row: push, or give up without a broker.
AfterRow(c, r) ==
    IF c \in Brokerless
    THEN /\ client' = [client EXCEPT ![c] = IdleClient]
         /\ told' = [told EXCEPT ![r] = "unavailable"]
    ELSE /\ client' = [client EXCEPT ![c].pc = "push", ![c].row = r]
         /\ told' = [told EXCEPT ![r] = "none"]

\* Reset the finished row in place, whatever its status is by now; the update
\* throws, and enqueue with it, when the row was pruned in between.
ResetRow(c) ==
    LET r == client[c].row IN
    /\ client[c].pc = "reset"
    /\ \/ /\ Live(r)
          /\ row' = [row EXCEPT ![r].status = "QUEUED"]
          /\ AfterRow(c, r)
          /\ barred' = barred \ {client[c].job}
       \/ /\ ~Live(r)
          /\ client' = [client EXCEPT ![c] = IdleClient]
          /\ UNCHANGED <<row, told, barred>>
    /\ UNCHANGED <<broker, late, worker, fresh, budget>>

\* Create the row; jobId is unique, so a concurrent enqueue of the same key
\* that created it first makes this one a duplicate.
CreateRow(c) ==
    LET j == client[c].job IN
    /\ client[c].pc = "create"
    /\ \/ \E r \in Rows :
              /\ RowOf(j) = {} /\ row[r].status = "unborn"
              /\ row' = [row EXCEPT ![r] = [jobId |-> j, status |-> "QUEUED"]]
              /\ AfterRow(c, r)
              /\ barred' = barred \ {j}
       \/ /\ RowOf(j) # {}
          /\ client' = [client EXCEPT ![c] = IdleClient]
          /\ UNCHANGED <<row, told, barred>>
    /\ UNCHANGED <<broker, late, worker, fresh, budget>>

\* Push to the broker.  When the command fails or times out it may sit in
\* ioredis' offline buffer, from where it lands later or never.
Push(c) ==
    LET j == client[c].job
        r == client[c].row
    IN
    /\ client[c].pc = "push"
    /\ \/ /\ BrokerAdd(j, r)
          /\ told' = [told EXCEPT ![r] = "enqueued"]
          /\ client' = [client EXCEPT ![c] = IdleClient]
          /\ UNCHANGED <<late, budget>>
       \/ /\ Spend("fault")
          /\ late' = late \cup {[job |-> j, rec |-> r]}
          /\ client' = [client EXCEPT ![c].pc = "pushFailed"]
          /\ UNCHANGED <<broker, told>>
    /\ UNCHANGED <<row, worker, fresh, barred>>

\* The row is written QUEUED again and the caller told redis-unavailable.
PushFailed(c) ==
    LET r == client[c].row IN
    /\ client[c].pc = "pushFailed"
    /\ SafeWrite(r, "QUEUED")
    /\ told' = [told EXCEPT ![r] = "unavailable"]
    /\ client' = [client EXCEPT ![c] = IdleClient]
    /\ UNCHANGED <<broker, late, worker, fresh, barred>>

LandLate ==
    \E m \in late :
        /\ BrokerAdd(m.job, m.rec)
        /\ late' = late \ {m}
        /\ UNCHANGED <<row, client, worker, fresh, told, barred, budget>>

----------------------------------------------------------------------------
(* cancelJob: the durable flag first, then the broker *)

\* A terminal row is left alone.
Cancel(c, r) ==
    /\ client[c].pc = "idle" /\ Live(r) /\ row[r].status \notin Terminal
    /\ Spend("cancel")
    /\ client' = [client EXCEPT ![c] =
                     [pc |-> "cancelMark", job |-> row[r].jobId, row |-> r,
                      batch |-> {}]]
    /\ UNCHANGED <<row, broker, late, worker, fresh, told, barred>>

CancelMark(c) ==
    LET r == client[c].row
        j == client[c].job
    IN
    /\ client[c].pc = "cancelMark"
    /\ SafeWrite(r, "CANCELLED")
    /\ barred' = IF Held(j) THEN barred ELSE barred \cup {j}
    /\ client' = [client EXCEPT ![c].pc = "cancelRemove"]
    /\ UNCHANGED <<broker, late, worker, fresh, told>>

CancelRemove(c) ==
    /\ client[c].pc = "cancelRemove"
    /\ client' = [client EXCEPT ![c] = IdleClient]
    /\ \/ c \notin Brokerless /\ BrokerRemove(client[c].job)
                              /\ UNCHANGED budget
       \/ c \in Brokerless /\ UNCHANGED <<broker, budget>>
       \/ c \notin Brokerless /\ Spend("fault") /\ UNCHANGED broker
    /\ UNCHANGED <<row, late, worker, fresh, told, barred>>

----------------------------------------------------------------------------
(* cleanupOldJobs: find finished rows, then delete them by id *)

\* Any set of terminal rows may be the one past the retention window.
Cleanup(c, batch) ==
    /\ client[c].pc = "idle" /\ batch # {}
    /\ \A r \in batch : row[r].status \in Terminal
    /\ Spend("cleanup")
    /\ client' = [client EXCEPT ![c] =
                     [IdleClient EXCEPT !.pc = "delete", !.batch = batch]]
    /\ UNCHANGED <<row, broker, late, worker, fresh, told, barred>>

DeleteBatch(c) ==
    /\ client[c].pc = "delete"
    /\ row' = [r \in Rows |-> IF r \in client[c].batch /\ Live(r)
                              THEN [row[r] EXCEPT !.status = "pruned"]
                              ELSE row[r]]
    /\ client' = [client EXCEPT ![c] = IdleClient]
    /\ UNCHANGED <<broker, late, worker, fresh, told, barred, budget>>

\* A finished job leaves Redis: removeOnComplete, removeOnFail, queue.clean.
Evict(j) ==
    /\ broker[j].state \in {"completed", "failed"}
    /\ broker' = [broker EXCEPT ![j] = AbsentJob]
    /\ UNCHANGED <<row, late, client, worker, fresh, told, barred, budget>>

\* The process of a client dies in the middle of an operation.
ClientCrash(c) ==
    /\ client[c].pc # "idle"
    /\ Spend("clientCrash")
    /\ client' = [client EXCEPT ![c] = IdleClient]
    /\ UNCHANGED <<row, broker, late, worker, fresh, told, barred>>

----------------------------------------------------------------------------
(* runJob: a worker slot takes a job and keeps its row in step *)

\* BullMQ builds a job from a repeatable's template: no jobRecordId.
RepeatableFire(j) ==
    /\ j \in fresh
    /\ Spend("repeat")
    /\ fresh' = fresh \ {j}
    /\ BrokerAdd(j, NoRow)
    /\ UNCHANGED <<row, late, client, worker, told, barred>>

Take(w, j) ==
    LET b == [broker[j] EXCEPT !.state = "active", !.owner = w,
                               !.started = @ + 1]
    IN
    /\ worker[w].pc = "idle" /\ broker[j].state = "queued"
    /\ broker' = [broker EXCEPT ![j] = b]
    /\ worker' = [worker EXCEPT ![w] =
                     [IdleWorker EXCEPT !.pc = "ensure", !.job = j,
                                        !.env = b.rec,
                                        !.attempt = AttemptNumber(b)]]
    /\ UNCHANGED <<row, late, client, fresh, told, barred, budget>>

\* Mutant: the cancellation on record is not looked at.
StartWithRegardless(w, r, cancelled) ==
    worker' = [worker EXCEPT ![w].row = r, ![w].pc = "markRun"]

\* ensureJobRecord's answer, and the step runJob takes on it.
StartWith(w, r, cancelled) ==
    worker' = [worker EXCEPT ![w].row = r,
                  ![w].pc = IF cancelled THEN "settle" ELSE "markRun",
                  ![w].outcome = IF cancelled THEN "skip" ELSE "none"]

\* The row the envelope names, else the row of this job id, else a new one.
EnsureRow(w) ==
    LET j == worker[w].job
        env == worker[w].env
        known == IF env \in Rows /\ Live(env) THEN {env} ELSE RowOf(j)
    IN
    /\ worker[w].pc = "ensure"
    /\ \/ \E r \in known :
              /\ StartWith(w, r, row[r].status = "CANCELLED")
              /\ UNCHANGED <<row, told, budget>>
       \/ \E r \in Rows :
              /\ known = {} /\ row[r].status = "unborn"
              /\ row' = [row EXCEPT ![r] = [jobId |-> j, status |-> "RUNNING"]]
              /\ told' = [told EXCEPT ![r] = "none"]
              /\ StartWith(w, r, FALSE)
              /\ UNCHANGED budget
       \/ /\ Spend("dbFault")                       \* it throws
          /\ worker' = [worker EXCEPT ![w].pc = "settle",
                                      ![w].outcome = "throw"]
          /\ UNCHANGED <<row, told>>
    /\ UNCHANGED <<broker, late, client, fresh, barred>>

\* markJobRunning reads the status ...
MarkRunning(w) ==
    LET r == worker[w].row IN
    /\ worker[w].pc = "markRun"
    /\ worker' = [worker EXCEPT ![w].pc =
                     IF row[r].status = "CANCELLED" THEN "run" ELSE "writeRun"]
    /\ UNCHANGED <<row, broker, late, client, fresh, told, barred, budget>>

\* ... and writes the row without looking again.
WriteRunning(w) ==
    /\ worker[w].pc = "writeRun"
    /\ SafeWrite(worker[w].row, "RUNNING")
    /\ worker' = [worker EXCEPT ![w].pc = "run"]
    /\ UNCHANGED <<broker, late, client, fresh, told, barred>>

\* The processor returns ("ok", also when it saw the cancellation), throws, or
\* throws an UnrecoverableError; markJobCompleted or markJobFailed reads.
Finish(w, o) ==
    /\ worker[w].pc = "run"
    /\ worker' = [worker EXCEPT ![w].pc = "writeEnd", ![w].outcome = o,
                     ![w].cancelled = row[worker[w].row].status = "CANCELLED"]
    /\ UNCHANGED <<row, broker, late, client, fresh, told, barred, budget>>

\* Mutant: one retry too many is announced.
WillRetryOnceMore(w) ==
    worker[w].outcome = "throw" /\ worker[w].attempt <= Attempts

WillRetry(w) == worker[w].outcome = "throw" /\ worker[w].attempt < Attempts

EndStatus(w) ==
    IF worker[w].outcome = "ok" THEN "COMPLETED"
    ELSE IF WillRetry(w) THEN "QUEUED"
    ELSE "FAILED"

WriteEnd(w) ==
    LET r == worker[w].row IN
    /\ worker[w].pc = "writeEnd"
    /\ \/ ~worker[w].cancelled /\ SafeWrite(r, EndStatus(w))
       \/ worker[w].cancelled /\ UNCHANGED <<row, budget>>
    /\ worker' = [worker EXCEPT ![w].pc = "settle"]
    /\ UNCHANGED <<broker, late, client, fresh, told, barred>>

\* BullMQ's own verdict.  It retries by attemptsMade, and it rejects the
\* worker's answer when the lock is gone.
Settle(w) ==
    LET j == worker[w].job
        b == broker[j]
        o == worker[w].outcome
    IN
    /\ worker[w].pc = "settle"
    /\ broker' = [broker EXCEPT ![j] =
          IF b.owner # w THEN b
          ELSE IF o \in {"ok", "skip"}
          THEN [b EXCEPT !.state = "completed", !.owner = NoWorker]
          ELSE [b EXCEPT !.owner = NoWorker, !.made = @ + 1,
                   !.state = IF o = "throw" /\ b.made + 1 < Attempts
                             THEN "queued" ELSE "failed"]]
    /\ worker' = [worker EXCEPT ![w] = IdleWorker]
    /\ UNCHANGED <<row, late, client, fresh, told, barred, budget>>

\* The slot's process dies; nobody renews the lock.
Crash(w) ==
    LET j == worker[w].job IN
    /\ worker[w].pc # "idle"
    /\ Spend("crash")
    /\ worker' = [worker EXCEPT ![w] = IdleWorker]
    /\ broker' = IF broker[j].owner = w
                 THEN [broker EXCEPT ![j].owner = NoWorker] ELSE broker
    /\ UNCHANGED <<row, late, client, fresh, told, barred>>

\* The lock expires under a live slot: the process was blocked or cut off
\* longer than lockDuration.  It goes on working, without the lock.
LoseLock(j) ==
    /\ broker[j].state = "active" /\ broker[j].owner # NoWorker
    /\ Spend("lockLoss")
    /\ broker' = [broker EXCEPT ![j].owner = NoWorker]
    /\ UNCHANGED <<row, late, client, worker, fresh, told, barred>>

\* BullMQ's stalled check: an active job without a lock goes back to the
\* queue, or fails for good once it stalled more than MaxStalled times.  No
\* code of the repository runs, so the row is not touched.
StalledCheck(j) ==
    /\ broker[j].state = "active" /\ broker[j].owner = NoWorker
    /\ broker' = [broker EXCEPT ![j].stalled = @ + 1,
                     ![j].state = IF broker[j].stalled + 1 > MaxStalled
                                  THEN "failed" ELSE "queued"]
    /\ UNCHANGED <<row, late, client, worker, fresh, told, barred, budget>>

----------------------------------------------------------------------------

ClientStep(c) ==
    \/ RemoveFinished(c) \/ ResetRow(c) \/ CreateRow(c)
    \/ Push(c) \/ PushFailed(c)
    \/ CancelMark(c) \/ CancelRemove(c) \/ DeleteBatch(c)

ClientCall(c) ==
    \/ \E j \in JobIds : EnqueueKeyed(c, j) \/ EnqueueFresh(c, j)
    \/ \E r \in Rows, j \in JobIds : RetryJob(c, r, j)
    \/ \E r \in Rows : Cancel(c, r)
    \/ \E batch \in SUBSET Rows : Cleanup(c, batch)

WorkerStep(w) ==
    \/ EnsureRow(w) \/ MarkRunning(w) \/ WriteRunning(w)
    \/ \E o \in {"ok", "throw", "fatal"} : Finish(w, o)
    \/ WriteEnd(w) \/ Settle(w)

Next ==
    \/ \E c \in Clients : ClientStep(c) \/ ClientCall(c) \/ ClientCrash(c)
    \/ \E w \in Workers : WorkerStep(w) \/ Crash(w)
    \/ \E w \in Workers, j \in JobIds : Take(w, j)
    \/ \E j \in JobIds :
          Evict(j) \/ RepeatableFire(j) \/ LoseLock(j) \/ StalledCheck(j)
    \/ LandLate

Spec == Init /\ [][Next]_vars

\* A call that began goes on, a worker slot goes on with its job, BullMQ's
\* stalled check runs on its interval, and the lane is a queue: a job that
\* waits again and again while slots come free is taken.  Nothing makes a
\* caller call, a timed-out add land, or Redis evict a job.
Fairness ==
    /\ \A c \in Clients : WF_vars(ClientStep(c))
    /\ \A w \in Workers : WF_vars(WorkerStep(w))
    /\ \A j \in JobIds : SF_vars(\E w \in Workers : Take(w, j))
    /\ \A j \in JobIds : WF_vars(StalledCheck(j))

FairSpec == Spec /\ Fairness

----------------------------------------------------------------------------
(* Properties *)

\* Every variable keeps its shape; in particular job ids, row keys and lock
\* owners stay what the code can produce.
TypeOK ==
    /\ row \in [Rows -> RowRecords]
    /\ broker \in [JobIds -> BrokerJobs]
    /\ late \in SUBSET [job : JobIds, rec : Rows]
    /\ client \in [Clients -> ClientRecords]
    /\ worker \in [Workers -> WorkerRecords]
    /\ fresh \in SUBSET JobIds
    /\ told \in [Rows -> {"none", "enqueued", "unavailable"}]
    /\ barred \in SUBSET JobIds
    /\ budget \in [BudgetKinds -> Nat]

\* The row r was written for job j, even if it was pruned since.
WrittenFor(r, j) == row[r].status # "unborn" /\ row[r].jobId = j

\* "Durable row first, broker second" (queue.ts:176-181): whatever names a
\* JobRecord - a job in Redis, an add that may land late, a job a worker took
\* before it lost the lock - names one that was written for that job id, so
\* that no run ever reports into another job's row.
DurableRowFirst ==
    /\ \A j \in JobIds : broker[j].rec # NoRow => WrittenFor(broker[j].rec, j)
    /\ \A m \in late : WrittenFor(m.rec, m.job)
    /\ \A w \in Workers :
          /\ worker[w].env # NoRow => WrittenFor(worker[w].env, worker[w].job)
          /\ worker[w].row # NoRow => WrittenFor(worker[w].row, worker[w].job)

\* Nobody is in the middle of anything that concerns row r.
Settled(r) ==
    /\ \A c \in Clients : client[c].row # r
    /\ ~Held(row[r].jobId)

\* "Never report success for work that will not happen" (queue.ts:8-9) and
\* "the row must always reflect reality" (worker-runtime.ts:5): a row that
\* shows QUEUED or RUNNING while nobody works on it has a job in Redis that
\* will be run, unless its enqueue answered redis-unavailable.
NoStrandedRow ==
    \A r \in Rows :
        /\ row[r].status \in InFlight
        /\ told[r] # "unavailable"
        /\ Settled(r)
        => broker[row[r].jobId].state \in {"queued", "active"}

\* The durable flag is written before the broker is touched, which "closes the
\* window in which a queued job could be picked up with no cancellation on
\* record" (status.ts:289-291): a job cancelled while no worker held it never
\* gets to its processor, unless it is enqueued again.
NoRunAfterCancel ==
    \A w \in Workers :
        worker[w].job \in barred => worker[w].pc \in {"ensure", "settle"}

\* "A job BullMQ will retry goes back to QUEUED so the UI shows it as still in
\* flight" (worker-runtime.ts:251): while a failed attempt waits in Redis for
\* its retry, the row shows QUEUED, or CANCELLED.
RetryShown ==
    \A j \in JobIds :
        broker[j].state = "queued" /\ broker[j].made > 0 =>
            \A r \in RowOf(j) : row[r].status \in {"QUEUED", "CANCELLED"}

\* A cancelled row leaves CANCELLED only when it is enqueued again or pruned:
\* "no lifecycle write may take the row back out of that state"
\* (worker-runtime.ts:182).
CancelledIsSticky ==
    [][\A r \in Rows :
          row[r].status = "CANCELLED" /\ row'[r].status \in
                {"RUNNING", "COMPLETED", "FAILED", "QUEUED"} =>
             \E c \in Clients : client[c].pc = "reset" /\ client[c].row = r
      ]_vars

\* A row whose broker push failed waits "until a broker is available and it is
\* retried" (queue.ts:36-38): once nothing of it can land any more, retryJob
\* accepts it.
PushFailureRetryable ==
    \A r \in Rows :
        /\ Live(r) /\ told[r] = "unavailable" /\ Settled(r)
        /\ broker[row[r].jobId].state = "none"
        /\ \A m \in late : m.rec # r
        => CanRetry(r)

\* cleanupOldJobs deletes no row of live work: "deleting it would strand a
\* running job with nowhere to report" (status.ts:466-467).
OnlyFinishedPruned ==
    [][\A r \in Rows :
          row[r].status \in InFlight => row'[r].status # "pruned"]_vars

\* Every job a caller was told is enqueued, and every run of a repeatable,
\* ends with a terminal row, and for good.
RowsSettle ==
    <>[](\A r \in Rows :
            row[r].status \in InFlight => told[r] = "unavailable")

============================================================================

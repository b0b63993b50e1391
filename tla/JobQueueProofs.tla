--------------------------- MODULE JobQueueProofs ---------------------------
(***************************************************************************)
(* What holds of JobQueue for every set of jobs, rows, clients and         *)
(* workers, every number of attempts and every budget.                     *)
(***************************************************************************)
EXTENDS JobQueue, TLAPS

Statuses == Terminal \cup InFlight

(***************************************************************************)
(* The inductive invariant.  A client or worker that is past its first     *)
(* step names a job, and wherever it names a row the row was written for   *)
(* that job; so does everything that reached Redis.                        *)
(***************************************************************************)

WithJob == {"remove", "reset", "create", "push", "pushFailed",
            "cancelMark", "cancelRemove"}
WithRow == WithJob \ {"create"}
AtWork  == {"markRun", "writeRun", "run", "writeEnd"}

RowsNamed == \A r \in Rows : row[r].status # "unborn" => row[r].jobId \in JobIds

ClientNames ==
    \A c \in Clients :
        /\ client[c].pc \in WithJob => client[c].job \in JobIds
        /\ client[c].pc \in WithRow => /\ client[c].row \in Rows
                                       /\ WrittenFor(client[c].row, client[c].job)

WorkerNames ==
    \A w \in Workers :
        /\ worker[w].pc # "idle" => worker[w].job \in JobIds
        /\ worker[w].pc \in AtWork => worker[w].row \in Rows

Names == RowsNamed /\ ClientNames /\ WorkerNames

IInv == TypeOK /\ Names /\ DurableRowFirst

(***************************************************************************)
(* The helpers keep the shape of what they write.                          *)
(***************************************************************************)

\* Spending leaves every budget a natural number.
LEMMA SpendTyped ==
    ASSUME TypeOK, NEW k \in BudgetKinds, Spend(k)
    PROVE  budget' \in [BudgetKinds -> Nat]
<1>1. budget[k] \in Nat /\ budget[k] > 0
    BY DEF TypeOK, Spend
<1>2. budget[k] - 1 \in Nat
    BY <1>1
<1> QED
    BY <1>2 DEF TypeOK, Spend

\* Writing a status leaves a row record, and the job id of every row alone.
LEMMA StatusTyped ==
    ASSUME TypeOK, NEW r \in Rows, NEW s \in Statuses \cup {"pruned"}
    PROVE  [row EXCEPT ![r].status = s] \in [Rows -> RowRecords]
BY DEF TypeOK, RowRecords, Statuses, Terminal, InFlight

\* A row written by CreateRow or EnsureRow is a row record.
LEMMA NewRowTyped ==
    ASSUME TypeOK, NEW r \in Rows, NEW j \in JobIds, NEW s \in Statuses
    PROVE  [row EXCEPT ![r] = [jobId |-> j, status |-> s]]
               \in [Rows -> RowRecords]
BY DEF TypeOK, RowRecords, Statuses, Terminal, InFlight

\* safeWrite, with its three outcomes.
LEMMA SafeWriteTyped ==
    ASSUME TypeOK, NEW r \in Rows, NEW s \in Statuses, SafeWrite(r, s)
    PROVE  /\ row' \in [Rows -> RowRecords]
           /\ budget' \in [BudgetKinds -> Nat]
<1>1. CASE row' = [row EXCEPT ![r].status = s] /\ UNCHANGED budget
    BY <1>1, StatusTyped DEF TypeOK
<1>2. CASE UNCHANGED <<row, budget>>
    BY <1>2 DEF TypeOK
<1>3. CASE Spend("dbFault") /\ UNCHANGED row
    BY <1>3, SpendTyped DEF TypeOK, BudgetKinds
<1> QED
    BY <1>1, <1>2, <1>3 DEF SafeWrite

\* BullMQ's remove and add.
LEMMA BrokerTyped ==
    ASSUME TypeOK, NEW j \in JobIds, NEW r \in Rows \cup {NoRow}
    PROVE  /\ BrokerRemove(j) => broker' \in [JobIds -> BrokerJobs]
           /\ BrokerAdd(j, r) => broker' \in [JobIds -> BrokerJobs]
<1>1. AbsentJob \in BrokerJobs
    BY DEF AbsentJob, BrokerJobs
<1>2. QueuedJob(r) \in BrokerJobs
    BY DEF AbsentJob, BrokerJobs, QueuedJob
<1> QED
    BY <1>1, <1>2 DEF TypeOK, BrokerRemove, BrokerAdd

LEMMA IdleTyped ==
    /\ IdleClient \in ClientRecords /\ IdleWorker \in WorkerRecords
    /\ IdleClient.pc = "idle" /\ IdleWorker.pc = "idle"
    /\ IdleWorker.env = NoRow /\ IdleWorker.row = NoRow
    /\ AbsentJob \in BrokerJobs
BY DEF IdleClient, ClientRecords, IdleWorker, WorkerRecords, AbsentJob,
       BrokerJobs

\* attemptNumber counts in naturals.
LEMMA AttemptTyped ==
    \A b \in BrokerJobs :
        AttemptNumber(b) \in Nat /\ b.rec \in Rows \cup {NoRow}
BY DEF BrokerJobs, AttemptNumber

(***************************************************************************)
(* Type correctness, one step per action.                                  *)
(***************************************************************************)

LEMMA InitInv == Init => IInv
<1> SUFFICES ASSUME Init PROVE IInv
    OBVIOUS
<1>1. row \in [Rows -> RowRecords]
    BY DEF Init, RowRecords
<1>2. TypeOK
    BY <1>1, IdleTyped, BudgetAssumption DEF Init, TypeOK
<1>3. Names
    BY IdleTyped DEF Init, Names, RowsNamed, ClientNames, WorkerNames,
                     WithJob, WithRow, AtWork
<1>4. DurableRowFirst
    BY IdleTyped DEF Init, DurableRowFirst, AbsentJob
<1> QED
    BY <1>2, <1>3, <1>4 DEF IInv

\* What a client's fields are, by the step it is at.
LEMMA ClientFields ==
    ASSUME IInv, NEW c \in Clients
    PROVE  /\ client[c] \in ClientRecords
           /\ client[c].batch \in SUBSET Rows
           /\ client[c].pc \in WithJob => client[c].job \in JobIds
           /\ client[c].pc \in WithRow => client[c].row \in Rows
BY DEF IInv, TypeOK, Names, ClientNames, ClientRecords

LEMMA ClientCallTyped ==
    ASSUME IInv, NEW c \in Clients, ClientCall(c)
    PROVE  TypeOK'
<1>0. TypeOK
    BY DEF IInv
<1>1. ASSUME NEW j \in JobIds, EnqueueKeyed(c, j) PROVE TypeOK'
  <2>1. budget' \in [BudgetKinds -> Nat]
      BY <1>0, <1>1, SpendTyped DEF EnqueueKeyed, BudgetKinds
  <2>2. CASE client' = [client EXCEPT ![c] =
                [IdleClient EXCEPT !.pc = "create", !.job = j]]
    <3>1. [IdleClient EXCEPT !.pc = "create", !.job = j] \in ClientRecords
        BY DEF IdleClient, ClientRecords
    <3> QED
        BY <1>0, <1>1, <2>1, <2>2, <3>1 DEF EnqueueKeyed, TypeOK
  <2>3. CASE \E r \in RowOf(j) : client' = [client EXCEPT ![c] =
                    [pc |-> IF c \in Brokerless THEN "reset" ELSE "remove",
                     job |-> j, row |-> r, batch |-> {}]]
    <3> PICK r \in RowOf(j) : client' = [client EXCEPT ![c] =
                    [pc |-> IF c \in Brokerless THEN "reset" ELSE "remove",
                     job |-> j, row |-> r, batch |-> {}]]
        BY <2>3
    <3>1. [pc |-> IF c \in Brokerless THEN "reset" ELSE "remove",
           job |-> j, row |-> r, batch |-> {}] \in ClientRecords
        BY DEF ClientRecords, RowOf
    <3> QED
        BY <1>0, <1>1, <2>1, <3>1 DEF EnqueueKeyed, TypeOK
  <2> QED
      BY <1>1, <2>2, <2>3 DEF EnqueueKeyed
<1>2. ASSUME NEW j \in JobIds, EnqueueFresh(c, j) PROVE TypeOK'
  <2>1. budget' \in [BudgetKinds -> Nat]
      BY <1>0, <1>2, SpendTyped DEF EnqueueFresh, BudgetKinds
  <2>2. [IdleClient EXCEPT !.pc = "create", !.job = j] \in ClientRecords
      BY DEF IdleClient, ClientRecords
  <2> QED
      BY <1>0, <1>2, <2>1, <2>2 DEF EnqueueFresh, TypeOK
<1>3. ASSUME NEW r \in Rows, Cancel(c, r) PROVE TypeOK'
  <2>1. budget' \in [BudgetKinds -> Nat]
      BY <1>0, <1>3, SpendTyped DEF Cancel, BudgetKinds
  <2>2. [pc |-> "cancelMark", job |-> row[r].jobId, row |-> r, batch |-> {}]
            \in ClientRecords
      BY <1>0 DEF TypeOK, RowRecords, ClientRecords
  <2> QED
      BY <1>0, <1>3, <2>1, <2>2 DEF Cancel, TypeOK
<1>4. ASSUME NEW batch \in SUBSET Rows, Cleanup(c, batch) PROVE TypeOK'
  <2>1. budget' \in [BudgetKinds -> Nat]
      BY <1>0, <1>4, SpendTyped DEF Cleanup, BudgetKinds
  <2>2. [IdleClient EXCEPT !.pc = "delete", !.batch = batch] \in ClientRecords
      BY DEF IdleClient, ClientRecords
  <2> QED
      BY <1>0, <1>4, <2>1, <2>2 DEF Cleanup, TypeOK
<1> QED
    BY <1>1, <1>2, <1>3, <1>4 DEF ClientCall, RetryJob

\* AfterRow answers the caller or goes on to the push.
LEMMA AfterRowTyped ==
    ASSUME IInv, NEW c \in Clients, NEW r \in Rows, AfterRow(c, r)
    PROVE  /\ client' \in [Clients -> ClientRecords]
           /\ told' \in [Rows -> {"none", "enqueued", "unavailable"}]
<1>1. [client[c] EXCEPT !.pc = "push", !.row = r] \in ClientRecords
    BY ClientFields DEF ClientRecords
<1> QED
    BY <1>1, IdleTyped DEF AfterRow, IInv, TypeOK

LEMMA ClientStepTyped ==
    ASSUME IInv, NEW c \in Clients, ClientStep(c)
    PROVE  TypeOK'
<1>0. TypeOK
    BY DEF IInv
<1> DEFINE Moved(pc) == client' = [client EXCEPT ![c].pc = pc]
           Idled     == client' = [client EXCEPT ![c] = IdleClient]
<1>a. ASSUME NEW pc \in {"reset", "pushFailed", "cancelRemove"},
             Moved(pc) \/ Idled
      PROVE  client' \in [Clients -> ClientRecords]
  <2>1. [client[c] EXCEPT !.pc = pc] \in ClientRecords
      BY ClientFields DEF ClientRecords
  <2> QED
      BY <1>0, <1>a, <2>1, IdleTyped DEF TypeOK
<1>1. CASE RemoveFinished(c)
  <2>1. client[c].job \in JobIds
      BY <1>1, ClientFields DEF RemoveFinished, WithJob
  <2>2. broker' \in [JobIds -> BrokerJobs]
      BY <1>0, <1>1, <2>1, BrokerTyped DEF RemoveFinished, TypeOK
  <2>3. budget' \in [BudgetKinds -> Nat]
      BY <1>0, <1>1, SpendTyped DEF RemoveFinished, TypeOK, BudgetKinds
  <2> QED
      BY <1>0, <1>1, <1>a, <2>2, <2>3 DEF RemoveFinished, TypeOK
<1>2. CASE ResetRow(c)
  <2>1. client[c].row \in Rows
      BY <1>2, ClientFields DEF ResetRow, WithRow, WithJob
  <2>2. CASE Live(client[c].row)
    <3>1. row' \in [Rows -> RowRecords]
        BY <1>0, <1>2, <2>1, <2>2, StatusTyped
           DEF ResetRow, Statuses, InFlight
    <3> QED
        BY <1>0, <1>2, <2>1, <2>2, <3>1, AfterRowTyped DEF ResetRow, TypeOK
  <2>3. CASE ~Live(client[c].row)
      BY <1>0, <1>2, <1>a, <2>3 DEF ResetRow, TypeOK
  <2> QED
      BY <2>2, <2>3
<1>3. CASE CreateRow(c)
  <2>1. client[c].job \in JobIds
      BY <1>3, ClientFields DEF CreateRow, WithJob
  <2>2. CASE RowOf(client[c].job) = {}
    <3> PICK r \in Rows :
              /\ row' = [row EXCEPT ![r] =
                            [jobId |-> client[c].job, status |-> "QUEUED"]]
              /\ AfterRow(c, r)
              /\ barred' = barred \ {client[c].job}
        BY <1>3, <2>2 DEF CreateRow
    <3>1. row' \in [Rows -> RowRecords]
        BY <1>0, <2>1, NewRowTyped DEF Statuses, InFlight
    <3> QED
        BY <1>0, <1>3, <3>1, AfterRowTyped DEF CreateRow, TypeOK
  <2>3. CASE RowOf(client[c].job) # {}
      BY <1>0, <1>3, <1>a, <2>3 DEF CreateRow, TypeOK
  <2> QED
      BY <2>2, <2>3
<1>4. CASE Push(c)
  <2>1. client[c].job \in JobIds /\ client[c].row \in Rows
      BY <1>4, ClientFields DEF Push, WithRow, WithJob
  <2>2. broker' \in [JobIds -> BrokerJobs]
      BY <1>0, <1>4, <2>1, BrokerTyped DEF Push, TypeOK
  <2>3. budget' \in [BudgetKinds -> Nat]
      BY <1>0, <1>4, SpendTyped DEF Push, TypeOK, BudgetKinds
  <2>4. late' \in SUBSET [job : JobIds, rec : Rows]
      BY <1>0, <1>4, <2>1 DEF Push, TypeOK
  <2>5. client' \in [Clients -> ClientRecords]
      BY <1>4, <1>a DEF Push
  <2>6. told' \in [Rows -> {"none", "enqueued", "unavailable"}]
      BY <1>0, <1>4, <2>1 DEF Push, TypeOK
  <2> QED
      BY <1>0, <1>4, <2>2, <2>3, <2>4, <2>5, <2>6 DEF Push, TypeOK
<1>5. CASE PushFailed(c)
  <2>1. client[c].row \in Rows
      BY <1>5, ClientFields DEF PushFailed, WithRow, WithJob
  <2>2. row' \in [Rows -> RowRecords] /\ budget' \in [BudgetKinds -> Nat]
      BY <1>0, <1>5, <2>1, SafeWriteTyped DEF PushFailed, Statuses, InFlight
  <2> QED
      BY <1>0, <1>5, <1>a, <2>1, <2>2 DEF PushFailed, TypeOK
<1>6. CASE CancelMark(c)
  <2>1. client[c].job \in JobIds /\ client[c].row \in Rows
      BY <1>6, ClientFields DEF CancelMark, WithRow, WithJob
  <2>2. row' \in [Rows -> RowRecords] /\ budget' \in [BudgetKinds -> Nat]
      BY <1>0, <1>6, <2>1, SafeWriteTyped DEF CancelMark, Statuses, Terminal
  <2>3. barred' \in SUBSET JobIds
      BY <1>0, <1>6, <2>1 DEF CancelMark, TypeOK
  <2> QED
      BY <1>0, <1>6, <1>a, <2>2, <2>3 DEF CancelMark, TypeOK
<1>7. CASE CancelRemove(c)
  <2>1. client[c].job \in JobIds
      BY <1>7, ClientFields DEF CancelRemove, WithJob
  <2>2. broker' \in [JobIds -> BrokerJobs]
      BY <1>0, <1>7, <2>1, BrokerTyped DEF CancelRemove, TypeOK
  <2>3. budget' \in [BudgetKinds -> Nat]
      BY <1>0, <1>7, SpendTyped DEF CancelRemove, TypeOK, BudgetKinds
  <2> QED
      BY <1>0, <1>7, <1>a, <2>2, <2>3 DEF CancelRemove, TypeOK
<1>8. CASE DeleteBatch(c)
  <2>1. row' \in [Rows -> RowRecords]
      BY <1>0, <1>8 DEF DeleteBatch, TypeOK, RowRecords
  <2> QED
      BY <1>0, <1>8, <1>a, <2>1 DEF DeleteBatch, TypeOK
<1> QED
    BY <1>1, <1>2, <1>3, <1>4, <1>5, <1>6, <1>7, <1>8 DEF ClientStep

\* What a worker's fields are, by the step it is at.
LEMMA WorkerFields ==
    ASSUME IInv, NEW w \in Workers
    PROVE  /\ worker[w] \in WorkerRecords
           /\ worker[w].pc # "idle" => worker[w].job \in JobIds
           /\ worker[w].pc \in AtWork => worker[w].row \in Rows
BY DEF IInv, TypeOK, Names, WorkerNames

LEMMA StartWithTyped ==
    ASSUME IInv, NEW w \in Workers, NEW r \in Rows, NEW b \in BOOLEAN,
           StartWith(w, r, b)
    PROVE  worker' \in [Workers -> WorkerRecords]
<1>1. [worker[w] EXCEPT !.row = r,
           !.pc = IF b THEN "settle" ELSE "markRun",
           !.outcome = IF b THEN "skip" ELSE "none"] \in WorkerRecords
    BY WorkerFields DEF WorkerRecords
<1> QED
    BY <1>1 DEF StartWith, IInv, TypeOK

LEMMA WorkerStepTyped ==
    ASSUME IInv, NEW w \in Workers, WorkerStep(w)
    PROVE  TypeOK'
<1>0. TypeOK
    BY DEF IInv
<1>a. ASSUME NEW pc \in {"run", "writeRun", "settle"},
             worker' = [worker EXCEPT ![w].pc = pc]
      PROVE  worker' \in [Workers -> WorkerRecords]
  <2>1. [worker[w] EXCEPT !.pc = pc] \in WorkerRecords
      BY WorkerFields DEF WorkerRecords
  <2> QED
      BY <1>0, <1>a, <2>1 DEF TypeOK
<1>1. CASE EnsureRow(w)
  <2> DEFINE env   == worker[w].env
             known == IF env \in Rows /\ Live(env) THEN {env}
                      ELSE RowOf(worker[w].job)
  <2>1. worker[w].job \in JobIds
      BY <1>1, WorkerFields DEF EnsureRow
  <2>2. known \subseteq Rows
      BY DEF RowOf
  <2>3. CASE \E r \in known :
                /\ StartWith(w, r, row[r].status = "CANCELLED")
                /\ UNCHANGED <<row, told, budget>>
      BY <1>0, <1>1, <2>2, <2>3, StartWithTyped DEF EnsureRow, TypeOK
  <2>4. CASE \E r \in Rows :
                /\ row' = [row EXCEPT ![r] =
                              [jobId |-> worker[w].job, status |-> "RUNNING"]]
                /\ told' = [told EXCEPT ![r] = "none"]
                /\ StartWith(w, r, FALSE)
                /\ UNCHANGED budget
    <3> PICK r \in Rows :
                /\ row' = [row EXCEPT ![r] =
                              [jobId |-> worker[w].job, status |-> "RUNNING"]]
                /\ told' = [told EXCEPT ![r] = "none"]
                /\ StartWith(w, r, FALSE)
                /\ UNCHANGED budget
        BY <2>4
    <3>1. row' \in [Rows -> RowRecords]
        BY <1>0, <2>1, NewRowTyped DEF Statuses, InFlight
    <3> QED
        BY <1>0, <1>1, <3>1, StartWithTyped DEF EnsureRow, TypeOK
  <2>5. CASE /\ Spend("dbFault")
             /\ worker' = [worker EXCEPT ![w].pc = "settle",
                                         ![w].outcome = "throw"]
             /\ UNCHANGED <<row, told>>
    <3>1. [worker[w] EXCEPT !.pc = "settle", !.outcome = "throw"]
              \in WorkerRecords
        BY WorkerFields DEF WorkerRecords
    <3>2. budget' \in [BudgetKinds -> Nat]
        BY <1>0, <2>5, SpendTyped DEF BudgetKinds
    <3> QED
        BY <1>0, <1>1, <2>5, <3>1, <3>2 DEF EnsureRow, TypeOK
  <2> QED
      BY <1>1, <2>3, <2>4, <2>5 DEF EnsureRow
<1>2. CASE MarkRunning(w)
    BY <1>0, <1>2, <1>a DEF MarkRunning, TypeOK
<1>3. CASE WriteRunning(w)
  <2>1. worker[w].row \in Rows
      BY <1>3, WorkerFields DEF WriteRunning, AtWork
  <2>2. row' \in [Rows -> RowRecords] /\ budget' \in [BudgetKinds -> Nat]
      BY <1>0, <1>3, <2>1, SafeWriteTyped DEF WriteRunning, Statuses, InFlight
  <2> QED
      BY <1>0, <1>3, <1>a, <2>2 DEF WriteRunning, TypeOK
<1>4. ASSUME NEW o \in {"ok", "throw", "fatal"}, Finish(w, o) PROVE TypeOK'
  <2>1. [worker[w] EXCEPT !.pc = "writeEnd", !.outcome = o,
             !.cancelled = row[worker[w].row].status = "CANCELLED"]
            \in WorkerRecords
      BY WorkerFields DEF WorkerRecords
  <2> QED
      BY <1>0, <1>4, <2>1 DEF Finish, TypeOK
<1>5. CASE WriteEnd(w)
  <2>1. worker[w].row \in Rows
      BY <1>5, WorkerFields DEF WriteEnd, AtWork
  <2>2. EndStatus(w) \in Statuses
      BY DEF EndStatus, Statuses, Terminal, InFlight
  <2>3. row' \in [Rows -> RowRecords] /\ budget' \in [BudgetKinds -> Nat]
      BY <1>0, <1>5, <2>1, <2>2, SafeWriteTyped DEF WriteEnd, TypeOK
  <2> QED
      BY <1>0, <1>5, <1>a, <2>3 DEF WriteEnd, TypeOK
<1>6. CASE Settle(w)
  <2> DEFINE j == worker[w].job
             b == broker[j]
             o == worker[w].outcome
  <2>1. j \in JobIds /\ b \in BrokerJobs /\ b.made + 1 \in Nat
      BY <1>0, <1>6, WorkerFields DEF Settle, TypeOK, BrokerJobs
  <2>2. /\ [b EXCEPT !.state = "completed", !.owner = NoWorker] \in BrokerJobs
        /\ [b EXCEPT !.owner = NoWorker, !.made = @ + 1,
                     !.state = IF o = "throw" /\ b.made + 1 < Attempts
                               THEN "queued" ELSE "failed"] \in BrokerJobs
      BY <2>1 DEF BrokerJobs
  <2>3. broker' \in [JobIds -> BrokerJobs]
      BY <1>0, <1>6, <2>1, <2>2 DEF Settle, TypeOK
  <2> QED
      BY <1>0, <1>6, <2>3, IdleTyped DEF Settle, TypeOK
<1> QED
    BY <1>1, <1>2, <1>3, <1>4, <1>5, <1>6 DEF WorkerStep

\* The steps of BullMQ, of Redis and of what fails.
SystemStep ==
    \/ \E c \in Clients : ClientCrash(c)
    \/ \E w \in Workers : Crash(w)
    \/ \E w \in Workers, j \in JobIds : Take(w, j)
    \/ \E j \in JobIds :
          Evict(j) \/ RepeatableFire(j) \/ LoseLock(j) \/ StalledCheck(j)
    \/ LandLate

LEMMA SystemStepTyped == IInv /\ SystemStep => TypeOK'
<1> SUFFICES ASSUME IInv, SystemStep PROVE TypeOK'
    OBVIOUS
<1>0. TypeOK
    BY DEF IInv
<1>1. ASSUME NEW c \in Clients, ClientCrash(c) PROVE TypeOK'
  <2>1. budget' \in [BudgetKinds -> Nat]
      BY <1>0, <1>1, SpendTyped DEF ClientCrash, BudgetKinds
  <2> QED
      BY <1>0, <1>1, <2>1, IdleTyped DEF ClientCrash, TypeOK
<1>2. ASSUME NEW w \in Workers, Crash(w) PROVE TypeOK'
  <2>1. budget' \in [BudgetKinds -> Nat]
      BY <1>0, <1>2, SpendTyped DEF Crash, BudgetKinds
  <2>2. worker[w].job \in JobIds
      BY <1>2, WorkerFields DEF Crash
  <2>3. [broker[worker[w].job] EXCEPT !.owner = NoWorker] \in BrokerJobs
      BY <1>0, <2>2 DEF TypeOK, BrokerJobs
  <2>4. broker' \in [JobIds -> BrokerJobs]
      BY <1>0, <1>2, <2>2, <2>3 DEF Crash, TypeOK
  <2> QED
      BY <1>0, <1>2, <2>1, <2>4, IdleTyped DEF Crash, TypeOK
<1>3. ASSUME NEW w \in Workers, NEW j \in JobIds, Take(w, j) PROVE TypeOK'
  <2> DEFINE b == [broker[j] EXCEPT !.state = "active", !.owner = w,
                                    !.started = @ + 1]
  <2>1. b \in BrokerJobs
    <3>1. broker[j] \in BrokerJobs /\ broker[j].started + 1 \in Nat
        BY <1>0 DEF TypeOK, BrokerJobs
    <3> QED
        BY <3>1 DEF BrokerJobs
  <2>2. AttemptNumber(b) \in Nat /\ b.rec \in Rows \cup {NoRow}
      BY <2>1, AttemptTyped
  <2>3. [IdleWorker EXCEPT !.pc = "ensure", !.job = j, !.env = b.rec,
                           !.attempt = AttemptNumber(b)] \in WorkerRecords
      BY <2>2 DEF IdleWorker, WorkerRecords
  <2>4. /\ broker' = [broker EXCEPT ![j] = b]
        /\ worker' = [worker EXCEPT ![w] =
                         [IdleWorker EXCEPT !.pc = "ensure", !.job = j,
                            !.env = b.rec, !.attempt = AttemptNumber(b)]]
        /\ UNCHANGED <<row, late, client, fresh, told, barred, budget>>
      BY <1>3 DEF Take
  <2> HIDE DEF b
  <2> QED
      BY <1>0, <2>1, <2>3, <2>4 DEF TypeOK
<1>4. ASSUME NEW j \in JobIds, Evict(j) PROVE TypeOK'
    BY <1>0, <1>4, IdleTyped DEF Evict, TypeOK
<1>5. ASSUME NEW j \in JobIds, RepeatableFire(j) PROVE TypeOK'
  <2>1. budget' \in [BudgetKinds -> Nat]
      BY <1>0, <1>5, SpendTyped DEF RepeatableFire, BudgetKinds
  <2>2. broker' \in [JobIds -> BrokerJobs]
      BY <1>0, <1>5, BrokerTyped DEF RepeatableFire
  <2> QED
      BY <1>0, <1>5, <2>1, <2>2 DEF RepeatableFire, TypeOK
<1>6. ASSUME NEW j \in JobIds, LoseLock(j) PROVE TypeOK'
  <2>1. budget' \in [BudgetKinds -> Nat]
      BY <1>0, <1>6, SpendTyped DEF LoseLock, BudgetKinds
  <2>2. [broker[j] EXCEPT !.owner = NoWorker] \in BrokerJobs
      BY <1>0 DEF TypeOK, BrokerJobs
  <2> QED
      BY <1>0, <1>6, <2>1, <2>2 DEF LoseLock, TypeOK
<1>7. ASSUME NEW j \in JobIds, StalledCheck(j) PROVE TypeOK'
  <2>1. broker[j] \in BrokerJobs /\ broker[j].stalled + 1 \in Nat
      BY <1>0 DEF TypeOK, BrokerJobs
  <2>2. [broker[j] EXCEPT !.stalled = @ + 1,
            !.state = IF broker[j].stalled + 1 > MaxStalled
                      THEN "failed" ELSE "queued"] \in BrokerJobs
      BY <2>1 DEF BrokerJobs
  <2>3. broker' \in [JobIds -> BrokerJobs]
      BY <1>0, <1>7, <2>2 DEF StalledCheck, TypeOK
  <2> QED
      BY <1>0, <1>7, <2>3 DEF StalledCheck, TypeOK
<1>8. CASE LandLate
  <2> PICK m \in late : /\ BrokerAdd(m.job, m.rec)
                        /\ late' = late \ {m}
                        /\ UNCHANGED <<row, client, worker, fresh, told,
                                       barred, budget>>
      BY <1>8 DEF LandLate
  <2>1. m.job \in JobIds /\ m.rec \in Rows
      BY <1>0 DEF TypeOK
  <2>2. broker' \in [JobIds -> BrokerJobs]
      BY <1>0, <2>1, BrokerTyped
  <2> QED
      BY <1>0, <2>2 DEF TypeOK
<1> QED
    BY <1>1, <1>2, <1>3, <1>4, <1>5, <1>6, <1>7, <1>8 DEF SystemStep

\* Every step is a client's, a worker's or the system's.
LEMMA NextCases ==
    Next => \/ \E c \in Clients : ClientStep(c) \/ ClientCall(c)
            \/ \E w \in Workers : WorkerStep(w)
            \/ SystemStep
BY DEF Next, SystemStep

LEMMA NextTyped == IInv /\ [Next]_vars => TypeOK'
<1> SUFFICES ASSUME IInv, [Next]_vars PROVE TypeOK'
    OBVIOUS
<1>1. CASE UNCHANGED vars
    BY <1>1 DEF IInv, TypeOK, vars
<1>2. CASE Next
    BY <1>2, NextCases, ClientStepTyped, ClientCallTyped, WorkerStepTyped,
       SystemStepTyped
<1> QED
    BY <1>1, <1>2

(***************************************************************************)
(* Rows only grow: a row that was written stays written, for its job id.   *)
(***************************************************************************)

\* WrittenFor in the state after the step.
NowWritten(r, j) == row'[r].status # "unborn" /\ row'[r].jobId = j

RowsGrow ==
    \A r \in Rows : row[r].status # "unborn" =>
        row'[r].status # "unborn" /\ row'[r].jobId = row[r].jobId

LEMMA StatusGrows ==
    ASSUME IInv, NEW r \in Rows, row[r].status # "unborn",
           NEW s \in Statuses \cup {"pruned"},
           row' = [row EXCEPT ![r].status = s]
    PROVE  RowsGrow /\ RowsNamed'
BY DEF IInv, TypeOK, RowRecords, RowsGrow, Names, RowsNamed, Statuses,
       Terminal, InFlight

LEMMA NewRowGrows ==
    ASSUME IInv, NEW r \in Rows, row[r].status = "unborn",
           NEW j \in JobIds, NEW s \in Statuses,
           row' = [row EXCEPT ![r] = [jobId |-> j, status |-> s]]
    PROVE  RowsGrow /\ RowsNamed' /\ NowWritten(r, j)
BY DEF IInv, TypeOK, RowRecords, RowsGrow, Names, RowsNamed, Statuses,
       Terminal, InFlight, NowWritten

LEMMA SameRowsGrow == IInv /\ UNCHANGED row => RowsGrow /\ RowsNamed'
BY DEF IInv, RowsGrow, Names, RowsNamed

LEMMA SafeWriteGrows ==
    ASSUME IInv, NEW r \in Rows, NEW s \in Statuses, SafeWrite(r, s)
    PROVE  RowsGrow /\ RowsNamed'
<1>1. CASE Live(r) /\ row' = [row EXCEPT ![r].status = s]
    BY <1>1, StatusGrows DEF Live
<1>2. CASE UNCHANGED row
    BY <1>2, SameRowsGrow
<1> QED
    BY <1>1, <1>2 DEF SafeWrite

\* What was written for a job stays written for it.
LEMMA WrittenStays ==
    ASSUME IInv, RowsGrow, NEW r \in Rows, NEW j, WrittenFor(r, j)
    PROVE  NowWritten(r, j)
BY DEF RowsGrow, WrittenFor, NowWritten

(***************************************************************************)
(* The parts of the invariant, each kept by a step that leaves its         *)
(* variable alone.                                                         *)
(***************************************************************************)

BrokerDurable ==
    \A j \in JobIds : broker[j].rec # NoRow => WrittenFor(broker[j].rec, j)
LateDurable ==
    \A m \in late : WrittenFor(m.rec, m.job)
WorkerDurable ==
    \A w \in Workers :
        /\ worker[w].env # NoRow => WrittenFor(worker[w].env, worker[w].job)
        /\ worker[w].row # NoRow => WrittenFor(worker[w].row, worker[w].job)

LEMMA DurableParts ==
    /\ DurableRowFirst <=> BrokerDurable /\ LateDurable /\ WorkerDurable
    /\ DurableRowFirst' <=> BrokerDurable' /\ LateDurable' /\ WorkerDurable'
BY DEF DurableRowFirst, BrokerDurable, LateDurable, WorkerDurable

\* A step that changes one broker job: its envelope is the old one, none, or
\* the name of a row written for that job.
LEMMA BrokerKept ==
    ASSUME IInv, RowsGrow,
           \A j \in JobIds :
              \/ broker'[j].rec = broker[j].rec
              \/ broker'[j].rec = NoRow
              \/ WrittenFor(broker'[j].rec, j) /\ broker'[j].rec \in Rows
    PROVE  BrokerDurable'
<1>1. \A j \in JobIds : broker[j].rec \in Rows \cup {NoRow}
    BY DEF IInv, TypeOK, BrokerJobs
<1>2. BrokerDurable
    BY DurableParts DEF IInv
<1> QED
    BY <1>1, <1>2, WrittenStays DEF BrokerDurable, WrittenFor, NowWritten

LEMMA LateKept ==
    ASSUME IInv, RowsGrow, late' \subseteq late
    PROVE  LateDurable'
<1>1. \A m \in late : m.rec \in Rows
    BY DEF IInv, TypeOK
<1>2. LateDurable
    BY DurableParts DEF IInv
<1> QED
    BY <1>1, <1>2, WrittenStays DEF LateDurable, WrittenFor, NowWritten

\* A step of worker w that leaves its job and its envelope alone.
LEMMA WorkersKept ==
    ASSUME IInv, RowsGrow,
           \A w \in Workers :
              \/ worker'[w] = worker[w]
              \/ worker'[w] = IdleWorker
              \/ /\ worker'[w].job = worker[w].job /\ worker'[w].job \in JobIds
                 /\ worker'[w].env = worker[w].env
                 /\ worker'[w].row = worker[w].row
                 /\ worker'[w].pc \in AtWork => worker[w].row \in Rows
    PROVE  WorkerDurable' /\ WorkerNames'
<1>1. \A w \in Workers : /\ worker[w].env \in Rows \cup {NoRow}
                         /\ worker[w].row \in Rows \cup {NoRow}
    BY DEF IInv, TypeOK, WorkerRecords
<1>2. WorkerDurable /\ WorkerNames
    BY DurableParts DEF IInv, Names
<1>3. WorkerDurable'
    BY <1>1, <1>2, WrittenStays, IdleTyped
       DEF WorkerDurable, WrittenFor, NowWritten
<1>4. WorkerNames'
    BY <1>2, IdleTyped DEF WorkerNames, AtWork
<1> QED
    BY <1>3, <1>4

\* A step of client c that leaves the names alone, or starts or ends a call.
LEMMA ClientsKept ==
    ASSUME IInv, RowsGrow,
           \A c \in Clients :
              \/ client'[c] = client[c]
              \/ client'[c].pc \notin WithJob
              \/ /\ client'[c].job \in JobIds
                 /\ client'[c].pc \in WithRow =>
                       /\ client'[c].row \in Rows
                       /\ \/ WrittenFor(client'[c].row, client'[c].job)
                          \/ NowWritten(client'[c].row, client'[c].job)
    PROVE  ClientNames'
<1>1. ClientNames
    BY DEF IInv, Names
<1>2. SUFFICES ASSUME NEW c \in Clients
      PROVE  /\ client'[c].pc \in WithJob => client'[c].job \in JobIds
             /\ client'[c].pc \in WithRow =>
                   /\ client'[c].row \in Rows
                   /\ NowWritten(client'[c].row, client'[c].job)
    BY DEF ClientNames, WrittenFor, NowWritten
<1>3. CASE client'[c] = client[c]
    BY <1>1, <1>3, WrittenStays DEF ClientNames
<1>4. CASE client'[c].pc \notin WithJob
    BY <1>4 DEF WithRow
<1>5. CASE /\ client'[c].job \in JobIds
           /\ client'[c].pc \in WithRow =>
                 /\ client'[c].row \in Rows
                 /\ \/ WrittenFor(client'[c].row, client'[c].job)
                    \/ NowWritten(client'[c].row, client'[c].job)
    BY <1>5, WrittenStays
<1> QED
    BY <1>3, <1>4, <1>5

LEMMA Together ==
    ASSUME RowsNamed', ClientNames', WorkerNames',
           BrokerDurable', LateDurable', WorkerDurable'
    PROVE  Names' /\ DurableRowFirst'
BY DurableParts DEF Names

\* What a call, and most steps, leave alone.
LEMMA OthersKept ==
    ASSUME IInv, RowsGrow
    PROVE  /\ UNCHANGED broker => BrokerDurable'
           /\ UNCHANGED late => LateDurable'
           /\ UNCHANGED worker => WorkerDurable' /\ WorkerNames'
           /\ UNCHANGED client => ClientNames'
BY BrokerKept, LateKept, WorkersKept, ClientsKept

(***************************************************************************)
(* The invariant is inductive.                                             *)
(***************************************************************************)

LEMMA ClientCallNames ==
    ASSUME IInv, NEW c \in Clients, ClientCall(c)
    PROVE  Names' /\ DurableRowFirst'
<1>0. TypeOK /\ Names
    BY DEF IInv
<1>a. ASSUME UNCHANGED <<row, broker, late, worker>>, ClientNames'
      PROVE  Names' /\ DurableRowFirst'
    BY <1>a, SameRowsGrow, OthersKept, Together
<1>1. ASSUME NEW j \in JobIds, EnqueueKeyed(c, j) PROVE ClientNames'
  <2>1. RowsGrow
      BY <1>1, SameRowsGrow DEF EnqueueKeyed
  <2>2. CASE client' = [client EXCEPT ![c] =
                [IdleClient EXCEPT !.pc = "create", !.job = j]]
    <3>1. client'[c].pc = "create" /\ client'[c].job = j
        BY <1>0, <2>2 DEF TypeOK, IdleClient
    <3> QED
        BY <1>0, <2>1, <2>2, <3>1, ClientsKept DEF WithRow, TypeOK
  <2>3. CASE \E r \in RowOf(j) : client' = [client EXCEPT ![c] =
                    [pc |-> IF c \in Brokerless THEN "reset" ELSE "remove",
                     job |-> j, row |-> r, batch |-> {}]]
    <3> PICK r \in RowOf(j) : client' = [client EXCEPT ![c] =
                    [pc |-> IF c \in Brokerless THEN "reset" ELSE "remove",
                     job |-> j, row |-> r, batch |-> {}]]
        BY <2>3
    <3>1. client'[c].job = j /\ client'[c].row = r
        BY <1>0 DEF TypeOK
    <3>2. r \in Rows /\ WrittenFor(r, j)
        BY DEF RowOf, Live, WrittenFor
    <3> QED
        BY <1>0, <2>1, <3>1, <3>2, ClientsKept DEF TypeOK
  <2> QED
      BY <1>1, <2>2, <2>3 DEF EnqueueKeyed
<1>2. ASSUME NEW j \in JobIds, EnqueueFresh(c, j) PROVE ClientNames'
  <2>1. RowsGrow
      BY <1>2, SameRowsGrow DEF EnqueueFresh
  <2>2. client'[c].pc = "create" /\ client'[c].job = j
      BY <1>0, <1>2 DEF TypeOK, IdleClient, EnqueueFresh
  <2> QED
      BY <1>0, <1>2, <2>1, <2>2, ClientsKept DEF WithRow, TypeOK, EnqueueFresh
<1>3. ASSUME NEW r \in Rows, Cancel(c, r) PROVE ClientNames'
  <2>1. RowsGrow
      BY <1>3, SameRowsGrow DEF Cancel
  <2>2. client'[c].job = row[r].jobId /\ client'[c].row = r
      BY <1>0, <1>3 DEF TypeOK, Cancel
  <2>3. WrittenFor(r, row[r].jobId) /\ row[r].jobId \in JobIds
      BY <1>0, <1>3 DEF Cancel, Live, WrittenFor, Names, RowsNamed
  <2> QED
      BY <1>0, <1>3, <2>1, <2>2, <2>3, ClientsKept DEF TypeOK, Cancel
<1>4. ASSUME NEW batch \in SUBSET Rows, Cleanup(c, batch) PROVE ClientNames'
  <2>1. RowsGrow
      BY <1>4, SameRowsGrow DEF Cleanup
  <2>2. client'[c].pc = "delete"
      BY <1>0, <1>4 DEF TypeOK, Cleanup, IdleClient
  <2> QED
      BY <1>0, <1>4, <2>1, <2>2, ClientsKept DEF TypeOK, Cleanup, WithJob
<1>5. CASE \E j \in JobIds : EnqueueKeyed(c, j)
    BY <1>5, <1>1, <1>a DEF EnqueueKeyed
<1>6. CASE \E j \in JobIds : EnqueueFresh(c, j)
    BY <1>6, <1>2, <1>a DEF EnqueueFresh
<1>7. CASE \E r \in Rows : Cancel(c, r)
    BY <1>7, <1>3, <1>a DEF Cancel
<1>8. CASE \E batch \in SUBSET Rows : Cleanup(c, batch)
    BY <1>8, <1>4, <1>a DEF Cleanup
<1> QED
    BY <1>5, <1>6, <1>7, <1>8 DEF ClientCall, RetryJob

LEMMA ClientStepNames ==
    ASSUME IInv, NEW c \in Clients, ClientStep(c)
    PROVE  Names' /\ DurableRowFirst'
<1>0. TypeOK /\ Names
    BY DEF IInv
<1>i. ASSUME RowsGrow, client' = [client EXCEPT ![c] = IdleClient]
      PROVE  ClientNames'
  <2>1. client'[c].pc \notin WithJob
      BY <1>0, <1>i, IdleTyped DEF TypeOK, WithJob
  <2> QED
      BY <1>0, <1>i, <2>1, ClientsKept DEF TypeOK
\* From one step of the call to the next, with its names.
<1>m. ASSUME RowsGrow, client[c].pc \in WithRow, NEW pc,
             client' = [client EXCEPT ![c].pc = pc]
      PROVE  ClientNames'
  <2>1. /\ client'[c].job = client[c].job /\ client'[c].row = client[c].row
        /\ \A d \in Clients \ {c} : client'[d] = client[d]
      BY <1>0, <1>m DEF TypeOK, ClientRecords
  <2>2. /\ client[c].job \in JobIds /\ client[c].row \in Rows
        /\ WrittenFor(client[c].row, client[c].job)
      BY <1>0, <1>m DEF Names, ClientNames, WithRow
  <2> QED
      BY <1>m, <2>1, <2>2, ClientsKept
<1>1. CASE RemoveFinished(c)
  <2>1. RowsGrow /\ RowsNamed'
      BY <1>1, SameRowsGrow DEF RemoveFinished
  <2>2. ClientNames'
      BY <1>1, <1>m, <2>1 DEF RemoveFinished, WithRow, WithJob
  <2>3. BrokerDurable'
      BY <1>0, <1>1, <2>1, BrokerKept
         DEF RemoveFinished, BrokerRemove, AbsentJob, TypeOK
  <2> QED
      BY <1>1, <2>1, <2>2, <2>3, OthersKept, Together DEF RemoveFinished
<1>2. CASE ResetRow(c)
  <2> DEFINE r == client[c].row
  <2>1. /\ r \in Rows /\ client[c].job \in JobIds
        /\ WrittenFor(r, client[c].job)
      BY <1>0, <1>2 DEF ResetRow, WithRow, WithJob, Names, ClientNames
  <2>2. RowsGrow /\ RowsNamed'
    <3>1. CASE Live(r)
        BY <1>2, <2>1, <3>1, StatusGrows
           DEF ResetRow, Live, Statuses, InFlight
    <3>2. CASE ~Live(r)
        BY <1>2, <3>2, SameRowsGrow DEF ResetRow
    <3> QED
        BY <3>1, <3>2
  <2>3. ClientNames'
    <3>1. CASE client' = [client EXCEPT ![c] = IdleClient]
        BY <1>i, <2>2, <3>1
    <3>2. CASE client' = [client EXCEPT ![c].pc = "push", ![c].row = r]
      <4>1. /\ client'[c].job = client[c].job /\ client'[c].row = r
            /\ \A d \in Clients \ {c} : client'[d] = client[d]
          BY <1>0, <3>2 DEF TypeOK, ClientRecords
      <4> QED
          BY <2>1, <2>2, <4>1, ClientsKept
    <3> QED
        BY <1>2, <3>1, <3>2 DEF ResetRow, AfterRow
  <2> QED
      BY <1>2, <2>2, <2>3, OthersKept, Together DEF ResetRow
<1>3. CASE CreateRow(c)
  <2> DEFINE j == client[c].job
  <2>1. j \in JobIds
      BY <1>3, ClientFields DEF CreateRow, WithJob
  <2>2. CASE \E r \in Rows :
                /\ row[r].status = "unborn"
                /\ row' = [row EXCEPT ![r] =
                              [jobId |-> j, status |-> "QUEUED"]]
                /\ AfterRow(c, r)
    <3> PICK r \in Rows :
                /\ row[r].status = "unborn"
                /\ row' = [row EXCEPT ![r] =
                              [jobId |-> j, status |-> "QUEUED"]]
                /\ AfterRow(c, r)
        BY <2>2
    <3>1. RowsGrow /\ RowsNamed' /\ NowWritten(r, j)
        BY <2>1, NewRowGrows DEF Statuses, InFlight
    <3>2. ClientNames'
      <4>1. CASE client' = [client EXCEPT ![c] = IdleClient]
          BY <1>i, <3>1, <4>1
      <4>2. CASE client' = [client EXCEPT ![c].pc = "push", ![c].row = r]
        <5>1. /\ client'[c].job = j /\ client'[c].row = r
              /\ \A d \in Clients \ {c} : client'[d] = client[d]
            BY <1>0, <4>2 DEF TypeOK, ClientRecords
        <5> QED
            BY <2>1, <3>1, <5>1, ClientsKept
      <4> QED
          BY <4>1, <4>2 DEF AfterRow
    <3> QED
        BY <1>3, <3>1, <3>2, OthersKept, Together DEF CreateRow
  <2>3. CASE /\ client' = [client EXCEPT ![c] = IdleClient]
             /\ UNCHANGED <<row, told, barred>>
      BY <1>3, <1>i, <2>3, SameRowsGrow, OthersKept, Together DEF CreateRow
  <2> QED
      BY <1>3, <2>2, <2>3 DEF CreateRow
<1>4. CASE Push(c)
  <2> DEFINE j == client[c].job
             r == client[c].row
  <2>1. j \in JobIds /\ r \in Rows /\ WrittenFor(r, j)
      BY <1>0, <1>4 DEF Push, WithRow, WithJob, Names, ClientNames
  <2>2. RowsGrow /\ RowsNamed'
      BY <1>4, SameRowsGrow DEF Push
  <2>3. CASE /\ BrokerAdd(j, r) /\ UNCHANGED <<late, budget>>
             /\ client' = [client EXCEPT ![c] = IdleClient]
    <3>1. BrokerDurable'
        BY <1>0, <2>1, <2>2, <2>3, BrokerKept
           DEF BrokerAdd, QueuedJob, AbsentJob, TypeOK
    <3> QED
        BY <1>4, <1>i, <2>2, <2>3, <3>1, OthersKept, Together DEF Push
  <2>4. CASE /\ late' = late \cup {[job |-> j, rec |-> r]}
             /\ client' = [client EXCEPT ![c].pc = "pushFailed"]
             /\ UNCHANGED <<broker, told>>
    <3>1. ClientNames'
        BY <1>4, <1>m, <2>2, <2>4 DEF Push, WithRow, WithJob
    <3>2. LateDurable'
      <4>1. \A m \in late : m.rec \in Rows /\ WrittenFor(m.rec, m.job)
          BY <1>0, DurableParts DEF TypeOK, IInv, LateDurable
      <4>2. \A m \in late' : NowWritten(m.rec, m.job)
          BY <2>1, <2>2, <2>4, <4>1, WrittenStays
      <4> QED
          BY <4>2 DEF LateDurable, WrittenFor, NowWritten
    <3> QED
        BY <1>4, <2>2, <2>4, <3>1, <3>2, OthersKept, Together DEF Push
  <2> QED
      BY <1>4, <2>3, <2>4 DEF Push
<1>5. CASE PushFailed(c)
  <2>1. client[c].row \in Rows
      BY <1>5, ClientFields DEF PushFailed, WithRow, WithJob
  <2>2. RowsGrow /\ RowsNamed'
      BY <1>5, <2>1, SafeWriteGrows DEF PushFailed, Statuses, InFlight
  <2> QED
      BY <1>5, <1>i, <2>2, OthersKept, Together DEF PushFailed
<1>6. CASE CancelMark(c)
  <2>1. client[c].row \in Rows
      BY <1>6, ClientFields DEF CancelMark, WithRow, WithJob
  <2>2. RowsGrow /\ RowsNamed'
      BY <1>6, <2>1, SafeWriteGrows DEF CancelMark, Statuses, Terminal
  <2>3. ClientNames'
      BY <1>6, <1>m, <2>2 DEF CancelMark, WithRow, WithJob
  <2> QED
      BY <1>6, <2>2, <2>3, OthersKept, Together DEF CancelMark
<1>7. CASE CancelRemove(c)
  <2>1. RowsGrow /\ RowsNamed'
      BY <1>7, SameRowsGrow DEF CancelRemove
  <2>2. BrokerDurable'
      BY <1>0, <1>7, <2>1, BrokerKept
         DEF CancelRemove, BrokerRemove, AbsentJob, TypeOK
  <2> QED
      BY <1>7, <1>i, <2>1, <2>2, OthersKept, Together DEF CancelRemove
<1>8. CASE DeleteBatch(c)
  <2>1. RowsGrow /\ RowsNamed'
      BY <1>0, <1>8 DEF DeleteBatch, Live, RowsGrow, Names, RowsNamed, TypeOK,
                        RowRecords
  <2> QED
      BY <1>8, <1>i, <2>1, OthersKept, Together DEF DeleteBatch
<1> QED
    BY <1>1, <1>2, <1>3, <1>4, <1>5, <1>6, <1>7, <1>8 DEF ClientStep

\* ensureJobRecord names a row written for the worker's job.
LEMMA StartWithNames ==
    ASSUME IInv, RowsGrow, NEW w \in Workers, worker[w].pc # "idle",
           NEW r \in Rows, NEW b,
           WrittenFor(r, worker[w].job) \/ NowWritten(r, worker[w].job),
           StartWith(w, r, b)
    PROVE  WorkerDurable' /\ WorkerNames'
<1>0. TypeOK /\ Names /\ WorkerDurable
    BY DurableParts DEF IInv
<1>1. /\ worker'[w].job = worker[w].job /\ worker'[w].env = worker[w].env
      /\ worker'[w].row = r
      /\ \A v \in Workers \ {w} : worker'[v] = worker[v]
    BY <1>0 DEF TypeOK, WorkerRecords, StartWith
<1>2. \A v \in Workers : /\ worker[v].env \in Rows \cup {NoRow}
                         /\ worker[v].row \in Rows \cup {NoRow}
    BY <1>0 DEF TypeOK, WorkerRecords
<1>3. NowWritten(r, worker[w].job)
    BY WrittenStays
<1>4. \A v \in Workers :
        /\ worker'[v].env # NoRow => NowWritten(worker'[v].env, worker'[v].job)
        /\ worker'[v].row # NoRow => NowWritten(worker'[v].row, worker'[v].job)
    BY <1>0, <1>1, <1>2, <1>3, WrittenStays DEF WorkerDurable
<1>5. WorkerDurable'
    BY <1>4 DEF WorkerDurable, WrittenFor, NowWritten
<1>6. WorkerNames'
    BY <1>0, <1>1 DEF Names, WorkerNames
<1> QED
    BY <1>5, <1>6

LEMMA WorkerStepNames ==
    ASSUME IInv, NEW w \in Workers, WorkerStep(w)
    PROVE  Names' /\ DurableRowFirst'
<1>0. TypeOK /\ Names /\ WorkerDurable
    BY DurableParts DEF IInv
\* From one step of runJob to the next, with its names.
<1>m. ASSUME RowsGrow, worker[w].pc # "idle",
             \A v \in Workers \ {w} : worker'[v] = worker[v],
             worker'[w].job = worker[w].job, worker'[w].env = worker[w].env,
             worker'[w].row = worker[w].row,
             worker[w].pc \in AtWork \/ worker'[w].pc = "settle"
      PROVE  WorkerDurable' /\ WorkerNames'
  <2>1. worker[w].job \in JobIds
      BY <1>m, WorkerFields
  <2>2. worker'[w].pc \in AtWork => worker[w].row \in Rows
      BY <1>m, WorkerFields DEF AtWork
  <2> QED
      BY <1>m, <2>1, <2>2, WorkersKept
<1>1. CASE EnsureRow(w)
  <2> DEFINE j     == worker[w].job
             env   == worker[w].env
             known == IF env \in Rows /\ Live(env) THEN {env} ELSE RowOf(j)
  <2>1. j \in JobIds /\ worker[w].pc # "idle"
      BY <1>1, WorkerFields DEF EnsureRow
  <2>2. \A r \in known : r \in Rows /\ WrittenFor(r, j)
    <3>1. env \in Rows => WrittenFor(env, j)
        BY <1>0, NullAssumption DEF WorkerDurable
    <3> QED
        BY <3>1 DEF RowOf, Live, WrittenFor
  <2>3. CASE \E r \in known :
                /\ StartWith(w, r, row[r].status = "CANCELLED")
                /\ UNCHANGED <<row, told, budget>>
      BY <1>1, <2>1, <2>2, <2>3, SameRowsGrow, StartWithNames, OthersKept,
         Together DEF EnsureRow
  <2>4. CASE \E r \in Rows :
                /\ row[r].status = "unborn"
                /\ row' = [row EXCEPT ![r] = [jobId |-> j, status |-> "RUNNING"]]
                /\ StartWith(w, r, FALSE)
    <3> PICK r \in Rows :
                /\ row[r].status = "unborn"
                /\ row' = [row EXCEPT ![r] = [jobId |-> j, status |-> "RUNNING"]]
                /\ StartWith(w, r, FALSE)
        BY <2>4
    <3>1. RowsGrow /\ RowsNamed' /\ NowWritten(r, j)
        BY <2>1, NewRowGrows DEF Statuses, InFlight
    <3> QED
        BY <1>1, <2>1, <3>1, StartWithNames, OthersKept, Together
           DEF EnsureRow
  <2>5. CASE /\ worker' = [worker EXCEPT ![w].pc = "settle",
                                         ![w].outcome = "throw"]
             /\ UNCHANGED <<row, told>>
    <3>1. RowsGrow /\ RowsNamed'
        BY <2>5, SameRowsGrow
    <3>2. /\ \A v \in Workers \ {w} : worker'[v] = worker[v]
          /\ worker'[w].job = worker[w].job /\ worker'[w].env = worker[w].env
          /\ worker'[w].row = worker[w].row /\ worker'[w].pc = "settle"
        BY <1>0, <2>5 DEF TypeOK, WorkerRecords
    <3> QED
        BY <1>1, <1>m, <2>1, <3>1, <3>2, OthersKept, Together DEF EnsureRow
  <2> QED
      BY <1>1, <2>3, <2>4, <2>5 DEF EnsureRow
<1>p. ASSUME NEW pc, worker' = [worker EXCEPT ![w].pc = pc]
      PROVE  /\ \A v \in Workers \ {w} : worker'[v] = worker[v]
             /\ worker'[w].job = worker[w].job
             /\ worker'[w].env = worker[w].env
             /\ worker'[w].row = worker[w].row
    BY <1>0, <1>p DEF TypeOK, WorkerRecords
<1>2. CASE MarkRunning(w)
  <2>1. RowsGrow /\ RowsNamed'
      BY <1>2, SameRowsGrow DEF MarkRunning
  <2>2. WorkerDurable' /\ WorkerNames'
      BY <1>2, <1>m, <1>p, <2>1 DEF MarkRunning, AtWork
  <2> QED
      BY <1>2, <2>1, <2>2, OthersKept, Together DEF MarkRunning
<1>3. CASE WriteRunning(w)
  <2>1. worker[w].row \in Rows
      BY <1>3, WorkerFields DEF WriteRunning, AtWork
  <2>2. RowsGrow /\ RowsNamed'
      BY <1>3, <2>1, SafeWriteGrows DEF WriteRunning, Statuses, InFlight
  <2>3. WorkerDurable' /\ WorkerNames'
      BY <1>3, <1>m, <1>p, <2>2 DEF WriteRunning, AtWork
  <2> QED
      BY <1>3, <2>2, <2>3, OthersKept, Together DEF WriteRunning
<1>4. ASSUME NEW o \in {"ok", "throw", "fatal"}, Finish(w, o)
      PROVE  Names' /\ DurableRowFirst'
  <2>1. RowsGrow /\ RowsNamed'
      BY <1>4, SameRowsGrow DEF Finish
  <2>2. /\ \A v \in Workers \ {w} : worker'[v] = worker[v]
        /\ worker'[w].job = worker[w].job /\ worker'[w].env = worker[w].env
        /\ worker'[w].row = worker[w].row
      BY <1>0, <1>4 DEF TypeOK, WorkerRecords, Finish
  <2>3. WorkerDurable' /\ WorkerNames'
      BY <1>4, <1>m, <2>1, <2>2 DEF Finish, AtWork
  <2> QED
      BY <1>4, <2>1, <2>3, OthersKept, Together DEF Finish
<1>5. CASE WriteEnd(w)
  <2>1. worker[w].row \in Rows
      BY <1>5, WorkerFields DEF WriteEnd, AtWork
  <2>2. EndStatus(w) \in Statuses
      BY DEF EndStatus, Statuses, Terminal, InFlight
  <2>3. RowsGrow /\ RowsNamed'
      BY <1>5, <2>1, <2>2, SafeWriteGrows, SameRowsGrow DEF WriteEnd
  <2>4. WorkerDurable' /\ WorkerNames'
      BY <1>5, <1>m, <1>p, <2>3 DEF WriteEnd, AtWork
  <2> QED
      BY <1>5, <2>3, <2>4, OthersKept, Together DEF WriteEnd
<1>6. CASE Settle(w)
  <2>1. RowsGrow /\ RowsNamed'
      BY <1>6, SameRowsGrow DEF Settle
  <2>2. BrokerDurable'
      BY <1>0, <1>6, <2>1, BrokerKept DEF Settle, TypeOK, BrokerJobs
  <2>3. WorkerDurable' /\ WorkerNames'
      BY <1>0, <1>6, <2>1, WorkersKept DEF Settle, TypeOK
  <2> QED
      BY <1>6, <2>1, <2>2, <2>3, OthersKept, Together DEF Settle
<1> QED
    BY <1>1, <1>2, <1>3, <1>4, <1>5, <1>6 DEF WorkerStep

LEMMA SystemStepNames == IInv /\ SystemStep => Names' /\ DurableRowFirst'
<1> SUFFICES ASSUME IInv, SystemStep PROVE Names' /\ DurableRowFirst'
    OBVIOUS
<1>0. TypeOK /\ Names /\ BrokerDurable /\ LateDurable
    BY DurableParts DEF IInv
<1>1. RowsGrow /\ RowsNamed'
    BY SameRowsGrow DEF SystemStep, ClientCrash, Crash, Take, Evict,
                        RepeatableFire, LoseLock, StalledCheck, LandLate
<1>2. ASSUME NEW c \in Clients, ClientCrash(c)
      PROVE  Names' /\ DurableRowFirst'
  <2>1. client'[c].pc \notin WithJob
      BY <1>0, <1>2, IdleTyped DEF ClientCrash, TypeOK, WithJob
  <2>2. ClientNames'
      BY <1>0, <1>1, <1>2, <2>1, ClientsKept DEF ClientCrash, TypeOK
  <2> QED
      BY <1>1, <1>2, <2>2, OthersKept, Together DEF ClientCrash
<1>3. ASSUME NEW w \in Workers, Crash(w) PROVE Names' /\ DurableRowFirst'
  <2>1. BrokerDurable'
      BY <1>0, <1>1, <1>3, BrokerKept DEF Crash, TypeOK, BrokerJobs
  <2>2. WorkerDurable' /\ WorkerNames'
      BY <1>0, <1>1, <1>3, WorkersKept DEF Crash, TypeOK
  <2> QED
      BY <1>1, <1>3, <2>1, <2>2, OthersKept, Together DEF Crash
<1>4. ASSUME NEW w \in Workers, NEW j \in JobIds, Take(w, j)
      PROVE  Names' /\ DurableRowFirst'
  <2>1. BrokerDurable'
      BY <1>0, <1>1, <1>4, BrokerKept DEF Take, TypeOK, BrokerJobs
  <2>2. /\ worker'[w].pc = "ensure" /\ worker'[w].job = j
        /\ worker'[w].env = broker[j].rec /\ worker'[w].row = NoRow
        /\ \A v \in Workers \ {w} : worker'[v] = worker[v]
      BY <1>0, <1>4 DEF Take, TypeOK, BrokerJobs, IdleWorker
  <2>3. \A r \in Rows : \A i : WrittenFor(r, i) => NowWritten(r, i)
      BY <1>1, WrittenStays
  <2>4. WorkerDurable'
    <3>1. /\ \A v \in Workers : /\ worker[v].env \in Rows \cup {NoRow}
                                /\ worker[v].row \in Rows \cup {NoRow}
          /\ broker[j].rec \in Rows \cup {NoRow}
        BY <1>0 DEF TypeOK, WorkerRecords, BrokerJobs
    <3>2. WorkerDurable
        BY DurableParts DEF IInv
    <3> QED
        BY <1>0, <2>2, <2>3, <3>1, <3>2
           DEF WorkerDurable, BrokerDurable, WrittenFor, NowWritten
  <2>5. WorkerNames'
      BY <1>0, <2>2 DEF Names, WorkerNames, AtWork
  <2> QED
      BY <1>1, <1>4, <2>1, <2>4, <2>5, OthersKept, Together DEF Take
<1>5. ASSUME NEW j \in JobIds, Evict(j) PROVE Names' /\ DurableRowFirst'
  <2>1. BrokerDurable'
      BY <1>0, <1>1, <1>5, BrokerKept DEF Evict, TypeOK, AbsentJob
  <2> QED
      BY <1>1, <1>5, <2>1, OthersKept, Together DEF Evict
<1>6. ASSUME NEW j \in JobIds, RepeatableFire(j)
      PROVE  Names' /\ DurableRowFirst'
  <2>1. BrokerDurable'
      BY <1>0, <1>1, <1>6, BrokerKept
         DEF RepeatableFire, BrokerAdd, QueuedJob, AbsentJob, TypeOK
  <2> QED
      BY <1>1, <1>6, <2>1, OthersKept, Together DEF RepeatableFire
<1>7. ASSUME NEW j \in JobIds, LoseLock(j) PROVE Names' /\ DurableRowFirst'
  <2>1. BrokerDurable'
      BY <1>0, <1>1, <1>7, BrokerKept DEF LoseLock, TypeOK, BrokerJobs
  <2> QED
      BY <1>1, <1>7, <2>1, OthersKept, Together DEF LoseLock
<1>8. ASSUME NEW j \in JobIds, StalledCheck(j)
      PROVE  Names' /\ DurableRowFirst'
  <2>1. BrokerDurable'
      BY <1>0, <1>1, <1>8, BrokerKept DEF StalledCheck, TypeOK, BrokerJobs
  <2> QED
      BY <1>1, <1>8, <2>1, OthersKept, Together DEF StalledCheck
<1>9. CASE LandLate
  <2> PICK m \in late : BrokerAdd(m.job, m.rec) /\ late' = late \ {m}
      BY <1>9 DEF LandLate
  <2>1. m.job \in JobIds /\ m.rec \in Rows /\ WrittenFor(m.rec, m.job)
      BY <1>0 DEF TypeOK, LateDurable
  <2>2. BrokerDurable'
      BY <1>0, <1>1, <2>1, BrokerKept
         DEF BrokerAdd, QueuedJob, AbsentJob, TypeOK
  <2>3. LateDurable'
      BY <1>1, LateKept
  <2> QED
      BY <1>1, <1>9, <2>2, <2>3, OthersKept, Together DEF LandLate
<1> QED
    BY <1>2, <1>3, <1>4, <1>5, <1>6, <1>7, <1>8, <1>9 DEF SystemStep

LEMMA NextInv == IInv /\ [Next]_vars => IInv'
<1> SUFFICES ASSUME IInv, [Next]_vars PROVE IInv'
    OBVIOUS
<1>1. TypeOK'
    BY NextTyped
<1>2. Names' /\ DurableRowFirst'
  <2>1. CASE UNCHANGED vars
      BY <2>1, SameRowsGrow, OthersKept, Together DEF vars
  <2>2. CASE Next
      BY <2>2, NextCases, ClientStepNames, ClientCallNames, WorkerStepNames,
         SystemStepNames
  <2> QED
      BY <2>1, <2>2
<1> QED
    BY <1>1, <1>2 DEF IInv

(***************************************************************************)
(* The theorems.                                                           *)
(***************************************************************************)

\* IInv holds in every reachable state.
THEOREM Invariance == Spec => []IInv
BY InitInv, NextInv, PTL DEF Spec

\* Every variable keeps its shape, whatever the interleaving of enqueues,
\* cancellations, pruning, crashes, lost locks and lost commands.
THEOREM TypeCorrect == Spec => []TypeOK
<1>1. IInv => TypeOK
    BY DEF IInv
<1> QED
    BY <1>1, Invariance, PTL

\* Durable row first (queue.ts:176-181): no job in Redis, no late add and no
\* worker ever names a row that was not written for its own job id.
THEOREM RowsAreDurable == Spec => []DurableRowFirst
<1>1. IInv => DurableRowFirst
    BY DEF IInv
<1> QED
    BY <1>1, Invariance, PTL

(***************************************************************************)
(* One row per broker job: what the unique column jobId gives the proofs   *)
(* below.  A step brings no row to life, or it creates one for a job that  *)
(* has none.                                                               *)
(***************************************************************************)

OneRowPerJob ==
    \A r, s \in Rows :
        Live(r) /\ Live(s) /\ row[r].jobId = row[s].jobId => r = s

NowLive(r) == row'[r].status \notin {"unborn", "pruned"}

NoneBorn ==
    \A r \in Rows : NowLive(r) => Live(r) /\ row'[r].jobId = row[r].jobId

OneBorn ==
    \E r \in Rows, j \in JobIds :
        /\ RowOf(j) = {}
        /\ row' = [row EXCEPT ![r] = [jobId |-> j, status |-> row'[r].status]]

LEMMA NoneBornOneRow ==
    ASSUME OneRowPerJob, NoneBorn
    PROVE  OneRowPerJob'
BY DEF OneRowPerJob, NoneBorn, NowLive, Live

LEMMA OneBornOneRow ==
    ASSUME TypeOK, OneRowPerJob, OneBorn
    PROVE  OneRowPerJob'
<1> PICK r \in Rows, j \in JobIds :
        /\ RowOf(j) = {}
        /\ row' = [row EXCEPT ![r] = [jobId |-> j, status |-> row'[r].status]]
    BY DEF OneBorn
<1>1. row'[r].jobId = j /\ \A s \in Rows \ {r} : row'[s] = row[s]
    BY DEF TypeOK
<1>2. \A s \in Rows : Live(s) => row[s].jobId # j
    BY DEF RowOf
<1> QED
    BY <1>1, <1>2 DEF OneRowPerJob, Live

\* Writing a status on a live row brings no other row to life.
LEMMA StatusBearsNone ==
    ASSUME TypeOK, NEW r \in Rows, NEW s, Live(r),
           row' = [row EXCEPT ![r].status = s]
    PROVE  NoneBorn
BY DEF TypeOK, RowRecords, NoneBorn, NowLive, Live

LEMMA SameRowsBearNone == UNCHANGED row => NoneBorn
BY DEF NoneBorn, NowLive, Live

LEMMA SafeWriteBearsNone ==
    ASSUME TypeOK, NEW r \in Rows, NEW s, SafeWrite(r, s)
    PROVE  NoneBorn
<1>1. CASE Live(r) /\ row' = [row EXCEPT ![r].status = s]
    BY <1>1, StatusBearsNone
<1>2. CASE UNCHANGED row
    BY <1>2, SameRowsBearNone
<1> QED
    BY <1>1, <1>2 DEF SafeWrite

LEMMA NextBears == IInv /\ [Next]_vars => NoneBorn \/ OneBorn
<1> SUFFICES ASSUME IInv, [Next]_vars PROVE NoneBorn \/ OneBorn
    OBVIOUS
<1>0. TypeOK
    BY DEF IInv
<1>1. ASSUME NEW c \in Clients, ClientStep(c) PROVE NoneBorn \/ OneBorn
  <2>1. CASE ResetRow(c)
    <3>1. client[c].row \in Rows
        BY <2>1, ClientFields DEF ResetRow, WithRow, WithJob
    <3> QED
        BY <1>0, <2>1, <3>1, StatusBearsNone, SameRowsBearNone DEF ResetRow
  <2>2. CASE CreateRow(c)
    <3>1. client[c].job \in JobIds
        BY <2>2, ClientFields DEF CreateRow, WithJob
    <3>2. CASE RowOf(client[c].job) = {}
      <4> PICK r \in Rows : row' = [row EXCEPT ![r] =
                               [jobId |-> client[c].job, status |-> "QUEUED"]]
          BY <2>2, <3>2 DEF CreateRow
      <4>1. row'[r].status = "QUEUED"
          BY <1>0 DEF TypeOK
      <4> QED
          BY <3>1, <3>2, <4>1 DEF OneBorn
    <3>3. CASE RowOf(client[c].job) # {}
        BY <2>2, <3>3, SameRowsBearNone DEF CreateRow
    <3> QED
        BY <3>2, <3>3
  <2>3. CASE PushFailed(c)
    <3>1. client[c].row \in Rows
        BY <2>3, ClientFields DEF PushFailed, WithRow, WithJob
    <3> QED
        BY <1>0, <2>3, <3>1, SafeWriteBearsNone DEF PushFailed
  <2>4. CASE CancelMark(c)
    <3>1. client[c].row \in Rows
        BY <2>4, ClientFields DEF CancelMark, WithRow, WithJob
    <3> QED
        BY <1>0, <2>4, <3>1, SafeWriteBearsNone DEF CancelMark
  <2>5. CASE DeleteBatch(c)
      BY <1>0, <2>5 DEF DeleteBatch, NoneBorn, NowLive, Live, TypeOK,
                        RowRecords
  <2>6. CASE RemoveFinished(c) \/ Push(c) \/ CancelRemove(c)
      BY <2>6, SameRowsBearNone DEF RemoveFinished, Push, CancelRemove
  <2> QED
      BY <1>1, <2>1, <2>2, <2>3, <2>4, <2>5, <2>6 DEF ClientStep
<1>2. ASSUME NEW w \in Workers, WorkerStep(w) PROVE NoneBorn \/ OneBorn
  <2>1. CASE EnsureRow(w)
    <3> DEFINE j     == worker[w].job
               env   == worker[w].env
               known == IF env \in Rows /\ Live(env) THEN {env} ELSE RowOf(j)
    <3>1. j \in JobIds
        BY <2>1, WorkerFields DEF EnsureRow
    <3>2. CASE UNCHANGED row
        BY <3>2, SameRowsBearNone
    <3>3. CASE \E r \in Rows :
                  /\ known = {}
                  /\ row' = [row EXCEPT ![r] =
                                [jobId |-> j, status |-> "RUNNING"]]
      <4> PICK r \in Rows :
                  /\ known = {}
                  /\ row' = [row EXCEPT ![r] =
                                [jobId |-> j, status |-> "RUNNING"]]
          BY <3>3
      <4>1. row'[r].status = "RUNNING"
          BY <1>0 DEF TypeOK
      <4>2. RowOf(j) = {}
          OBVIOUS
      <4> QED
          BY <3>1, <4>1, <4>2 DEF OneBorn
    <3> QED
        BY <2>1, <3>2, <3>3 DEF EnsureRow
  <2>2. CASE WriteRunning(w)
    <3>1. worker[w].row \in Rows
        BY <2>2, WorkerFields DEF WriteRunning, AtWork
    <3> QED
        BY <1>0, <2>2, <3>1, SafeWriteBearsNone DEF WriteRunning
  <2>3. CASE WriteEnd(w)
    <3>1. worker[w].row \in Rows
        BY <2>3, WorkerFields DEF WriteEnd, AtWork
    <3> QED
        BY <1>0, <2>3, <3>1, SafeWriteBearsNone, SameRowsBearNone DEF WriteEnd
  <2>4. CASE \/ MarkRunning(w) \/ Settle(w)
             \/ \E o \in {"ok", "throw", "fatal"} : Finish(w, o)
      BY <2>4, SameRowsBearNone DEF MarkRunning, Settle, Finish
  <2> QED
      BY <1>2, <2>1, <2>2, <2>3, <2>4 DEF WorkerStep
<1>3. ASSUME NEW c \in Clients, ClientCall(c) PROVE UNCHANGED row
    BY <1>3 DEF ClientCall, RetryJob, EnqueueKeyed, EnqueueFresh, Cancel,
                Cleanup
<1>4. SystemStep => UNCHANGED row
    BY DEF SystemStep, ClientCrash, Crash, Take, Evict, RepeatableFire,
           LoseLock, StalledCheck, LandLate
<1> QED
    BY <1>1, <1>2, <1>3, <1>4, NextCases, SameRowsBearNone DEF vars

\* The unique column, as a fact of every state.
LEMMA OneRow == Spec => []OneRowPerJob
<1>1. Init => OneRowPerJob
    BY DEF Init, OneRowPerJob, Live
<1>2. IInv /\ OneRowPerJob /\ [Next]_vars => OneRowPerJob'
    BY NextBears, NoneBornOneRow, OneBornOneRow DEF IInv
<1> QED
    BY <1>1, <1>2, Invariance, PTL DEF Spec

(***************************************************************************)
(* No run after a cancel.  The property needs every event the README shows *)
(* to break it out of the way: a lost command (the failed push writes      *)
(* QUEUED over the cancellation), a lost row write (the cancellation is    *)
(* never recorded) and the pruning of a row.  Crashes, lost locks, late    *)
(* takes and clients without a broker are all allowed.                     *)
(***************************************************************************)

Faults == {"fault", "dbFault", "cleanup"}

\* No such event is in the budget of the behaviour (of its first state).
Calm == \A k \in Faults : budget[k] = 0

\* Nothing of what Calm rules out has happened or is under way.
StaysCalm ==
    /\ \A k \in Faults : budget[k] = 0
    /\ \A c \in Clients : client[c].pc \notin {"pushFailed", "delete"}
    /\ \A r \in Rows : row[r].status # "pruned"

Recorded(j) ==
    \E r \in Rows : row[r].jobId = j /\ row[r].status = "CANCELLED"

\* A barred job has its cancellation on record, and whoever took it since has
\* not looked at the record yet or was turned away by it.
Barred == NoRunAfterCancel /\ \A j \in barred : Recorded(j)

CInv == IInv /\ OneRowPerJob /\ StaysCalm /\ Barred

\* A calm system spends nothing it must not.
LEMMA CalmSpends ==
    ASSUME TypeOK, StaysCalm, NEW k \in BudgetKinds, Spend(k)
    PROVE  \A f \in Faults : budget'[f] = 0
BY DEF TypeOK, StaysCalm, Spend, Faults, BudgetKinds

LEMMA CalmFaults ==
    ASSUME StaysCalm
    PROVE  ~Spend("fault") /\ ~Spend("dbFault") /\ ~Spend("cleanup")
BY DEF StaysCalm, Spend, Faults

\* Every row that exists lives, so a row write is done.
LEMMA CalmWrites ==
    ASSUME StaysCalm, NEW r \in Rows, row[r].status # "unborn", NEW s,
           SafeWrite(r, s)
    PROVE  row' = [row EXCEPT ![r].status = s] /\ UNCHANGED budget
<1>1. Live(r)
    BY DEF StaysCalm, Live
<1> QED
    BY <1>1, CalmFaults DEF SafeWrite

\* The record of a barred job outlasts a write to any other job's row.
LEMMA RecordKept ==
    ASSUME Barred, NEW j \in barred,
           \A r \in Rows :
              \/ row[r].jobId # j \/ row[r].status = "unborn"
              \/ row'[r] = row[r]
              \/ row'[r].jobId = j /\ row'[r].status = "CANCELLED"
    PROVE  Recorded(j)'
BY DEF Barred, Recorded

\* A step that bars no further job, and lets no worker past the record.
LEMMA BarredKept ==
    ASSUME CInv, barred' \subseteq barred,
           \A j \in barred' : Recorded(j)',
           \A w \in Workers :
              \/ worker'[w] = worker[w]
              \/ worker'[w].job \notin JobIds
              \/ worker'[w].pc \in {"ensure", "settle"}
              \/ /\ worker'[w].job = worker[w].job
                 /\ worker[w].pc \notin {"ensure", "settle"}
    PROVE  Barred'
<1>1. barred \subseteq JobIds
    BY DEF CInv, IInv, TypeOK
<1> QED
    BY <1>1 DEF CInv, Barred, NoRunAfterCancel

LEMMA ClientCallCalm ==
    ASSUME CInv, NEW c \in Clients, ClientCall(c)
    PROVE  StaysCalm' /\ Barred'
<1>0. TypeOK /\ StaysCalm /\ IInv /\ Barred
    BY DEF CInv, IInv
<1>1. UNCHANGED <<row, broker, late, worker, barred>>
    BY DEF ClientCall, RetryJob, EnqueueKeyed, EnqueueFresh, Cancel, Cleanup
<1>2. Barred'
    BY <1>0, <1>1, BarredKept DEF Barred, Recorded
<1> DEFINE Goal == \A d \in Clients : client'[d].pc \notin {"pushFailed", "delete"}
<1>3. Goal
  <2>1. ASSUME NEW m, m.pc \notin {"pushFailed", "delete"},
               client' = [client EXCEPT ![c] = m]
        PROVE  Goal
    BY <1>0, <2>1 DEF TypeOK, StaysCalm
  <2> HIDE DEF Goal
  <2>2. ASSUME NEW j \in JobIds, EnqueueKeyed(c, j) PROVE Goal
    <3>1. CASE client' = [client EXCEPT ![c] =
                   [IdleClient EXCEPT !.pc = "create", !.job = j]]
        BY <2>1, <3>1 DEF IdleClient
    <3>2. ASSUME NEW r \in RowOf(j),
                 client' = [client EXCEPT ![c] =
                   [pc |-> IF c \in Brokerless THEN "reset" ELSE "remove",
                    job |-> j, row |-> r, batch |-> {}]]
          PROVE  Goal
      <4>1. [pc |-> IF c \in Brokerless THEN "reset" ELSE "remove",
             job |-> j, row |-> r, batch |-> {}].pc
                \notin {"pushFailed", "delete"}
          OBVIOUS
      <4> QED
          BY <2>1, <3>2, <4>1
    <3> QED
        BY <2>2, <3>1, <3>2 DEF EnqueueKeyed
  <2>3. ASSUME NEW j \in JobIds, EnqueueFresh(c, j) PROVE Goal
      BY <2>1, <2>3 DEF EnqueueFresh, IdleClient
  <2>4. ASSUME NEW r \in Rows, Cancel(c, r) PROVE Goal
      BY <2>1, <2>4 DEF Cancel
  <2>5. ASSUME NEW batch \in SUBSET Rows, Cleanup(c, batch) PROVE FALSE
      BY <1>0, <2>5, CalmFaults DEF Cleanup
  <2> QED
      BY <2>2, <2>3, <2>4, <2>5 DEF ClientCall, RetryJob
<1>4. \A f \in Faults : budget'[f] = 0
  <2>1. Spend("enqueue") \/ Spend("cancel") \/ Spend("cleanup")
    BY DEF ClientCall, RetryJob, EnqueueKeyed, EnqueueFresh, Cancel, Cleanup
  <2> QED
    BY <1>0, <2>1, CalmSpends DEF BudgetKinds
<1> QED
    BY <1>0, <1>1, <1>2, <1>3, <1>4 DEF StaysCalm

\* The row a client works on exists, and is that of its job.
LEMMA CalmRow ==
    ASSUME CInv, NEW c \in Clients, client[c].pc \in WithRow
    PROVE  /\ client[c].row \in Rows /\ client[c].job \in JobIds
           /\ row[client[c].row].jobId = client[c].job
           /\ Live(client[c].row)
BY DEF CInv, IInv, Names, ClientNames, WithRow, WrittenFor, StaysCalm, Live

LEMMA ClientStepCalm ==
    ASSUME CInv, NEW c \in Clients, ClientStep(c)
    PROVE  StaysCalm' /\ Barred'
<1>0. TypeOK /\ StaysCalm /\ IInv /\ Barred
    BY DEF CInv, IInv
<1> DEFINE ClientsCalm ==
        \A d \in Clients : client'[d].pc \notin {"pushFailed", "delete"}
<1>i. client' = [client EXCEPT ![c] = IdleClient] => ClientsCalm
    BY <1>0, IdleTyped DEF TypeOK, StaysCalm
<1>m. ASSUME NEW pc \in {"reset", "cancelRemove"},
             client' = [client EXCEPT ![c].pc = pc]
      PROVE  ClientsCalm
    BY <1>0, <1>m DEF TypeOK, ClientRecords, StaysCalm
<1>r. ASSUME NEW r, client' = [client EXCEPT ![c].pc = "push", ![c].row = r]
      PROVE  ClientsCalm
    BY <1>0, <1>r DEF TypeOK, ClientRecords, StaysCalm
<1> HIDE DEF ClientsCalm
<1>b. ASSUME UNCHANGED <<row, worker>>, barred' = barred PROVE Barred'
    BY <1>0, <1>b, BarredKept DEF Barred, Recorded
<1>1. CASE RemoveFinished(c)
  <2>1. UNCHANGED budget
      BY <1>0, <1>1, CalmFaults DEF RemoveFinished
  <2> QED
      BY <1>0, <1>1, <1>m, <1>b, <2>1 DEF RemoveFinished, StaysCalm, ClientsCalm
<1>2. CASE ResetRow(c)
  <2> DEFINE r == client[c].row
             j == client[c].job
  <2>1. r \in Rows /\ row[r].jobId = j /\ Live(r)
      BY <1>2, CalmRow DEF ResetRow, WithRow, WithJob
  <2>2. /\ row' = [row EXCEPT ![r].status = "QUEUED"]
        /\ barred' = barred \ {j} /\ UNCHANGED <<worker, budget>>
        /\ AfterRow(c, r)
      BY <1>2, <2>1 DEF ResetRow
  <2>3. \A i \in barred' : Recorded(i)'
      BY <1>0, <2>1, <2>2, RecordKept DEF TypeOK
  <2>4. Barred'
      BY <2>2, <2>3, BarredKept
  <2>5. ClientsCalm
      BY <1>i, <1>r, <2>2 DEF AfterRow
  <2>6. \A s \in Rows : row'[s].status # "pruned"
      BY <1>0, <2>2 DEF TypeOK, StaysCalm, ClientsCalm
  <2> QED
      BY <1>0, <2>2, <2>4, <2>5, <2>6 DEF StaysCalm, ClientsCalm
<1>3. CASE CreateRow(c)
  <2> DEFINE j == client[c].job
  <2>1. CASE \E r \in Rows :
                /\ RowOf(j) = {} /\ row[r].status = "unborn"
                /\ row' = [row EXCEPT ![r] = [jobId |-> j, status |-> "QUEUED"]]
                /\ AfterRow(c, r)
                /\ barred' = barred \ {j}
    <3> PICK r \in Rows :
                /\ row[r].status = "unborn"
                /\ row' = [row EXCEPT ![r] = [jobId |-> j, status |-> "QUEUED"]]
                /\ AfterRow(c, r)
                /\ barred' = barred \ {j}
        BY <2>1
    <3>1. \A i \in barred' : Recorded(i)'
        BY <1>0, RecordKept DEF TypeOK
    <3>2. Barred'
        BY <1>3, <3>1, BarredKept DEF CreateRow
    <3>3. ClientsCalm
        BY <1>i, <1>r DEF AfterRow
    <3>4. \A s \in Rows : row'[s].status # "pruned"
        BY <1>0 DEF TypeOK, StaysCalm, ClientsCalm
    <3> QED
        BY <1>0, <1>3, <3>2, <3>3, <3>4 DEF StaysCalm, ClientsCalm, CreateRow
  <2>2. CASE /\ client' = [client EXCEPT ![c] = IdleClient]
             /\ UNCHANGED <<row, told, barred>>
      BY <1>0, <1>3, <1>i, <1>b, <2>2 DEF StaysCalm, ClientsCalm, CreateRow
  <2> QED
      BY <1>3, <2>1, <2>2 DEF CreateRow
<1>4. CASE Push(c)
  <2>1. client' = [client EXCEPT ![c] = IdleClient] /\ UNCHANGED budget
      BY <1>0, <1>4, CalmFaults DEF Push
  <2> QED
      BY <1>0, <1>4, <1>i, <1>b, <2>1 DEF StaysCalm, ClientsCalm, Push
<1>5. CASE PushFailed(c) \/ DeleteBatch(c)
    BY <1>0, <1>5 DEF PushFailed, DeleteBatch, StaysCalm, ClientsCalm
<1>6. CASE CancelMark(c)
  <2> DEFINE r == client[c].row
             j == client[c].job
  <2>1. r \in Rows /\ j \in JobIds /\ row[r].jobId = j /\ Live(r)
      BY <1>6, CalmRow DEF CancelMark, WithRow, WithJob
  <2>2. /\ row' = [row EXCEPT ![r].status = "CANCELLED"]
        /\ UNCHANGED <<budget, worker>>
        /\ barred' = IF Held(j) THEN barred ELSE barred \cup {j}
      BY <1>0, <1>6, <2>1, CalmWrites DEF CancelMark, Live
  <2>3. row'[r].jobId = j /\ row'[r].status = "CANCELLED"
      BY <1>0, <2>1, <2>2 DEF TypeOK, RowRecords
  <2>4. \A i \in barred' : Recorded(i)'
    <3>1. \A i \in barred : Recorded(i)'
        BY <1>0, <2>1, <2>2, <2>3, RecordKept DEF TypeOK
    <3>2. \A i \in {j} : Recorded(i)'
        BY <2>1, <2>3 DEF Recorded
    <3> QED
        BY <2>2, <3>1, <3>2
  <2>5. NoRunAfterCancel'
    <3>1. ASSUME NEW w \in Workers, worker[w].job \in barred'
          PROVE  worker[w].job \in barred
        BY <2>2, <3>1 DEF Held
    <3> QED
        BY <1>0, <2>2, <3>1 DEF Barred, NoRunAfterCancel
  <2>6. ClientsCalm
    <3>1. client' = [client EXCEPT ![c].pc = "cancelRemove"]
        BY <1>6 DEF CancelMark
    <3> QED
        BY <3>1, <1>m
  <2>7. \A s \in Rows : row'[s].status # "pruned"
      BY <1>0, <2>2 DEF TypeOK, StaysCalm, ClientsCalm
  <2> QED
      BY <1>0, <2>2, <2>4, <2>5, <2>6, <2>7 DEF StaysCalm, ClientsCalm, Barred
<1>7. CASE CancelRemove(c)
  <2>1. UNCHANGED budget
      BY <1>0, <1>7, CalmFaults DEF CancelRemove
  <2> QED
      BY <1>0, <1>7, <1>i, <1>b, <2>1 DEF CancelRemove, StaysCalm, ClientsCalm
<1> QED
    BY <1>1, <1>2, <1>3, <1>4, <1>5, <1>6, <1>7 DEF ClientStep

LEMMA WorkerStepCalm ==
    ASSUME CInv, NEW w \in Workers, WorkerStep(w)
    PROVE  StaysCalm' /\ Barred'
<1>0. TypeOK /\ StaysCalm /\ IInv /\ Barred /\ OneRowPerJob /\ NoRunAfterCancel
    BY DEF CInv, IInv, Barred
<1> DEFINE j == worker[w].job
<1>1. j \in JobIds /\ worker[w].pc # "idle"
    BY <1>0, WorkerFields DEF WorkerStep, EnsureRow, MarkRunning, WriteRunning,
                        Finish, WriteEnd, Settle
<1>2. UNCHANGED <<client, barred>>
    BY DEF WorkerStep, EnsureRow, MarkRunning, WriteRunning, Finish, WriteEnd,
           Settle
\* A worker past the record writes the row of a job that is not barred.
<1>w. ASSUME worker[w].pc \in {"writeRun", "writeEnd"}, NEW s,
             s # "pruned", SafeWrite(worker[w].row, s)
      PROVE  /\ UNCHANGED budget
             /\ \A r \in Rows : row'[r].status # "pruned"
             /\ \A i \in barred : Recorded(i)'
  <2> DEFINE q == worker[w].row
  <2>1. q \in Rows /\ row[q].jobId = j /\ row[q].status # "unborn"
    <3>1. q \in Rows
        BY <1>0, <1>w, WorkerFields DEF AtWork
    <3> QED
        BY <1>0, <3>1, NullAssumption DEF IInv, DurableRowFirst, WrittenFor
  <2>2. row' = [row EXCEPT ![q].status = s] /\ UNCHANGED budget
      BY <1>0, <1>w, <2>1, CalmWrites
  <2>3. j \notin barred
      BY <1>0, <1>w DEF NoRunAfterCancel
  <2>4. \A i \in barred : Recorded(i)'
      BY <1>0, <2>1, <2>2, <2>3, RecordKept DEF TypeOK
  <2> QED
      BY <1>0, <1>w, <2>2, <2>4 DEF TypeOK, StaysCalm
\* A step that leaves the rows and the budget alone.
<1>s. ASSUME UNCHANGED <<row, budget>>,
             \A v \in Workers \ {w} : worker'[v] = worker[v],
             \/ worker'[w].job \notin JobIds
             \/ worker'[w].pc \in {"ensure", "settle"}
             \/ /\ worker'[w].job = worker[w].job
                /\ worker[w].pc \notin {"ensure", "settle"}
      PROVE  StaysCalm' /\ Barred'
  <2>1. \A i \in barred' : Recorded(i)'
      BY <1>0, <1>2, <1>s DEF Barred, Recorded
  <2>2. Barred'
      BY <1>2, <1>s, <2>1, BarredKept
  <2> QED
      BY <1>0, <1>2, <1>s, <2>2 DEF StaysCalm
<1>3. CASE EnsureRow(w)
  <2> DEFINE env   == worker[w].env
             known == IF env \in Rows /\ Live(env) THEN {env} ELSE RowOf(j)
  <2>1. ASSUME NEW r \in known
        PROVE  /\ r \in Rows /\ Live(r)
               /\ j \in barred => row[r].status = "CANCELLED"
    <3>1. r \in Rows /\ Live(r) /\ row[r].jobId = j
      <4>1. env \in Rows => row[env].jobId = j
          BY <1>0, NullAssumption DEF IInv, DurableRowFirst, WrittenFor
      <4> QED
          BY <2>1, <4>1 DEF RowOf
    <3>2. ASSUME j \in barred PROVE row[r].status = "CANCELLED"
      <4> PICK s \in Rows : row[s].jobId = j /\ row[s].status = "CANCELLED"
          BY <1>0, <3>2 DEF Barred, Recorded
      <4>1. Live(s)
          BY DEF Live
      <4> QED
          BY <1>0, <3>1, <4>1 DEF OneRowPerJob
    <3> QED
        BY <3>1, <3>2
  <2>2. CASE \E r \in known :
                /\ StartWith(w, r, row[r].status = "CANCELLED")
                /\ UNCHANGED <<row, told, budget>>
    <3> PICK r \in known :
                /\ StartWith(w, r, row[r].status = "CANCELLED")
                /\ UNCHANGED <<row, told, budget>>
        BY <2>2
    <3>1. /\ \A v \in Workers \ {w} : worker'[v] = worker[v]
          /\ worker'[w].job = j
          /\ worker'[w].pc = IF row[r].status = "CANCELLED" THEN "settle"
                             ELSE "markRun"
        BY <1>0 DEF TypeOK, WorkerRecords, StartWith
    <3>2. j \in barred => worker'[w].pc = "settle"
        BY <2>1, <3>1
    <3>3. \A i \in barred' : Recorded(i)'
        BY <1>0, <1>2 DEF Barred, Recorded
    <3>4. NoRunAfterCancel'
        BY <1>0, <1>2, <3>1, <3>2 DEF NoRunAfterCancel
    <3> QED
        BY <1>0, <1>2, <3>3, <3>4 DEF StaysCalm, Barred
  <2>3. CASE \E r \in Rows :
                /\ known = {} /\ row[r].status = "unborn"
                /\ row' = [row EXCEPT ![r] = [jobId |-> j, status |-> "RUNNING"]]
                /\ StartWith(w, r, FALSE)
                /\ UNCHANGED budget
    <3> PICK r \in Rows :
                /\ known = {} /\ row[r].status = "unborn"
                /\ row' = [row EXCEPT ![r] = [jobId |-> j, status |-> "RUNNING"]]
                /\ StartWith(w, r, FALSE)
                /\ UNCHANGED budget
        BY <2>3
    <3>1. j \notin barred
        BY <1>0 DEF Barred, Recorded, RowOf, Live
    <3>2. \A i \in barred' : Recorded(i)'
        BY <1>0, <1>2, RecordKept DEF TypeOK
    <3>3. /\ \A v \in Workers \ {w} : worker'[v] = worker[v]
          /\ worker'[w].job = j
        BY <1>0 DEF TypeOK, WorkerRecords, StartWith
    <3>4. NoRunAfterCancel'
        BY <1>0, <1>2, <3>1, <3>3 DEF NoRunAfterCancel
    <3>5. \A s \in Rows : row'[s].status # "pruned"
        BY <1>0 DEF TypeOK, StaysCalm
    <3> QED
        BY <1>0, <1>2, <3>2, <3>4, <3>5 DEF StaysCalm, Barred
  <2> QED
      BY <1>0, <1>3, <2>2, <2>3, CalmFaults DEF EnsureRow
<1>4. CASE MarkRunning(w)
  <2>1. /\ \A v \in Workers \ {w} : worker'[v] = worker[v]
        /\ worker'[w].job = worker[w].job
      BY <1>0, <1>4 DEF MarkRunning, TypeOK, WorkerRecords
  <2> QED
      BY <1>4, <1>s, <2>1 DEF MarkRunning
<1>5. CASE WriteRunning(w)
  <2>1. /\ \A v \in Workers \ {w} : worker'[v] = worker[v]
        /\ worker'[w].job = worker[w].job
      BY <1>0, <1>5 DEF WriteRunning, TypeOK, WorkerRecords
  <2>2. /\ UNCHANGED budget
        /\ \A r \in Rows : row'[r].status # "pruned"
        /\ \A i \in barred : Recorded(i)'
      BY <1>5, <1>w DEF WriteRunning
  <2>3. Barred'
      BY <1>2, <1>5, <2>1, <2>2, BarredKept DEF WriteRunning
  <2> QED
      BY <1>0, <1>2, <2>2, <2>3 DEF StaysCalm
<1>6. ASSUME NEW o \in {"ok", "throw", "fatal"}, Finish(w, o)
      PROVE  StaysCalm' /\ Barred'
  <2>1. /\ \A v \in Workers \ {w} : worker'[v] = worker[v]
        /\ worker'[w].job = worker[w].job
      BY <1>0, <1>6 DEF Finish, TypeOK, WorkerRecords
  <2> QED
      BY <1>6, <1>s, <2>1 DEF Finish
<1>7. CASE WriteEnd(w)
  <2>1. /\ \A v \in Workers \ {w} : worker'[v] = worker[v]
        /\ worker'[w].job = worker[w].job /\ worker'[w].pc = "settle"
      BY <1>0, <1>7 DEF WriteEnd, TypeOK, WorkerRecords
  <2>2. CASE UNCHANGED <<row, budget>>
      BY <1>s, <2>1, <2>2
  <2>3. CASE SafeWrite(worker[w].row, EndStatus(w))
    <3>1. EndStatus(w) # "pruned"
        BY DEF EndStatus
    <3>2. /\ UNCHANGED budget
          /\ \A r \in Rows : row'[r].status # "pruned"
          /\ \A i \in barred : Recorded(i)'
        BY <1>7, <1>w, <2>3, <3>1 DEF WriteEnd
    <3>3. Barred'
        BY <1>2, <2>1, <3>2, BarredKept
    <3> QED
        BY <1>0, <1>2, <3>2, <3>3 DEF StaysCalm
  <2> QED
      BY <1>7, <2>2, <2>3 DEF WriteEnd
<1>8. CASE Settle(w)
  <2>1. /\ \A v \in Workers \ {w} : worker'[v] = worker[v]
        /\ worker'[w].job = NoJob
      BY <1>0, <1>8 DEF Settle, TypeOK, IdleWorker
  <2> QED
      BY <1>8, <1>s, <2>1, NullAssumption DEF Settle
<1> QED
    BY <1>3, <1>4, <1>5, <1>6, <1>7, <1>8 DEF WorkerStep

LEMMA SystemStepCalm == CInv /\ SystemStep => StaysCalm' /\ Barred'
<1> SUFFICES ASSUME CInv, SystemStep PROVE StaysCalm' /\ Barred'
    OBVIOUS
<1>0. TypeOK /\ StaysCalm /\ IInv /\ Barred
    BY DEF CInv, IInv
<1>1. UNCHANGED <<row, barred>>
    BY DEF SystemStep, ClientCrash, Crash, Take, Evict, RepeatableFire,
           LoseLock, StalledCheck, LandLate
<1>2. \A i \in barred' : Recorded(i)'
    BY <1>0, <1>1 DEF Barred, Recorded
<1>3. Barred'
  <2>1. CASE UNCHANGED worker
      BY <1>1, <1>2, <2>1, BarredKept
  <2>2. ASSUME NEW w \in Workers, Crash(w) PROVE Barred'
    <3>1. /\ \A v \in Workers \ {w} : worker'[v] = worker[v]
          /\ worker'[w].job = NoJob
        BY <1>0, <2>2 DEF Crash, TypeOK, IdleWorker
    <3> QED
        BY <1>1, <1>2, <3>1, NullAssumption, BarredKept
  <2>3. ASSUME NEW w \in Workers, NEW j \in JobIds, Take(w, j) PROVE Barred'
    <3>1. /\ \A v \in Workers \ {w} : worker'[v] = worker[v]
          /\ worker'[w].pc = "ensure"
        BY <1>0, <2>3 DEF Take, TypeOK, IdleWorker
    <3> QED
        BY <1>1, <1>2, <3>1, BarredKept
  <2> QED
      BY <2>1, <2>2, <2>3 DEF SystemStep, ClientCrash, Evict, RepeatableFire,
                              LoseLock, StalledCheck, LandLate
<1>4. \A c \in Clients : client'[c].pc \notin {"pushFailed", "delete"}
  <2>1. ASSUME NEW c \in Clients, client' = [client EXCEPT ![c] = IdleClient]
        PROVE  \A d \in Clients : client'[d].pc \notin {"pushFailed", "delete"}
      BY <1>0, <2>1, IdleTyped DEF TypeOK, StaysCalm
  <2> QED
      BY <1>0, <2>1 DEF SystemStep, ClientCrash, Crash, Take, Evict,
                        RepeatableFire, LoseLock, StalledCheck, LandLate,
                        StaysCalm
<1>5. \A f \in Faults : budget'[f] = 0
  <2>1. \/ UNCHANGED budget
        \/ Spend("clientCrash") \/ Spend("crash") \/ Spend("repeat")
        \/ Spend("lockLoss")
      BY DEF SystemStep, ClientCrash, Crash, Take, Evict, RepeatableFire,
             LoseLock, StalledCheck, LandLate
  <2> QED
      BY <1>0, <2>1, CalmSpends DEF BudgetKinds, StaysCalm
<1> QED
    BY <1>0, <1>1, <1>3, <1>4, <1>5 DEF StaysCalm

LEMMA CalmInit == Init /\ Calm => StaysCalm /\ Barred
BY IdleTyped DEF Init, Calm, StaysCalm, Barred, NoRunAfterCancel

LEMMA CalmNext == CInv /\ [Next]_vars => StaysCalm' /\ Barred'
<1> SUFFICES ASSUME CInv, [Next]_vars PROVE StaysCalm' /\ Barred'
    OBVIOUS
<1>1. CASE UNCHANGED vars
    BY <1>1 DEF CInv, StaysCalm, Barred, NoRunAfterCancel, Recorded, vars
<1>2. CASE Next
    BY <1>2, NextCases, ClientStepCalm, ClientCallCalm, WorkerStepCalm,
       SystemStepCalm
<1> QED
    BY <1>1, <1>2

\* A job cancelled while no worker held it never gets to its processor unless
\* it is enqueued again (status.ts:289-291), however workers, crashes and
\* lost locks interleave, so long as no broker command and no row write is
\* lost and no row is pruned.
THEOREM CancelHolds == Spec /\ Calm => []NoRunAfterCancel
<1>1. Calm /\ Init => StaysCalm /\ Barred
    BY CalmInit
<1>2. IInv /\ OneRowPerJob /\ StaysCalm /\ Barred /\ [Next]_vars
          => StaysCalm' /\ Barred'
    BY CalmNext DEF CInv
<1>3. Barred => NoRunAfterCancel
    BY DEF Barred
<1> QED
    BY <1>1, <1>2, <1>3, Invariance, OneRow, PTL DEF Spec

(***************************************************************************)
(* No stranded row.  The hypotheses are the events the README shows to be  *)
(* fatal: keyed ids (a re-enqueue meets the old job), cancels, pruning,    *)
(* lost row writes, clients that die between the row and the push, lost    *)
(* locks, and more crashes than BullMQ's stalled check forgives.  Lost     *)
(* commands, adds that land late, crashes up to MaxStalled, retries,       *)
(* repeatables and clients without a broker remain.                        *)
(***************************************************************************)

Never == {"cancel", "cleanup", "dbFault", "clientCrash", "lockLoss"}

\* Every id ends in a random token.
UsedOnce == DedupeIds = {}

\* What the behaviour may spend (of its first state).
Tame ==
    /\ \A k \in Never : budget[k] = 0
    /\ budget["crash"] <= MaxStalled

StaysTame ==
    /\ \A k \in Never : budget[k] = 0
    /\ \A c \in Clients :
          client[c].pc \in {"idle", "create", "push", "pushFailed"}
    /\ \A r \in Rows : row[r].status \notin {"CANCELLED", "pruned"}

\* Its worker crashed and the stalled check has not seen it yet.
Orphan(j) == broker[j].state = "active" /\ broker[j].owner = NoWorker

\* A job stalls once for each crash under it, so never for good.
CrashesCounted ==
    /\ budget["crash"] <= MaxStalled
    /\ \A j \in JobIds :
          broker[j].stalled + (IF Orphan(j) THEN 1 ELSE 0)
              <= MaxStalled - budget["crash"]

\* A worker at work holds the lock of an active job, and counts its attempt.
Owned ==
    \A w \in Workers : worker[w].pc # "idle" =>
        /\ broker[worker[w].job].state = "active"
        /\ broker[worker[w].job].owner = w
        /\ worker[w].attempt > broker[worker[w].job].made

\* Redis has not heard of j.
Unheard(j) ==
    broker[j].state = "none" /\ \A m \in late : m.job # j

\* Before its push a job is its client's alone.
Undelivered ==
    /\ \A j \in fresh : Unheard(j)
    /\ \A c \in Clients : client[c].pc \in {"create", "push"} =>
          /\ client[c].job \notin fresh /\ Unheard(client[c].job)
          /\ \A d \in Clients \ {c} :
                client[d].pc \in {"create", "push"} =>
                    client[d].job # client[c].job

\* A run about to settle wrote its verdict on the row, unless the row's failed
\* push wrote over it.
Ended ==
    \A w \in Workers :
       /\ worker[w].pc = "writeEnd" => ~worker[w].cancelled
       /\ worker[w].pc \in {"writeEnd", "settle"} =>
             worker[w].outcome \in {"ok", "throw", "fatal"}
       /\ worker[w].pc = "settle" =>
             /\ worker[w].row \in Rows
             /\ \/ told[worker[w].row] = "unavailable"
                \/ row[worker[w].row].status = EndStatus(w)

\* Redis has the row's job, or its client is still pushing it.
Minded(r) ==
    \/ broker[row[r].jobId].state \in {"queued", "active"}
    \/ \E c \in Clients :
          client[c].pc \in {"push", "pushFailed"} /\ client[c].row = r

Cared ==
    \A r \in Rows :
        row[r].status \in InFlight /\ told[r] # "unavailable" => Minded(r)

TInv == StaysTame /\ CrashesCounted /\ Owned /\ Undelivered /\ Ended /\ Cared

SInv == IInv /\ OneRowPerJob /\ TInv

(***************************************************************************)
(* What it takes to keep each part.                                        *)
(***************************************************************************)

LEMMA TameSpends ==
    ASSUME StaysTame, NEW k \in Never
    PROVE  ~Spend(k)
BY DEF StaysTame, Spend

LEMMA TameKept ==
    ASSUME TypeOK, StaysTame,
           \/ UNCHANGED budget
           \/ Spend("enqueue") \/ Spend("repeat") \/ Spend("fault")
           \/ Spend("crash"),
           \A c \in Clients :
              \/ client'[c] = client[c]
              \/ client'[c].pc \in {"idle", "create", "push", "pushFailed"},
           \A r \in Rows :
              \/ row'[r] = row[r]
              \/ row'[r].status \notin {"CANCELLED", "pruned"}
    PROVE  StaysTame'
<1>1. \A k \in Never : budget'[k] = 0
    BY DEF TypeOK, StaysTame, Spend, Never, BudgetKinds
<1> QED
    BY <1>1 DEF StaysTame

LEMMA CrashesKept ==
    ASSUME TypeOK, CrashesCounted, budget'["crash"] = budget["crash"],
           \A j \in JobIds :
              \/ broker'[j] = broker[j]
              \/ broker'[j].stalled = 0 /\ broker'[j].state # "active"
              \/ broker'[j].stalled = broker[j].stalled /\ ~Orphan(j)'
    PROVE  CrashesCounted'
<1>1. \A j \in JobIds : broker[j].stalled \in Nat
    BY DEF TypeOK, BrokerJobs
<1>2. budget["crash"] \in Nat /\ MaxStalled \in Nat
    BY MaxStalledAssumption DEF TypeOK, BudgetKinds
<1> SUFFICES ASSUME NEW j \in JobIds
             PROVE  broker'[j].stalled + (IF Orphan(j)' THEN 1 ELSE 0)
                        <= MaxStalled - budget["crash"]
    BY DEF CrashesCounted, Orphan
<1>3. CASE broker'[j] = broker[j]
    BY <1>3 DEF CrashesCounted, Orphan
<1>4. CASE broker'[j].stalled = 0 /\ broker'[j].state # "active"
    BY <1>2, <1>4 DEF CrashesCounted, Orphan
<1>5. CASE broker'[j].stalled = broker[j].stalled /\ ~Orphan(j)'
  <2>1. broker[j].stalled + (IF Orphan(j) THEN 1 ELSE 0)
            <= MaxStalled - budget["crash"]
      BY DEF CrashesCounted
  <2> QED
      BY <1>1, <1>2, <1>5, <2>1
<1> QED
    BY <1>3, <1>4, <1>5

\* A spending on anything else leaves the crash budget alone.
LEMMA CrashBudgetKept ==
    ASSUME TypeOK,
           \/ UNCHANGED budget
           \/ Spend("enqueue") \/ Spend("repeat") \/ Spend("fault")
    PROVE  budget'["crash"] = budget["crash"]
BY DEF TypeOK, Spend, BudgetKinds

LEMMA OwnedKept ==
    ASSUME Owned,
           \A w \in Workers :
              \/ worker'[w].pc = "idle"
              \/ /\ worker[w].pc # "idle"
                 /\ worker'[w].job = worker[w].job
                 /\ worker'[w].attempt = worker[w].attempt
                 /\ broker'[worker[w].job] = broker[worker[w].job]
    PROVE  Owned'
BY DEF Owned

LEMMA UndeliveredKept ==
    ASSUME TypeOK, Undelivered,
           fresh' \subseteq fresh, late' \subseteq late,
           \A j \in JobIds : broker[j].state = "none" => broker'[j].state = "none",
           \A c \in Clients :
              client'[c].pc \in {"create", "push"} =>
                 /\ client[c].pc \in {"create", "push"}
                 /\ client'[c].job = client[c].job
                 /\ client[c].job \in JobIds
    PROVE  Undelivered'
BY DEF TypeOK, Undelivered, Unheard

LEMMA EndedKept ==
    ASSUME TypeOK, Ended,
           \A w \in Workers :
              \/ worker'[w].pc \notin {"writeEnd", "settle"}
              \/ worker'[w] = worker[w],
           \A w \in Workers : worker[w].pc = "settle" =>
              \/ told'[worker[w].row] = "unavailable"
              \/ /\ told'[worker[w].row] = told[worker[w].row]
                 /\ row'[worker[w].row] = row[worker[w].row]
    PROVE  Ended'
BY DEF Ended, EndStatus, WillRetry

\* The row stays minded while its job stays in Redis and its client at it.
LEMMA MindedStays ==
    ASSUME NEW r \in Rows, Minded(r), row'[r].jobId = row[r].jobId,
           broker[row[r].jobId].state \in {"queued", "active"} =>
              broker'[row[r].jobId].state \in {"queued", "active"},
           \A c \in Clients :
              client[c].pc \in {"push", "pushFailed"} /\ client[c].row = r =>
              client'[c].pc \in {"push", "pushFailed"} /\ client'[c].row = r
    PROVE  Minded(r)'
BY DEF Minded

\* The row a worker names exists, and is the only one of its job.
LEMMA WorkerRow ==
    ASSUME SInv, NEW w \in Workers, worker[w].row \in Rows
    PROVE  /\ row[worker[w].row].jobId = worker[w].job
           /\ Live(worker[w].row)
           /\ \A r \in Rows : Live(r) /\ row[r].jobId = worker[w].job
                                  => r = worker[w].row
BY NullAssumption DEF SInv, TInv, StaysTame, IInv, DurableRowFirst, WrittenFor,
                      Live, OneRowPerJob

\* Two workers never work on one job.
LEMMA OneWorker ==
    ASSUME Owned, NEW v \in Workers, NEW w \in Workers,
           worker[v].pc # "idle", worker[w].pc # "idle",
           worker[v].job = worker[w].job
    PROVE  v = w
BY DEF Owned

(***************************************************************************)
(* The steps of a tame system.                                             *)
(***************************************************************************)

LEMMA TameFacts ==
    ASSUME SInv
    PROVE  /\ TypeOK /\ StaysTame /\ CrashesCounted /\ Owned /\ Undelivered
           /\ Ended /\ Cared /\ IInv
BY DEF SInv, TInv, IInv

\* A call: with no keyed ids, only an enqueue under a fresh one.
LEMMA TameCall ==
    ASSUME UsedOnce, SInv, NEW c \in Clients, ClientCall(c)
    PROVE  TInv'
<1>0. /\ TypeOK /\ StaysTame /\ CrashesCounted /\ Owned /\ Undelivered
      /\ Ended /\ Cared
    BY TameFacts
<1>1. PICK j \in JobIds : EnqueueFresh(c, j)
    BY <1>0, TameSpends DEF UsedOnce, Never, ClientCall, RetryJob, EnqueueKeyed,
                            Cancel, Cleanup
<1>2. /\ client[c].pc = "idle" /\ j \in fresh /\ Spend("enqueue")
      /\ fresh' = fresh \ {j}
      /\ UNCHANGED <<row, broker, late, worker, told>>
    BY <1>1 DEF EnqueueFresh
<1>3. /\ client'[c].pc = "create" /\ client'[c].job = j
      /\ \A d \in Clients \ {c} : client'[d] = client[d]
    BY <1>0, <1>1 DEF EnqueueFresh, TypeOK, IdleClient
<1>4. StaysTame'
    BY <1>0, <1>2, <1>3, TameKept
<1>5. CrashesCounted'
    BY <1>0, <1>2, CrashBudgetKept, CrashesKept
<1>6. Owned'
    BY <1>0, <1>2, OwnedKept
<1>7. Undelivered'
  <2>1. \A d \in Clients \ {c} : client[d].pc \in {"create", "push"} =>
            client[d].job \notin fresh
      BY <1>0 DEF Undelivered
  <2> QED
      BY <1>0, <1>2, <1>3, <2>1 DEF Undelivered, Unheard
<1>8. Ended'
    BY <1>0, <1>2, EndedKept
<1>9. Cared'
  <2>1. ASSUME NEW r \in Rows, Minded(r) PROVE Minded(r)'
      BY <1>2, <1>3, <2>1, MindedStays
  <2> QED
      BY <1>0, <1>2, <2>1 DEF Cared
<1> QED
    BY <1>4, <1>5, <1>6, <1>7, <1>8, <1>9 DEF TInv

LEMMA TameCreate ==
    ASSUME SInv, NEW c \in Clients, CreateRow(c)
    PROVE  TInv'
<1>0. /\ TypeOK /\ StaysTame /\ CrashesCounted /\ Owned /\ Undelivered
      /\ Ended /\ Cared /\ IInv
    BY TameFacts
<1> DEFINE j == client[c].job
<1>1. /\ client[c].pc = "create"
      /\ UNCHANGED <<broker, late, worker, fresh, budget>>
    BY DEF CreateRow
<1>2. j \in JobIds
    BY <1>0, <1>1, ClientFields DEF WithJob
<1>3. CASE /\ client' = [client EXCEPT ![c] = IdleClient]
           /\ UNCHANGED <<row, told>>
  <2>1. client'[c].pc = "idle" /\ \A d \in Clients \ {c} : client'[d] = client[d]
      BY <1>0, <1>3, IdleTyped DEF TypeOK
  <2>2. StaysTame'
      BY <1>0, <1>1, <1>3, <2>1, TameKept
  <2>3. CrashesCounted'
      BY <1>0, <1>1, CrashesKept
  <2>4. Owned'
      BY <1>0, <1>1, OwnedKept
  <2>5. Undelivered'
    <3>1. \A d \in Clients : client[d].pc \in {"create", "push"} =>
              client[d].job \in JobIds
        BY <1>0, ClientFields DEF WithJob
    <3> QED
        BY <1>0, <1>1, <2>1, <3>1, UndeliveredKept
  <2>6. Ended'
      BY <1>0, <1>1, <1>3, EndedKept
  <2>7. Cared'
    <3>1. ASSUME NEW r \in Rows, Minded(r) PROVE Minded(r)'
        BY <1>1, <1>3, <2>1, <3>1, MindedStays
    <3> QED
        BY <1>0, <1>3, <3>1 DEF Cared
  <2> QED
      BY <2>2, <2>3, <2>4, <2>5, <2>6, <2>7 DEF TInv
<1>4. ASSUME NEW q \in Rows, row[q].status = "unborn",
             row' = [row EXCEPT ![q] = [jobId |-> j, status |-> "QUEUED"]],
             AfterRow(c, q)
      PROVE  TInv'
  <2>1. /\ row'[q].status = "QUEUED" /\ row'[q].jobId = j
        /\ \A r \in Rows \ {q} : row'[r] = row[r] /\ told'[r] = told[r]
      BY <1>0, <1>4 DEF TypeOK, AfterRow
  <2>2. /\ \A d \in Clients \ {c} : client'[d] = client[d]
        /\ \/ client'[c].pc = "idle" /\ told'[q] = "unavailable"
           \/ /\ client'[c].pc = "push" /\ client'[c].row = q
              /\ client'[c].job = j
      BY <1>0, <1>4, IdleTyped DEF TypeOK, AfterRow, ClientRecords
  <2>3. StaysTame'
      BY <1>0, <1>1, <2>1, <2>2, TameKept
  <2>4. CrashesCounted'
      BY <1>0, <1>1, CrashesKept
  <2>5. Owned'
      BY <1>0, <1>1, OwnedKept
  <2>6. Undelivered'
    <3>1. \A d \in Clients : client[d].pc \in {"create", "push"} =>
              client[d].job \in JobIds
        BY <1>0, ClientFields DEF WithJob
    <3> QED
        BY <1>0, <1>1, <2>2, <3>1, UndeliveredKept
  <2>7. Ended'
    <3>1. \A w \in Workers : worker[w].pc = "settle" => worker[w].row # q
      <4>1. ASSUME NEW w \in Workers, worker[w].pc = "settle",
                   worker[w].row = q
            PROVE  FALSE
          BY <1>4, <4>1, WorkerRow DEF Live
      <4> QED
          BY <4>1
    <3>2. \A w \in Workers : worker[w].pc = "settle" => worker[w].row \in Rows
        BY <1>0 DEF Ended
    <3> QED
        BY <1>0, <1>1, <2>1, <3>1, <3>2, EndedKept
  <2>8. Cared'
    <3>1. ASSUME NEW r \in Rows \ {q}, Minded(r) PROVE Minded(r)'
      <4>1. client[c].pc \notin {"push", "pushFailed"}
          BY <1>1
      <4> QED
          BY <1>1, <2>1, <2>2, <3>1, <4>1, MindedStays
    <3>2. told'[q] = "unavailable" \/ Minded(q)'
        BY <2>2 DEF Minded
    <3> QED
        BY <1>0, <2>1, <3>1, <3>2 DEF Cared
  <2> QED
      BY <2>3, <2>4, <2>5, <2>6, <2>7, <2>8 DEF TInv
<1> QED
    BY <1>3, <1>4 DEF CreateRow

LEMMA TamePush ==
    ASSUME SInv, NEW c \in Clients, Push(c)
    PROVE  TInv'
<1>0. /\ TypeOK /\ StaysTame /\ CrashesCounted /\ Owned /\ Undelivered
      /\ Ended /\ Cared /\ IInv
    BY TameFacts
<1> PICK j, q : j = client[c].job /\ q = client[c].row
    OBVIOUS
<1>1. client[c].pc = "push" /\ UNCHANGED <<row, worker, fresh>>
    BY DEF Push
<1>2. j \in JobIds /\ q \in Rows /\ row[q].jobId = j
    BY <1>0, <1>1 DEF IInv, Names, ClientNames, WithRow, WithJob, WrittenFor
<1>3. /\ j \notin fresh /\ Unheard(j)
      /\ \A d \in Clients \ {c} :
            client[d].pc \in {"create", "push"} => client[d].job # j
    BY <1>0, <1>1 DEF Undelivered
<1>4. \A w \in Workers : worker[w].pc # "idle" => worker[w].job # j
    BY <1>0, <1>3 DEF Owned, Unheard
<1>5. /\ \A d \in Clients \ {c} : client'[d] = client[d]
      /\ client'[c].pc \in {"idle", "pushFailed"}
    BY <1>0, IdleTyped DEF Push, TypeOK, ClientRecords
<1>6. /\ \A i \in JobIds \ {j} : broker'[i] = broker[i]
      /\ \/ broker'[j] = broker[j]
         \/ broker'[j].stalled = 0 /\ broker'[j].state = "queued"
  <2>1. QueuedJob(q).stalled = 0 /\ QueuedJob(q).state = "queued"
      BY DEF QueuedJob, AbsentJob
  <2> QED
      BY <1>0, <1>2, <2>1 DEF Push, BrokerAdd, TypeOK
<1>7. \A m \in late' : m.job # j => m \in late
    BY DEF Push
<1>8. UNCHANGED budget \/ Spend("fault")
    BY DEF Push
<1>9. StaysTame'
    BY <1>0, <1>1, <1>5, <1>8, TameKept
<1>10. CrashesCounted'
  <2>1. \A i \in JobIds :
           \/ broker'[i] = broker[i]
           \/ broker'[i].stalled = 0 /\ broker'[i].state # "active"
      BY <1>6
  <2> QED
      BY <1>0, <1>8, <2>1, CrashBudgetKept, CrashesKept
<1>11. Owned'
  <2>1. \A w \in Workers : worker[w].pc # "idle" => worker[w].job \in JobIds
      BY <1>0, WorkerFields
  <2> QED
      BY <1>0, <1>1, <1>4, <1>6, <2>1, OwnedKept
<1>12. Undelivered'
  <2>1. \A i \in JobIds \ {j} : Unheard(i) => Unheard(i)'
      BY <1>6, <1>7 DEF Unheard
  <2>2. \A i \in fresh' : Unheard(i)'
      BY <1>0, <1>1, <1>3, <2>1 DEF TypeOK, Undelivered
  <2>3. \A d \in Clients : client'[d].pc \in {"create", "push"} =>
            /\ d # c /\ client'[d] = client[d] /\ client[d].job \in JobIds
      BY <1>0, <1>5, ClientFields DEF WithJob
  <2>4. \A d \in Clients : client'[d].pc \in {"create", "push"} =>
            client'[d].job \notin fresh' /\ Unheard(client[d].job)'
    <3>1. ASSUME NEW d \in Clients, client'[d].pc \in {"create", "push"}
          PROVE  client'[d].job \notin fresh' /\ Unheard(client[d].job)
        BY <1>0, <1>1, <2>3, <3>1 DEF Undelivered
    <3>2. ASSUME NEW d \in Clients, client'[d].pc \in {"create", "push"}
          PROVE  client[d].job \in JobIds \ {j}
        BY <1>3, <2>3, <3>2
    <3>3. ASSUME NEW i, i \in JobIds \ {j}, Unheard(i)
          PROVE  broker'[i].state = "none" /\ \A m \in late' : m.job # i
        BY <2>1, <3>3 DEF Unheard
    <3> QED
        BY <2>3, <3>1, <3>2, <3>3 DEF Unheard
  <2>5. \A d \in Clients : client'[d].pc \in {"create", "push"} =>
            /\ client'[d].job \notin fresh'
            /\ broker'[client'[d].job].state = "none"
            /\ \A m \in late' : m.job # client'[d].job
            /\ \A e \in Clients \ {d} :
                  client'[e].pc \in {"create", "push"} =>
                      client'[e].job # client'[d].job
      BY <1>0, <2>3, <2>4 DEF Undelivered, Unheard
  <2> QED
      BY <2>2, <2>5 DEF Undelivered, Unheard
<1>13. Ended'
  <2>1. \A w \in Workers : worker[w].pc = "settle" => worker[w].row # q
    <3>1. ASSUME NEW w \in Workers, worker[w].pc = "settle", worker[w].row = q
          PROVE  FALSE
        BY <1>2, <1>4, <3>1, WorkerRow
    <3> QED
        BY <3>1
  <2>2. \A w \in Workers : worker[w].pc = "settle" => worker[w].row \in Rows
      BY <1>0 DEF Ended
  <2>3. \A r \in Rows \ {q} : told'[r] = told[r]
      BY <1>0 DEF Push, TypeOK
  <2> QED
      BY <1>0, <1>1, <2>1, <2>2, <2>3, EndedKept
<1>14. Cared'
  <2>1. \A r \in Rows \ {q} : told'[r] = told[r]
      BY <1>0 DEF Push, TypeOK
  <2>2. \A r \in Rows :
            /\ row[r].status # "unborn"
            /\ broker[row[r].jobId].state \in {"queued", "active"}
            => broker'[row[r].jobId].state \in {"queued", "active"}
    <3>1. ASSUME NEW r \in Rows, row[r].status # "unborn",
                 broker[row[r].jobId].state \in {"queued", "active"}
          PROVE  broker'[row[r].jobId].state \in {"queued", "active"}
      <4>1. CASE row[r].jobId = j
          BY <1>3, <3>1, <4>1 DEF Unheard
      <4>2. CASE row[r].jobId # j
          BY <1>0, <1>6, <3>1, <4>2 DEF IInv, Names, RowsNamed
      <4> QED
          BY <4>1, <4>2
    <3> QED
        BY <3>1
  <2>3. ASSUME NEW r \in Rows \ {q}, row[r].status # "unborn", Minded(r)
        PROVE  Minded(r)'
    <3>1. \A d \in Clients :
             client[d].pc \in {"push", "pushFailed"} /\ client[d].row = r =>
             client'[d].pc \in {"push", "pushFailed"} /\ client'[d].row = r
        BY <1>5
    <3> QED
        BY <1>1, <2>2, <2>3, <3>1, MindedStays
  <2>4. Minded(q)'
    <3>1. CASE BrokerAdd(j, q)
      <4>1. broker'[j].state = "queued"
          BY <1>0, <1>2, <1>3, <3>1 DEF BrokerAdd, Unheard, TypeOK, QueuedJob,
                                        AbsentJob
      <4> QED
          BY <1>1, <1>2, <4>1 DEF Minded
    <3>2. CASE client' = [client EXCEPT ![c].pc = "pushFailed"]
      <4>1. client'[c].pc = "pushFailed" /\ client'[c].row = q
          BY <1>0, <3>2 DEF TypeOK, ClientRecords
      <4> QED
          BY <4>1 DEF Minded
    <3> QED
        BY <3>1, <3>2 DEF Push
  <2> QED
      BY <1>0, <1>1, <2>1, <2>3, <2>4 DEF Cared, InFlight
<1> QED
    BY <1>9, <1>10, <1>11, <1>12, <1>13, <1>14 DEF TInv

LEMMA TamePushFailed ==
    ASSUME SInv, NEW c \in Clients, PushFailed(c)
    PROVE  TInv'
<1>0. /\ TypeOK /\ StaysTame /\ CrashesCounted /\ Owned /\ Undelivered
      /\ Ended /\ Cared /\ IInv
    BY TameFacts
<1> PICK q : q = client[c].row
    OBVIOUS
<1>1. /\ client[c].pc = "pushFailed"
      /\ UNCHANGED <<broker, late, worker, fresh>>
      /\ told' = [told EXCEPT ![q] = "unavailable"]
      /\ client' = [client EXCEPT ![c] = IdleClient]
      /\ SafeWrite(q, "QUEUED")
    BY DEF PushFailed
<1>2. q \in Rows
    BY <1>0, <1>1, ClientFields DEF WithRow, WithJob
<1>3. /\ told'[q] = "unavailable"
      /\ \A r \in Rows \ {q} : told'[r] = told[r] /\ row'[r] = row[r]
      /\ row'[q] = row[q] \/ row'[q].status = "QUEUED"
    BY <1>0, <1>1, <1>2 DEF TypeOK, SafeWrite, RowRecords
<1>4. client'[c].pc = "idle" /\ \A d \in Clients \ {c} : client'[d] = client[d]
    BY <1>0, <1>1, IdleTyped DEF TypeOK
<1>5. UNCHANGED budget
    BY <1>0, <1>1, TameSpends DEF SafeWrite, Never
<1>6. StaysTame'
    BY <1>0, <1>3, <1>4, <1>5, TameKept
<1>7. CrashesCounted'
    BY <1>0, <1>1, <1>5, CrashesKept
<1>8. Owned'
    BY <1>0, <1>1, OwnedKept
<1>9. Undelivered'
  <2>1. \A d \in Clients : client[d].pc \in {"create", "push"} =>
            client[d].job \in JobIds
      BY <1>0, ClientFields DEF WithJob
  <2> QED
      BY <1>0, <1>1, <1>4, <2>1, UndeliveredKept
<1>10. Ended'
  <2>1. \A w \in Workers : worker[w].pc = "settle" => worker[w].row \in Rows
      BY <1>0 DEF Ended
  <2> QED
      BY <1>0, <1>1, <1>3, <2>1, EndedKept
<1>11. Cared'
  <2>1. ASSUME NEW r \in Rows \ {q}, Minded(r) PROVE Minded(r)'
      BY <1>1, <1>3, <1>4, <2>1, MindedStays
  <2> QED
      BY <1>0, <1>3, <2>1 DEF Cared
<1> QED
    BY <1>6, <1>7, <1>8, <1>9, <1>10, <1>11 DEF TInv

LEMMA TameClient ==
    ASSUME SInv, NEW c \in Clients, ClientStep(c)
    PROVE  TInv'
<1>1. StaysTame
    BY TameFacts
<1>2. CreateRow(c) \/ Push(c) \/ PushFailed(c)
    BY <1>1 DEF ClientStep, RemoveFinished, ResetRow, CancelMark,
                CancelRemove, DeleteBatch, StaysTame
<1> QED
    BY <1>2, TameCreate, TamePush, TamePushFailed

\* A step of a worker at its job: the job stays the worker's, and of the rows
\* only the job's own may change, to a status the worker answers for.
LEMMA TameWork ==
    ASSUME SInv, NEW w \in Workers, worker[w].pc # "idle",
           UNCHANGED <<broker, late, client, fresh, budget>>,
           \A v \in Workers \ {w} : worker'[v] = worker[v],
           worker'[w].job = worker[w].job,
           worker'[w].attempt = worker[w].attempt,
           \A r \in Rows :
              \/ row'[r] = row[r] /\ told'[r] = told[r]
              \/ /\ row'[r].status \notin {"CANCELLED", "pruned"}
                 /\ row'[r].jobId = worker[w].job
                 /\ ~Live(r) \/ row[r].jobId = worker[w].job,
           worker'[w].pc = "writeEnd" => ~worker'[w].cancelled,
           worker'[w].pc \in {"writeEnd", "settle"} =>
              worker'[w].outcome \in {"ok", "throw", "fatal"},
           worker'[w].pc = "settle" =>
              /\ worker'[w].row \in Rows
              /\ \/ told'[worker'[w].row] = "unavailable"
                 \/ row'[worker'[w].row].status = EndStatus(w)'
    PROVE  TInv'
<1>0. /\ TypeOK /\ StaysTame /\ CrashesCounted /\ Owned /\ Undelivered
      /\ Ended /\ Cared /\ IInv
    BY TameFacts
<1>1. worker[w].job \in JobIds
    BY <1>0, WorkerFields
<1>2. StaysTame'
    BY <1>0, TameKept
<1>3. CrashesCounted'
    BY <1>0, CrashesKept
<1>4. Owned'
    BY <1>0, OwnedKept
<1>5. Undelivered'
  <2>1. \A d \in Clients : client[d].pc \in {"create", "push"} =>
            client[d].job \in JobIds
      BY <1>0, ClientFields DEF WithJob
  <2> QED
      BY <1>0, <2>1, UndeliveredKept
<1>6. Ended'
  <2>1. ASSUME NEW v \in Workers \ {w}
        PROVE  /\ worker'[v].pc = "writeEnd" => ~worker'[v].cancelled
               /\ worker'[v].pc \in {"writeEnd", "settle"} =>
                     worker'[v].outcome \in {"ok", "throw", "fatal"}
               /\ worker'[v].pc = "settle" =>
                     /\ worker'[v].row \in Rows
                     /\ \/ told'[worker'[v].row] = "unavailable"
                        \/ row'[worker'[v].row].status = EndStatus(v)'
    <3>1. worker'[v] = worker[v]
        OBVIOUS
    <3>2. CASE worker[v].pc = "settle"
      <4> PICK q : q = worker[v].row
          OBVIOUS
      <4>1. q \in Rows /\ Live(q) /\ row[q].jobId = worker[v].job
          BY <1>0, <3>2, WorkerRow DEF Ended
      <4>2. worker[v].job # worker[w].job
          BY <1>0, <3>2, OneWorker
      <4>3. row'[q] = row[q] /\ told'[q] = told[q]
          BY <4>1, <4>2
      <4> QED
          BY <1>0, <3>1, <3>2, <4>1, <4>3 DEF Ended, EndStatus, WillRetry
    <3> QED
        BY <1>0, <3>1, <3>2 DEF Ended
  <2> QED
      BY <2>1 DEF Ended
<1>7. Cared'
  <2>1. ASSUME NEW r \in Rows, row'[r].status \in InFlight,
               told'[r] # "unavailable"
        PROVE  Minded(r)'
    <3>1. CASE row'[r] = row[r] /\ told'[r] = told[r]
      <4>1. Minded(r)
          BY <1>0, <2>1, <3>1 DEF Cared
      <4> QED
          BY <3>1, <4>1, MindedStays
    <3>2. CASE row'[r].jobId = worker[w].job
        BY <1>0, <3>2 DEF Owned, Minded
    <3> QED
        BY <3>1, <3>2
  <2> QED
      BY <2>1 DEF Cared
<1> QED
    BY <1>2, <1>3, <1>4, <1>5, <1>6, <1>7 DEF TInv

LEMMA TameWorker ==
    ASSUME SInv, NEW w \in Workers, WorkerStep(w)
    PROVE  TInv'
<1>0. /\ TypeOK /\ StaysTame /\ CrashesCounted /\ Owned /\ Undelivered
      /\ Ended /\ Cared /\ IInv
    BY TameFacts
<1> PICK j, q : j = worker[w].job /\ q = worker[w].row
    OBVIOUS
<1>1. j \in JobIds /\ worker[w].pc # "idle"
    BY <1>0, WorkerFields DEF WorkerStep, EnsureRow, MarkRunning, WriteRunning,
                              Finish, WriteEnd, Settle
<1>2. UNCHANGED <<late, client, fresh>>
    BY DEF WorkerStep, EnsureRow, MarkRunning, WriteRunning, Finish, WriteEnd,
           Settle
\* A row write of a tame worker is done, on its job's row.
<1>w. ASSUME q \in Rows, NEW s, s \notin {"CANCELLED", "pruned"},
             SafeWrite(q, s), UNCHANGED told
      PROVE  /\ UNCHANGED budget
             /\ row'[q].status = s
             /\ \A r \in Rows :
                   \/ row'[r] = row[r] /\ told'[r] = told[r]
                   \/ /\ row'[r].status \notin {"CANCELLED", "pruned"}
                      /\ row'[r].jobId = j
                      /\ ~Live(r) \/ row[r].jobId = j
  <2>1. Live(q) /\ row[q].jobId = j
      BY <1>w, WorkerRow
  <2>2. row' = [row EXCEPT ![q].status = s] /\ UNCHANGED budget
      BY <1>0, <1>w, <2>1, TameSpends DEF SafeWrite, Never
  <2> QED
      BY <1>0, <1>w, <2>1, <2>2 DEF TypeOK, RowRecords
<1>3. CASE EnsureRow(w)
  <2> DEFINE env   == worker[w].env
             known == IF env \in Rows /\ Live(env) THEN {env} ELSE RowOf(j)
  <2>1. CASE \E r \in known :
                /\ StartWith(w, r, row[r].status = "CANCELLED")
                /\ UNCHANGED <<row, told, budget>>
    <3> PICK r \in known :
                /\ StartWith(w, r, row[r].status = "CANCELLED")
                /\ UNCHANGED <<row, told, budget>>
        BY <2>1
    <3>1. row[r].status # "CANCELLED"
        BY <1>0 DEF StaysTame, RowOf
    <3>2. /\ \A v \in Workers \ {w} : worker'[v] = worker[v]
          /\ worker'[w].job = worker[w].job
          /\ worker'[w].attempt = worker[w].attempt
          /\ worker'[w].pc = "markRun"
        BY <1>0, <3>1 DEF TypeOK, WorkerRecords, StartWith
    <3> QED
        BY <1>1, <1>2, <1>3, <3>2, TameWork DEF EnsureRow
  <2>2. CASE \E r \in Rows :
                /\ row[r].status = "unborn"
                /\ row' = [row EXCEPT ![r] = [jobId |-> j, status |-> "RUNNING"]]
                /\ told' = [told EXCEPT ![r] = "none"]
                /\ StartWith(w, r, FALSE)
                /\ UNCHANGED budget
    <3> PICK r \in Rows :
                /\ row[r].status = "unborn"
                /\ row' = [row EXCEPT ![r] = [jobId |-> j, status |-> "RUNNING"]]
                /\ told' = [told EXCEPT ![r] = "none"]
                /\ StartWith(w, r, FALSE)
                /\ UNCHANGED budget
        BY <2>2
    <3>1. /\ \A v \in Workers \ {w} : worker'[v] = worker[v]
          /\ worker'[w].job = worker[w].job
          /\ worker'[w].attempt = worker[w].attempt
          /\ worker'[w].pc = "markRun"
        BY <1>0 DEF TypeOK, WorkerRecords, StartWith
    <3>2. \A s \in Rows :
             \/ row'[s] = row[s] /\ told'[s] = told[s]
             \/ /\ row'[s].status \notin {"CANCELLED", "pruned"}
                /\ row'[s].jobId = worker[w].job
                /\ ~Live(s) \/ row[s].jobId = worker[w].job
        BY <1>0 DEF TypeOK, Live
    <3> QED
        BY <1>1, <1>2, <1>3, <3>1, <3>2, TameWork DEF EnsureRow
  <2> QED
      BY <1>0, <1>3, <2>1, <2>2, TameSpends DEF EnsureRow, Never
<1>4. CASE MarkRunning(w)
  <2>1. /\ \A v \in Workers \ {w} : worker'[v] = worker[v]
        /\ worker'[w].job = worker[w].job
        /\ worker'[w].attempt = worker[w].attempt
        /\ worker'[w].pc \in {"run", "writeRun"}
      BY <1>0, <1>4 DEF MarkRunning, TypeOK, WorkerRecords
  <2> QED
      BY <1>1, <1>2, <1>4, <2>1, TameWork DEF MarkRunning
<1>5. CASE WriteRunning(w)
  <2>1. /\ \A v \in Workers \ {w} : worker'[v] = worker[v]
        /\ worker'[w].job = worker[w].job
        /\ worker'[w].attempt = worker[w].attempt
        /\ worker'[w].pc = "run"
      BY <1>0, <1>5 DEF WriteRunning, TypeOK, WorkerRecords
  <2>2. q \in Rows
      BY <1>0, <1>5, WorkerFields DEF WriteRunning, AtWork
  <2>3. SafeWrite(q, "RUNNING") /\ UNCHANGED <<told, broker>>
      BY <1>5 DEF WriteRunning
  <2> QED
      BY <1>1, <1>2, <1>w, <2>1, <2>2, <2>3, TameWork
<1>6. ASSUME NEW o \in {"ok", "throw", "fatal"}, Finish(w, o) PROVE TInv'
  <2>1. q \in Rows /\ row[q].status # "CANCELLED"
      BY <1>0, <1>6, WorkerFields DEF Finish, AtWork, StaysTame
  <2>2. /\ \A v \in Workers \ {w} : worker'[v] = worker[v]
        /\ worker'[w].job = worker[w].job
        /\ worker'[w].attempt = worker[w].attempt
        /\ worker'[w].pc = "writeEnd" /\ worker'[w].outcome = o
        /\ worker'[w].cancelled = (row[q].status = "CANCELLED")
      BY <1>0, <1>6 DEF Finish, TypeOK, WorkerRecords
  <2>3. ~worker'[w].cancelled
      BY <2>1, <2>2
  <2> QED
      BY <1>1, <1>2, <1>6, <2>2, <2>3, TameWork DEF Finish
<1>7. CASE WriteEnd(w)
  <2>1. /\ \A v \in Workers \ {w} : worker'[v] = worker[v]
        /\ worker'[w].job = worker[w].job
        /\ worker'[w].attempt = worker[w].attempt
        /\ worker'[w].row = worker[w].row
        /\ worker'[w].outcome = worker[w].outcome
        /\ worker'[w].pc = "settle"
      BY <1>0, <1>7 DEF WriteEnd, TypeOK, WorkerRecords
  <2>2. q \in Rows
      BY <1>0, <1>7, WorkerFields DEF WriteEnd, AtWork
  <2>3. ~worker[w].cancelled /\ worker[w].outcome \in {"ok", "throw", "fatal"}
      BY <1>0, <1>7 DEF WriteEnd, Ended
  <2>4. SafeWrite(q, EndStatus(w)) /\ UNCHANGED <<told, broker>>
      BY <1>7, <2>3 DEF WriteEnd
  <2>5. EndStatus(w)' = EndStatus(w) /\ EndStatus(w) \notin {"CANCELLED", "pruned"}
      BY <2>1 DEF EndStatus, WillRetry
  <2>6. row'[q].status = EndStatus(w)'
      BY <1>w, <2>2, <2>4, <2>5
  <2>7. /\ UNCHANGED budget
        /\ \A r \in Rows :
                   \/ row'[r] = row[r] /\ told'[r] = told[r]
                   \/ /\ row'[r].status \notin {"CANCELLED", "pruned"}
                      /\ row'[r].jobId = j
                      /\ ~Live(r) \/ row[r].jobId = j
      BY <1>w, <2>2, <2>4, <2>5
  <2> QED
      BY <1>1, <1>2, <2>1, <2>2, <2>3, <2>4, <2>6, <2>7, TameWork
<1>8. CASE Settle(w)
  <2> PICK b : b = broker[j]
      OBVIOUS
  <2>1. /\ worker'[w].pc = "idle"
        /\ \A v \in Workers \ {w} : worker'[v] = worker[v]
      BY <1>0, <1>8, IdleTyped DEF Settle, TypeOK
  <2>2. b.state = "active" /\ b.owner = w /\ worker[w].attempt > b.made
      BY <1>0, <1>1 DEF Owned
  <2>3. b \in BrokerJobs
      BY <1>0, <1>1 DEF TypeOK
  <2>4. worker[w].outcome \in {"ok", "throw", "fatal"}
      BY <1>0, <1>8 DEF Ended, Settle
  <2>5. /\ \A i \in JobIds \ {j} : broker'[i] = broker[i]
        /\ broker'[j].stalled = b.stalled
        /\ broker'[j].state \in {"completed", "queued", "failed"}
        /\ worker[w].outcome = "throw" /\ b.made + 1 < Attempts
              => broker'[j].state = "queued"
      BY <1>0, <1>1, <1>8, <2>2, <2>3, <2>4 DEF Settle, TypeOK, BrokerJobs
  <2>6. UNCHANGED <<row, told, budget>>
      BY <1>8 DEF Settle
  <2>7. StaysTame'
      BY <1>0, <1>2, <2>6, TameKept
  <2>8. CrashesCounted'
    <3>1. \A i \in JobIds :
             \/ broker'[i] = broker[i]
             \/ broker'[i].stalled = broker[i].stalled /\ ~Orphan(i)'
        BY <2>5 DEF Orphan
    <3> QED
        BY <1>0, <2>6, <3>1, CrashesKept
  <2>9. Owned'
    <3>1. \A v \in Workers \ {w} : worker[v].pc # "idle" =>
              worker[v].job \in JobIds \ {j}
        BY <1>0, <1>1, OneWorker, WorkerFields
    <3> QED
        BY <1>0, <2>1, <2>5, <3>1, OwnedKept
  <2>10. Undelivered'
    <3>1. \A d \in Clients : client[d].pc \in {"create", "push"} =>
              client[d].job \in JobIds
        BY <1>0, ClientFields DEF WithJob
    <3>2. \A i \in JobIds :
              broker[i].state = "none" => broker'[i].state = "none"
        BY <2>2, <2>5
    <3> QED
        BY <1>0, <1>2, <3>1, <3>2, UndeliveredKept
  <2>11. Ended'
      BY <1>0, <2>1, <2>6, EndedKept
  <2>12. Cared'
    <3>1. ASSUME NEW r \in Rows, row[r].status \in InFlight,
                 told[r] # "unavailable"
          PROVE  Minded(r)'
      <4>1. Minded(r) /\ Live(r) /\ row[r].jobId \in JobIds
          BY <1>0, <3>1 DEF Cared, InFlight, Live, IInv, Names, RowsNamed
      <4>2. CASE row[r].jobId # j
          BY <1>2, <2>5, <2>6, <4>1, <4>2, MindedStays
      <4>3. CASE row[r].jobId = j
        <5>1. r = q
            BY <1>0, <1>8, <4>1, <4>3, WorkerRow DEF Ended, Settle
        <5>2. row[r].status = EndStatus(w)
            BY <1>0, <1>8, <3>1, <5>1 DEF Ended, Settle
        <5>3. worker[w].outcome = "throw" /\ worker[w].attempt < Attempts
            BY <3>1, <5>2 DEF EndStatus, WillRetry, InFlight
        <5>4. b.made + 1 < Attempts
            BY <1>0, <2>2, <2>3, <5>3, AttemptsAssumption
               DEF TypeOK, WorkerRecords, BrokerJobs
        <5> QED
            BY <2>5, <2>6, <4>3, <5>3, <5>4 DEF Minded
      <4> QED
          BY <4>2, <4>3
    <3> QED
        BY <2>6, <3>1 DEF Cared
  <2> QED
      BY <2>7, <2>8, <2>9, <2>10, <2>11, <2>12 DEF TInv
<1> QED
    BY <1>3, <1>4, <1>5, <1>6, <1>7, <1>8 DEF WorkerStep

LEMMA TameCrash ==
    ASSUME SInv, NEW w \in Workers, Crash(w)
    PROVE  TInv'
<1>0. /\ TypeOK /\ StaysTame /\ CrashesCounted /\ Owned /\ Undelivered
      /\ Ended /\ Cared /\ IInv
    BY TameFacts
<1> PICK j : j = worker[w].job
    OBVIOUS
<1>1. /\ worker[w].pc # "idle" /\ Spend("crash")
      /\ UNCHANGED <<row, late, client, fresh, told>>
    BY DEF Crash
<1>2. j \in JobIds /\ broker[j].owner = w /\ broker[j].state = "active"
    BY <1>0, <1>1, WorkerFields DEF Owned
<1>3. /\ worker'[w].pc = "idle"
      /\ \A v \in Workers \ {w} : worker'[v] = worker[v]
    BY <1>0, IdleTyped DEF Crash, TypeOK
<1>4. /\ \A i \in JobIds \ {j} : broker'[i] = broker[i]
      /\ broker'[j].state = "active" /\ broker'[j].stalled = broker[j].stalled
    BY <1>0, <1>2 DEF Crash, TypeOK, BrokerJobs
<1>5. StaysTame'
    BY <1>0, <1>1, TameKept
<1>6. CrashesCounted'
  <2>1. /\ budget["crash"] \in Nat /\ MaxStalled \in Nat
        /\ budget'["crash"] = budget["crash"] - 1 /\ budget["crash"] > 0
      BY <1>0, <1>1, MaxStalledAssumption DEF TypeOK, Spend, BudgetKinds
  <2>2. ~Orphan(j)
      BY <1>2, NullAssumption DEF Orphan
  <2>3. ASSUME NEW i \in JobIds
        PROVE  broker'[i].stalled + (IF Orphan(i)' THEN 1 ELSE 0)
                   <= MaxStalled - budget'["crash"]
    <3>1. /\ broker[i].stalled + (IF Orphan(i) THEN 1 ELSE 0)
                 <= MaxStalled - budget["crash"]
          /\ broker[i].stalled \in Nat
        BY <1>0 DEF CrashesCounted, TypeOK, BrokerJobs
    <3>2. CASE i = j
        BY <1>4, <2>1, <2>2, <3>1, <3>2
    <3>3. CASE i # j
      <4>1. broker'[i] = broker[i] /\ (Orphan(i)' <=> Orphan(i))
          BY <1>4, <3>3 DEF Orphan
      <4> QED
          BY <2>1, <3>1, <4>1
    <3> QED
        BY <3>2, <3>3
  <2>4. budget'["crash"] <= MaxStalled
      BY <1>0, <2>1 DEF CrashesCounted
  <2> QED
      BY <2>3, <2>4 DEF CrashesCounted, Orphan
<1>7. Owned'
  <2>1. \A v \in Workers \ {w} : worker[v].pc # "idle" =>
            worker[v].job \in JobIds \ {j}
      BY <1>0, <1>1, OneWorker, WorkerFields
  <2> QED
      BY <1>0, <1>3, <1>4, <2>1, OwnedKept
<1>8. Undelivered'
  <2>1. \A d \in Clients : client[d].pc \in {"create", "push"} =>
            client[d].job \in JobIds
      BY <1>0, ClientFields DEF WithJob
  <2>2. \A i \in JobIds :
            broker[i].state = "none" => broker'[i].state = "none"
      BY <1>2, <1>4
  <2> QED
      BY <1>0, <1>1, <2>1, <2>2, UndeliveredKept
<1>9. Ended'
    BY <1>0, <1>1, <1>3, EndedKept
<1>10. Cared'
  <2>1. ASSUME NEW r \in Rows, row[r].status # "unborn", Minded(r)
        PROVE  Minded(r)'
    <3>1. row[r].jobId \in JobIds
        BY <1>0, <2>1 DEF IInv, Names, RowsNamed
    <3> QED
        BY <1>1, <1>4, <2>1, <3>1, MindedStays
  <2> QED
      BY <1>0, <1>1, <2>1 DEF Cared, InFlight
<1> QED
    BY <1>5, <1>6, <1>7, <1>8, <1>9, <1>10 DEF TInv

LEMMA TameTake ==
    ASSUME SInv, NEW w \in Workers, NEW j \in JobIds, Take(w, j)
    PROVE  TInv'
<1>0. /\ TypeOK /\ StaysTame /\ CrashesCounted /\ Owned /\ Undelivered
      /\ Ended /\ Cared /\ IInv
    BY TameFacts
<1>1. /\ worker[w].pc = "idle" /\ broker[j].state = "queued"
      /\ UNCHANGED <<row, late, client, fresh, told, budget>>
    BY DEF Take
<1> DEFINE b == [broker[j] EXCEPT !.state = "active", !.owner = w,
                                  !.started = @ + 1]
<1>2. broker' = [broker EXCEPT ![j] = b]
    BY DEF Take
<1>3. b.made = broker[j].made /\ b.made \in Nat /\ b.started \in Nat
    BY <1>0 DEF TypeOK, BrokerJobs
<1>4. AttemptNumber(b) > broker[j].made
    BY <1>3 DEF AttemptNumber
<1>5. /\ \A i \in JobIds \ {j} : broker'[i] = broker[i]
      /\ broker'[j].state = "active" /\ broker'[j].owner = w
      /\ broker'[j].stalled = broker[j].stalled
      /\ broker'[j].made = broker[j].made
    BY <1>0, <1>2 DEF TypeOK, BrokerJobs
<1>6. /\ worker'[w].pc = "ensure" /\ worker'[w].job = j
      /\ worker'[w].attempt = AttemptNumber(b)
      /\ \A v \in Workers \ {w} : worker'[v] = worker[v]
    BY <1>0 DEF Take, TypeOK, IdleWorker
<1> HIDE DEF b
<1>7. StaysTame'
    BY <1>0, <1>1, TameKept
<1>8. CrashesCounted'
  <2>1. \A i \in JobIds :
           \/ broker'[i] = broker[i]
           \/ broker'[i].stalled = broker[i].stalled /\ ~Orphan(i)'
      BY <1>5, NullAssumption DEF Orphan
  <2> QED
      BY <1>0, <1>1, <2>1, CrashesKept
<1>9. Owned'
  <2>1. \A v \in Workers \ {w} : worker[v].pc # "idle" =>
            worker[v].job \in JobIds \ {j}
      BY <1>0, <1>1, WorkerFields DEF Owned
  <2> QED
      BY <1>0, <1>4, <1>5, <1>6, <2>1 DEF Owned
<1>10. Undelivered'
  <2>1. \A d \in Clients : client[d].pc \in {"create", "push"} =>
            client[d].job \in JobIds
      BY <1>0, ClientFields DEF WithJob
  <2>2. \A i \in JobIds :
            broker[i].state = "none" => broker'[i].state = "none"
      BY <1>1, <1>5
  <2> QED
      BY <1>0, <1>1, <2>1, <2>2, UndeliveredKept
<1>11. Ended'
    BY <1>0, <1>1, <1>6, EndedKept
<1>12. Cared'
  <2>1. ASSUME NEW r \in Rows, row[r].status # "unborn", Minded(r)
        PROVE  Minded(r)'
    <3>1. row[r].jobId \in JobIds
        BY <1>0, <2>1 DEF IInv, Names, RowsNamed
    <3> QED
        BY <1>1, <1>5, <2>1, <3>1, MindedStays
  <2> QED
      BY <1>0, <1>1, <2>1 DEF Cared, InFlight
<1> QED
    BY <1>7, <1>8, <1>9, <1>10, <1>11, <1>12 DEF TInv

\* The broker alone: a finished job leaves, a repeatable fires, a stalled job
\* waits again, a late add lands.
LEMMA TameBroker ==
    ASSUME UsedOnce, SInv, NEW j \in JobIds,
           \/ Evict(j) \/ RepeatableFire(j) \/ StalledCheck(j)
           \/ \E m \in late : m.job = j /\ BrokerAdd(j, m.rec)
                              /\ late' = late \ {m}
                              /\ UNCHANGED <<row, client, worker, fresh, told,
                                             budget>>
    PROVE  TInv'
<1>0. /\ TypeOK /\ StaysTame /\ CrashesCounted /\ Owned /\ Undelivered
      /\ Ended /\ Cared /\ IInv
    BY TameFacts
<1>1. /\ UNCHANGED <<row, client, worker, told>>
      /\ fresh' \subseteq fresh /\ late' \subseteq late
      /\ UNCHANGED budget \/ Spend("repeat")
      /\ \A i \in JobIds \ {j} : broker'[i] = broker[i]
    BY <1>0 DEF Evict, RepeatableFire, StalledCheck, BrokerAdd, TypeOK
\* What becomes of the job.
<1>2. \/ broker'[j] = broker[j]
      \/ /\ broker[j].state \in {"completed", "failed"}
         /\ broker'[j].state = "none" /\ broker'[j].stalled = 0
      \/ /\ j \notin fresh'
         /\ \A c \in Clients : client[c].pc \in {"create", "push"} =>
                                   client[c].job # j
         /\ broker[j].state = "none"
         /\ broker'[j].state = "queued" /\ broker'[j].stalled = 0
      \/ /\ Orphan(j) /\ UNCHANGED budget /\ broker'[j].state = "queued"
         /\ broker'[j].stalled = broker[j].stalled + 1
  <2>1. CASE Evict(j)
      BY <1>0, <2>1 DEF Evict, TypeOK, AbsentJob
  <2>2. ASSUME NEW r, BrokerAdd(j, r), j \notin fresh',
               \A c \in Clients : client[c].pc \in {"create", "push"} =>
                                      client[c].job # j
        PROVE  <1>2
      BY <1>0, <2>2 DEF BrokerAdd, TypeOK, QueuedJob, AbsentJob
  <2>3. CASE RepeatableFire(j)
    <3>1. BrokerAdd(j, NoRow) /\ j \in fresh /\ j \notin fresh'
        BY <2>3 DEF RepeatableFire
    <3>2. \A c \in Clients : client[c].pc \in {"create", "push"} =>
                                 client[c].job # j
        BY <1>0, <3>1 DEF Undelivered
    <3> QED
        BY <2>2, <3>1, <3>2
  <2>4. ASSUME NEW m \in late, m.job = j, BrokerAdd(j, m.rec)
        PROVE  <1>2
    <3>1. /\ j \notin fresh'
          /\ \A c \in Clients : client[c].pc \in {"create", "push"} =>
                                    client[c].job # j
        BY <1>0, <1>1, <2>4 DEF Undelivered, Unheard
    <3> QED
        BY <2>2, <2>4, <3>1
  <2>5. CASE StalledCheck(j)
    <3>1. Orphan(j) /\ UNCHANGED budget
        BY <2>5 DEF StalledCheck, Orphan
    <3>2. /\ broker[j].stalled \in Nat /\ budget["crash"] \in Nat
          /\ MaxStalled \in Nat
        BY <1>0, MaxStalledAssumption DEF TypeOK, BrokerJobs, BudgetKinds
    <3>3. broker[j].stalled + 1 <= MaxStalled - budget["crash"]
        BY <1>0, <3>1 DEF CrashesCounted
    <3>4. ~(broker[j].stalled + 1 > MaxStalled)
        BY <3>2, <3>3
    <3> QED
        BY <1>0, <2>5, <3>1, <3>4 DEF StalledCheck, TypeOK, BrokerJobs
  <2> QED
      BY <2>1, <2>3, <2>4, <2>5
<1>3. StaysTame'
    BY <1>0, <1>1, TameKept
<1>4. CrashesCounted'
  <2>1. CASE Orphan(j) /\ UNCHANGED budget /\ broker'[j].state = "queued"
             /\ broker'[j].stalled = broker[j].stalled + 1
    <3>1. ASSUME NEW i \in JobIds
          PROVE  broker'[i].stalled + (IF Orphan(i)' THEN 1 ELSE 0)
                     <= MaxStalled - budget["crash"]
      <4>1. broker[i].stalled + (IF Orphan(i) THEN 1 ELSE 0)
                <= MaxStalled - budget["crash"]
            /\ broker[i].stalled \in Nat
          BY <1>0 DEF CrashesCounted, TypeOK, BrokerJobs
      <4>2. CASE i = j
        <5>1. ~Orphan(i)'
            BY <2>1, <4>2 DEF Orphan
        <5> QED
            BY <2>1, <4>1, <4>2, <5>1
      <4>3. CASE i # j
          BY <1>1, <4>1, <4>3 DEF Orphan
      <4> QED
          BY <4>2, <4>3
    <3> QED
        BY <1>0, <2>1, <3>1 DEF CrashesCounted, Orphan
  <2>2. CASE \/ broker'[j] = broker[j]
             \/ broker'[j].stalled = 0 /\ broker'[j].state # "active"
      BY <1>0, <1>1, <2>2, CrashBudgetKept, CrashesKept
  <2> QED
      BY <1>2, <2>1, <2>2
<1>5. Owned'
  <2>1. \A w \in Workers : worker[w].pc # "idle" =>
            /\ worker[w].job \in JobIds
            /\ broker[worker[w].job].state = "active"
            /\ ~Orphan(worker[w].job)
      BY <1>0, WorkerFields, NullAssumption DEF Owned, Orphan
  <2>2. \A w \in Workers : worker[w].pc # "idle" =>
            broker'[worker[w].job] = broker[worker[w].job]
      BY <1>1, <1>2, <2>1
  <2> QED
      BY <1>0, <1>1, <2>2, OwnedKept
<1>6. Undelivered'
  <2>1. \A i \in JobIds : Unheard(i) =>
            \/ Unheard(i)'
            \/ /\ i \notin fresh'
               /\ \A c \in Clients : client[c].pc \in {"create", "push"} =>
                                         client[c].job # i
      BY <1>1, <1>2 DEF Unheard, Orphan
  <2>2. \A c \in Clients : client[c].pc \in {"create", "push"} =>
            client[c].job \in JobIds
      BY <1>0, ClientFields DEF WithJob
  <2>3. \A i \in fresh' : Unheard(i)'
      BY <1>0, <1>1, <2>1 DEF Undelivered, TypeOK
  <2>4. \A c \in Clients : client[c].pc \in {"create", "push"} =>
            /\ broker'[client[c].job].state = "none"
            /\ \A m \in late' : m.job # client[c].job
      BY <1>0, <2>1, <2>2 DEF Undelivered, Unheard
  <2> QED
      BY <1>0, <1>1, <2>3, <2>4 DEF Undelivered, Unheard
<1>7. Ended'
    BY <1>0, <1>1, EndedKept
<1>8. Cared'
  <2>1. ASSUME NEW r \in Rows, row[r].status # "unborn", Minded(r)
        PROVE  Minded(r)'
    <3>1. row[r].jobId \in JobIds
        BY <1>0, <2>1 DEF IInv, Names, RowsNamed
    <3>2. broker[row[r].jobId].state \in {"queued", "active"} =>
              broker'[row[r].jobId].state \in {"queued", "active"}
        BY <1>1, <1>2, <3>1
    <3> QED
        BY <1>1, <2>1, <3>2, MindedStays
  <2> QED
      BY <1>0, <1>1, <2>1 DEF Cared, InFlight
<1> QED
    BY <1>3, <1>4, <1>5, <1>6, <1>7, <1>8 DEF TInv

LEMMA TameSystem ==
    ASSUME UsedOnce, SInv, SystemStep
    PROVE  TInv'
<1>0. TypeOK /\ StaysTame
    BY TameFacts
<1>1. ASSUME NEW c \in Clients, ClientCrash(c) PROVE FALSE
    BY <1>0, <1>1, TameSpends DEF ClientCrash, Never
<1>2. ASSUME NEW j \in JobIds, LoseLock(j) PROVE FALSE
    BY <1>0, <1>2, TameSpends DEF LoseLock, Never
<1>3. ASSUME LandLate PROVE TInv'
  <2> PICK m \in late :
        /\ BrokerAdd(m.job, m.rec) /\ late' = late \ {m}
        /\ UNCHANGED <<row, client, worker, fresh, told, budget>>
      BY <1>3 DEF LandLate
  <2>1. m.job \in JobIds
      BY <1>0 DEF TypeOK
  <2> QED
      BY <2>1, TameBroker
<1> QED
    BY <1>1, <1>2, <1>3, TameCrash, TameTake, TameBroker DEF SystemStep

LEMMA TameInit == Init /\ Tame => TInv
<1> SUFFICES ASSUME Init, Tame PROVE TInv
    OBVIOUS
<1>1. \A c \in Clients : client[c].pc = "idle"
    BY IdleTyped DEF Init
<1>2. \A w \in Workers : worker[w].pc = "idle"
    BY IdleTyped DEF Init
<1>3. \A j \in JobIds : broker[j].state = "none" /\ broker[j].stalled = 0
    BY DEF Init, AbsentJob
<1>4. \A r \in Rows : row[r].status = "unborn"
    BY DEF Init
<1>5. StaysTame
    BY <1>1, <1>4 DEF Init, StaysTame, Tame
<1>6. CrashesCounted
  <2>1. /\ budget["crash"] \in Nat /\ budget["crash"] <= MaxStalled
        /\ MaxStalled \in Nat
      BY BudgetAssumption, MaxStalledAssumption DEF Init, BudgetKinds, Tame
  <2> QED
      BY <1>3, <2>1 DEF CrashesCounted, Orphan
<1>7. Owned /\ Ended
    BY <1>2 DEF Owned, Ended
<1>8. Undelivered
    BY <1>1, <1>3 DEF Init, Undelivered, Unheard
<1>9. Cared
    BY <1>4 DEF Cared, InFlight
<1> QED
    BY <1>5, <1>6, <1>7, <1>8, <1>9 DEF TInv

LEMMA TameNext == UsedOnce /\ SInv /\ [Next]_vars => TInv'
<1> SUFFICES ASSUME UsedOnce, SInv, [Next]_vars PROVE TInv'
    OBVIOUS
<1>1. CASE UNCHANGED vars
  <2>1. TInv
      BY DEF SInv
  <2> QED
      BY <1>1, <2>1 DEF TInv, StaysTame, CrashesCounted, Orphan, Owned,
         Undelivered, Unheard, Ended, EndStatus, WillRetry, Cared, Minded, vars
<1>2. CASE Next
    BY <1>2, NextCases, TameClient, TameCall, TameWorker, TameSystem
<1> QED
    BY <1>1, <1>2

\* "Never report success for work that will not happen" (queue.ts:8-9): with
\* ids that are used once, no cancels and no more crashes than BullMQ forgives,
\* a row that shows QUEUED or RUNNING while nobody works on it has a job in
\* Redis, however pushes fail, late adds land, runs fail and slots crash.
THEOREM NoneStranded == Spec /\ UsedOnce /\ Tame => []NoStrandedRow
<1>1. Init /\ UsedOnce /\ Tame => UsedOnce /\ TInv
    BY TameInit
<1>2. IInv /\ OneRowPerJob /\ (UsedOnce /\ TInv) /\ [Next]_vars
          => (UsedOnce /\ TInv)'
    BY TameNext DEF SInv, UsedOnce
<1>3. TInv => NoStrandedRow
    BY DEF TInv, Cared, Minded, NoStrandedRow, Settled
<1> QED
    BY <1>1, <1>2, <1>3, Invariance, OneRow, PTL DEF Spec
=============================================================================

--------------------------- MODULE CrawlLifecycle ---------------------------
(* The life of a crawl outside its engine: the web process creates and        *)
(* cancels Crawl rows (apps/web/src/server/crawls.ts), the crawl lane runs    *)
(* crawl.site and crawl.cancel (apps/worker/src/processors/crawl.ts), and a   *)
(* run folds what it stored into the durable Page table.  Rows and jobs are   *)
(* read in one statement and written in another by id, the lane runs several  *)
(* crawls of one site at a time and runs a failed one again.                  *)
(*                                                                            *)
(* A crawl's number is the order of its createdAt.  Time advances when a run  *)
(* starts, which is what the stamps of page rows are compared with.           *)
EXTENDS Integers, FiniteSets

CONSTANTS
    Urls,
    Requests,      \* startCrawl requests
    Runs,          \* jobs of the lane that may run at the same time
    MaxCrawls,     \* crawl rows ever created
    Attempts,      \* attempts of a job
    Scales         \* the sizes to look at

CrawlIds == 1..MaxCrawls
Times    == 0..(MaxCrawls * Attempts + 1)

(* How many requests, scheduled jobs and cancellations there are, how many    *)
(* attempts fail in the engine, how many calls fail elsewhere or processes    *)
(* are lost, how often the site is archived or taken back, and how many runs  *)
(* the lane allows.                                                           *)
ScaleRecords ==
    [starts : Nat, crons : Nat, cancels : Nat, failures : Nat, crashes : Nat,
     archives : Nat, runs : SUBSET Runs]

ASSUME LifecycleAssumption ==
    /\ MaxCrawls \in Nat
    /\ Attempts \in Nat \ {0}
    /\ Scales \subseteq ScaleRecords

VARIABLES
    crawl,     \* Crawl.status
    job,       \* the crawl.site job: its record's status and attempts begun
    stored,    \* the CrawlPage rows of each crawl, with their crawledAt
    page,      \* the Page rows: lastCrawledAt and isActive
    audit,     \* the technical audit chained to each crawl: enqueued, or its row alone
    req,       \* where each startCrawl is
    cancel,    \* where cancelCrawl and the crawl.cancel job it enqueues are
    run,       \* where each run of crawlSite is, with what it holds
    clock, ids,
    archived,  \* the website's status is ARCHIVED
    online,    \* the pages the site has
    left,      \* what of the scale may still happen
    saw,       \* history: the active rows that a request saw when it looked for rivals
    overlap,   \* history: runs that were not alone
    lost       \* history: rows whose request, push or attempt was lost

vars == <<crawl, job, stored, page, audit, req, cancel, run, clock, ids, archived, online,
          left, saw, overlap, lost>>
history == <<saw, overlap, lost>>

Active   == {"QUEUED", "RUNNING"}
Statuses == Active \cup {"none", "COMPLETED", "CANCELLED", "FAILED"}

(* Jobs of the schedule and of the onboarding page name no crawl row.  The    *)
(* record of an unpushed job is QUEUED with no job in the broker; that of a   *)
(* skipped one reads COMPLETED.                                               *)
JobStates ==
    {"none", "unpushed", "queued", "running", "completed", "skipped", "failed", "cancelled"}
JobRecords == [pc : JobStates, named : BOOLEAN, attempt : 0..Attempts]
NoJob == [pc |-> "none", named |-> FALSE, attempt |-> 0]

RunRecords ==
    [pc : {"idle", "begin", "crawl", "upsert", "deactivate", "finish", "audit", "end"},
     id : CrawlIds \cup {0}, started : Times, fetched : SUBSET Urls, unstored : SUBSET Urls,
     todo : SUBSET Urls, aborted : BOOLEAN, cancelled : BOOLEAN, limit : BOOLEAN]
IdleRun == [pc |-> "idle", id |-> 0, started |-> 0, fetched |-> {}, unstored |-> {}, todo |-> {},
            aborted |-> FALSE, cancelled |-> FALSE, limit |-> FALSE]

IdleRequest == [pc |-> "idle", id |-> 0]
IdleCancel  == [pc |-> "idle", id |-> 0, running |-> FALSE]

Init ==
    /\ left \in Scales
    /\ crawl = [i \in CrawlIds |-> "none"]
    /\ job = [i \in CrawlIds |-> NoJob]
    /\ stored = [i \in CrawlIds |-> [u \in Urls |-> 0]]
    /\ page = [u \in Urls |-> [at |-> 1, active |-> TRUE]]
    /\ audit = [i \in CrawlIds |-> "none"]
    /\ req = [r \in Requests |-> IdleRequest]
    /\ cancel = IdleCancel
    /\ run = [w \in Runs |-> IdleRun]
    /\ clock = 1
    /\ ids = 0
    /\ archived = FALSE
    /\ online \in SUBSET Urls
    /\ saw = [i \in CrawlIds |-> {}]
    /\ overlap = {}
    /\ lost = {}

Spend(what) ==
    /\ left[what] > 0
    /\ left' = [left EXCEPT ![what] = @ - 1]

(* A call that may fail: it does what it should, or the failure is spent.     *)
Goes  == UNCHANGED left
Fails == Spend("crashes")

ActiveRows == {i \in CrawlIds : crawl[i] \in Active}
Busy == {w \in Runs : run[w].pc # "idle"}

-----------------------------------------------------------------------------
(* startCrawl, and the operator who archives the site or takes it back        *)

Archive ==
    /\ Spend("archives")
    /\ archived' = ~archived
    /\ UNCHANGED <<crawl, job, stored, page, audit, req, cancel, run, clock, ids, online, history>>

CheckActive(r) ==
    /\ req[r].pc = "idle"
    /\ ~archived
    /\ Spend("starts")
    /\ ActiveRows = {}
    /\ req' = [req EXCEPT ![r].pc = "stamp"]
    /\ UNCHANGED <<crawl, job, stored, page, audit, cancel, run, clock, ids, archived, online, history>>

(* createdAt and the id are made before the row is inserted.                  *)
Stamp(r) ==
    /\ req[r].pc = "stamp"
    /\ ids < MaxCrawls
    /\ ids' = ids + 1
    /\ req' = [req EXCEPT ![r] = [pc |-> "insert", id |-> ids + 1]]
    /\ UNCHANGED <<crawl, job, stored, page, audit, cancel, run, clock, archived, online, left, history>>

Insert(r) ==
    /\ req[r].pc = "insert"
    /\ crawl' = [crawl EXCEPT ![req[r].id] = "QUEUED"]
    /\ req' = [req EXCEPT ![r].pc = "rival"]
    /\ UNCHANGED <<job, stored, page, audit, cancel, run, clock, ids, archived, online, left, history>>

(* The oldest other active row, and whether it is older than one's own.       *)
Rivals(i) == ActiveRows \ {i}

(* Mutant: the tie is not broken.                                             *)
OutrankedNever(i) == FALSE

(* Mutant: whoever sees a rival withdraws.                                    *)
OutrankedByAny(i) == Rivals(i) # {}

Outranked(i) == \E j \in Rivals(i) : j < i

LookForRival(r) ==
    LET i == req[r].id
    IN /\ req[r].pc = "rival"
       /\ saw' = [saw EXCEPT ![i] = Rivals(i)]
       /\ req' = [req EXCEPT ![r].pc = IF Outranked(i) THEN "withdraw" ELSE "enqueue"]
       /\ UNCHANGED <<crawl, job, stored, page, audit, cancel, run, clock, ids, archived, online, left, overlap, lost>>

Withdraw(r) ==
    /\ req[r].pc = "withdraw"
    /\ crawl' = [crawl EXCEPT ![req[r].id] = "none"]
    /\ req' = [req EXCEPT ![r] = IdleRequest]
    /\ UNCHANGED <<job, stored, page, audit, cancel, run, clock, ids, archived, online, left, history>>

(* enqueue writes the record and pushes the job.  A push that fails leaves    *)
(* the record alone, and "Queued in the database" on the crawl row.           *)
EnqueueCrawl(r) ==
    LET i == req[r].id
    IN /\ req[r].pc = "enqueue"
       /\ \/ /\ Goes
             /\ job' = [job EXCEPT ![i] = [pc |-> "queued", named |-> TRUE, attempt |-> 0]]
             /\ UNCHANGED lost
          \/ /\ Fails
             /\ job' = [job EXCEPT ![i] = [pc |-> "unpushed", named |-> TRUE, attempt |-> 0]]
             /\ lost' = lost \cup {i}
       /\ req' = [req EXCEPT ![r] = IdleRequest]
       /\ UNCHANGED <<crawl, stored, page, audit, cancel, run, clock, ids, archived, online, saw, overlap>>

(* A push that was given up on may reach the broker later.                    *)
CrawlLands(i) ==
    /\ job[i].pc = "unpushed"
    /\ job' = [job EXCEPT ![i].pc = "queued"]
    /\ UNCHANGED <<crawl, stored, page, audit, req, cancel, run, clock, ids, archived, online, left, history>>

(* The web process dies, its request is cut off, or a statement of it fails:  *)
(* a deletion in Withdraw that fails is swallowed.                            *)
RequestDies(r) ==
    /\ req[r].pc # "idle"
    /\ Spend("crashes")
    /\ req' = [req EXCEPT ![r] = IdleRequest]
    /\ lost' = lost \cup ({req[r].id} \ {0})
    /\ UNCHANGED <<crawl, job, stored, page, audit, cancel, run, clock, ids, archived, online, saw, overlap>>

(* The schedule and the onboarding page enqueue the job alone.                *)
Schedule ==
    /\ Spend("crons")
    /\ ids < MaxCrawls
    /\ ids' = ids + 1
    /\ job' = [job EXCEPT ![ids + 1] = [pc |-> "queued", named |-> FALSE, attempt |-> 0]]
    /\ UNCHANGED <<crawl, stored, page, audit, req, cancel, run, clock, archived, online, history>>

-----------------------------------------------------------------------------
(* cancelCrawl, and the crawl.cancel job. *)

InFlight(i) == job[i].pc \in {"unpushed", "queued", "running"} /\ job[i].named

CancelReads(i) ==
    /\ cancel.pc = "idle"
    /\ crawl[i] \in Active
    /\ Spend("cancels")
    /\ cancel' = [pc |-> "mark", id |-> i, running |-> crawl[i] = "RUNNING"]
    /\ UNCHANGED <<crawl, job, stored, page, audit, req, run, clock, ids, archived, online, history>>

CancelMarks ==
    /\ cancel.pc \in {"mark", "marksignal"}
    /\ crawl' = [crawl EXCEPT ![cancel.id] = IF @ = "none" THEN @ ELSE "CANCELLED"]
    /\ cancel' = [cancel EXCEPT !.pc = IF @ = "mark" THEN "job" ELSE "jobsignal"]
    /\ UNCHANGED <<job, stored, page, audit, req, run, clock, ids, archived, online, left, history>>

CancelsJob ==
    LET i == cancel.id
    IN /\ cancel.pc \in {"job", "jobsignal"}
       /\ job' = IF InFlight(i) THEN [job EXCEPT ![i].pc = "cancelled"] ELSE job
       /\ cancel' = IF cancel.pc = "job" /\ cancel.running
                    THEN [cancel EXCEPT !.pc = "signal"] ELSE IdleCancel
       /\ UNCHANGED <<crawl, stored, page, audit, req, run, clock, ids, archived, online, left, history>>

SignalReads ==
    /\ cancel.pc = "signal"
    /\ cancel' = IF crawl[cancel.id] \in {"COMPLETED", "FAILED", "none"}
                 THEN IdleCancel ELSE [cancel EXCEPT !.pc = "marksignal"]
    /\ UNCHANGED <<crawl, job, stored, page, audit, req, run, clock, ids, archived, online, left, history>>

-----------------------------------------------------------------------------
(* crawlSite *)

Claim(w, i) ==
    /\ run[w].pc = "idle" /\ w \in left.runs
    /\ job[i].pc = "queued"
    /\ job' = [job EXCEPT ![i].pc = "running", ![i].attempt = @ + 1]
    /\ run' = [run EXCEPT ![w] = [IdleRun EXCEPT !.pc = "begin", !.id = i]]
    /\ overlap' = IF Busy = {} THEN overlap \ {w} ELSE overlap \cup Busy \cup {w}
    /\ UNCHANGED <<crawl, stored, page, audit, req, cancel, clock, ids, archived, online, left, saw, lost>>

(* The runtime marks the record, which stays cancelled if it was.             *)
Settled(pc, new) == IF pc = "cancelled" THEN pc ELSE new

(* The job of an archived site is over, and its crawl row stays as it is.     *)
Skip(w) ==
    /\ run[w].pc = "begin"
    /\ archived
    /\ job' = [job EXCEPT ![run[w].id].pc = Settled(@, "skipped")]
    /\ run' = [run EXCEPT ![w] = IdleRun]
    /\ UNCHANGED <<crawl, stored, page, audit, req, cancel, clock, ids, archived, online, left, history>>

(* ensureCrawlRow, then RUNNING, whatever the row said.                       *)
Begin(w) ==
    /\ run[w].pc = "begin"
    /\ ~archived
    /\ crawl' = [crawl EXCEPT ![run[w].id] = "RUNNING"]
    /\ clock' = clock + 1
    /\ run' = [run EXCEPT ![w].pc = "crawl", ![w].started = clock + 1]
    /\ UNCHANGED <<job, stored, page, audit, req, cancel, ids, archived, online, left, history>>

(* Pages are fetched, and their rows inserted in one batch, but for those the *)
(* crawl has already.  A batch that cannot be written is counted and left.    *)
Fetch(w, batch) ==
    LET i == run[w].id
    IN /\ run[w].pc = "crawl"
       /\ ~run[w].aborted
       /\ batch # {} /\ batch \subseteq online \ run[w].fetched
       /\ \/ /\ Goes
             /\ stored' = [stored EXCEPT ![i] =
                             [u \in Urls |-> IF u \in batch /\ @[u] = 0 THEN clock ELSE @[u]]]
             /\ run' = [run EXCEPT ![w].fetched = @ \cup batch]
          \/ /\ Fails
             /\ run' = [run EXCEPT ![w].fetched = @ \cup batch, ![w].unstored = @ \cup batch]
             /\ UNCHANGED stored
       /\ UNCHANGED <<crawl, job, page, audit, req, cancel, clock, ids, archived, online, history>>

(* A poll of the two flags that was sent while the engine ran.                *)
Poll(w) ==
    /\ run[w].pc \in {"crawl", "upsert", "deactivate"}
    /\ job[run[w].id].pc = "cancelled" \/ crawl[run[w].id] = "CANCELLED"
    /\ ~run[w].aborted
    /\ run' = [run EXCEPT ![w].aborted = TRUE]
    /\ UNCHANGED <<crawl, job, stored, page, audit, req, cancel, clock, ids, archived, online, left, history>>

(* The engine's outcome: all there is, or what there was before the abort or  *)
(* the page limit.                                                            *)
EngineEnds(w) ==
    LET all == run[w].fetched = online
    IN /\ run[w].pc = "crawl"
       /\ \E limit \in BOOLEAN :
            /\ limit => ~all /\ ~run[w].aborted
            /\ all \/ limit \/ run[w].aborted
            /\ run' = [run EXCEPT ![w].pc = "upsert", ![w].limit = limit,
                         ![w].cancelled = ~all /\ run[w].aborted,
                         ![w].todo = {u \in Urls : stored[run[w].id][u] # 0}]
       /\ UNCHANGED <<crawl, job, stored, page, audit, req, cancel, clock, ids, archived, online, left, history>>

(* reconcilePages: the crawl's rows, those of earlier attempts among them.    *)
Upserted(at) == [at |-> at, active |-> TRUE]

UpsertPage(w, u) ==
    /\ run[w].pc = "upsert"
    /\ u \in run[w].todo
    /\ page' = [page EXCEPT ![u] = Upserted(stored[run[w].id][u])]
    /\ run' = [run EXCEPT ![w].todo = @ \ {u}]
    /\ UNCHANGED <<crawl, job, stored, audit, req, cancel, clock, ids, archived, online, left, history>>

UpsertEnds(w) ==
    /\ run[w].pc = "upsert"
    /\ run[w].todo = {}
    /\ run' = [run EXCEPT ![w].pc =
                IF run[w].cancelled \/ run[w].limit THEN "finish" ELSE "deactivate"]
    /\ UNCHANGED <<crawl, job, stored, page, audit, req, cancel, clock, ids, archived, online, left, history>>

(* Mutant: pages of the run itself are taken for older ones.                  *)
MissingInclusive(w) == {u \in Urls : page[u].active /\ page[u].at <= run[w].started}

Missing(w) == {u \in Urls : page[u].active /\ page[u].at < run[w].started}

Deactivate(w) ==
    /\ run[w].pc = "deactivate"
    /\ page' = [u \in Urls |-> IF u \in Missing(w) THEN [page[u] EXCEPT !.active = FALSE]
                               ELSE page[u]]
    /\ run' = [run EXCEPT ![w].pc = "finish"]
    /\ UNCHANGED <<crawl, job, stored, audit, req, cancel, clock, ids, archived, online, left, history>>

(* The row's last status, and the chained audit of a crawl that was not       *)
(* cancelled.                                                                 *)
Outcome(w) == IF run[w].cancelled \/ run[w].aborted THEN "CANCELLED" ELSE "COMPLETED"

Finish(w) ==
    /\ run[w].pc = "finish"
    /\ crawl' = [crawl EXCEPT ![run[w].id] = Outcome(w)]
    /\ run' = [run EXCEPT ![w].pc = IF Outcome(w) = "CANCELLED" THEN "end" ELSE "audit"]
    /\ UNCHANGED <<job, stored, page, audit, req, cancel, clock, ids, archived, online, left, history>>

(* The row of an audit that the broker never took keeps the key from then on, *)
(* so that a later attempt is told that the audit is queued already.          *)
(* Mutant: so is it told whatever became of the audit of an earlier attempt.  *)
AuditOnce(w) ==
    [audit EXCEPT ![run[w].id] = IF @ = "unpushed" \/ job[run[w].id].attempt > 1 THEN @ ELSE "enqueued"]

AuditEnqueued(w) == [audit EXCEPT ![run[w].id] = IF @ = "unpushed" THEN @ ELSE "enqueued"]

Audit(w) ==
    /\ run[w].pc = "audit"
    /\ \/ /\ Goes
          /\ audit' = AuditEnqueued(w)
       \/ /\ Fails
          /\ audit[run[w].id] = "none"
          /\ audit' = [audit EXCEPT ![run[w].id] = "unpushed"]
    /\ run' = [run EXCEPT ![w].pc = "end"]
    /\ UNCHANGED <<crawl, job, stored, page, req, cancel, clock, ids, archived, online, history>>

AuditLands(i) ==
    /\ audit[i] = "unpushed"
    /\ audit' = [audit EXCEPT ![i] = "enqueued"]
    /\ UNCHANGED <<crawl, job, stored, page, req, cancel, run, clock, ids, archived, online, left, history>>

End(w) ==
    /\ run[w].pc = "end"
    /\ job' = [job EXCEPT ![run[w].id].pc = Settled(@, "completed")]
    /\ run' = [run EXCEPT ![w] = IdleRun]
    /\ UNCHANGED <<crawl, stored, page, audit, req, cancel, clock, ids, archived, online, left, history>>

Again(i) == job[i].attempt < Attempts

(* An attempt is over.  The broker runs the job again while it has attempts;  *)
(* a job that names no row makes a new one then.                              *)
AttemptOver(w) ==
    LET i == run[w].id
    IN /\ run' = [run EXCEPT ![w] = IdleRun]
       /\ IF Again(i) /\ ~job[i].named
          THEN /\ ids < MaxCrawls
               /\ ids' = ids + 1
               /\ job' = [job EXCEPT ![i] = NoJob, ![ids + 1] = [job[i] EXCEPT !.pc = "queued"]]
          ELSE /\ job' = [job EXCEPT ![i].pc = Settled(@, IF Again(i) THEN "queued" ELSE "failed")]
               /\ UNCHANGED ids
       /\ UNCHANGED <<stored, page, audit, req, cancel, clock, archived, online, saw, overlap>>

(* Mutant: the row is left as it is.                                          *)
FailedRowAsIs(i) == crawl

FailedRow(i) == [crawl EXCEPT ![i] = "FAILED"]

EngineFails(w) ==
    /\ run[w].pc = "crawl"
    /\ Spend("failures")
    /\ crawl' = FailedRow(run[w].id)
    /\ AttemptOver(w)
    /\ UNCHANGED lost

(* A statement fails outside the engine, or the worker dies.                  *)
RunDies(w) ==
    /\ run[w].pc # "idle"
    /\ Spend("crashes")
    /\ AttemptOver(w)
    /\ lost' = lost \cup {run[w].id}
    /\ UNCHANGED crawl

-----------------------------------------------------------------------------

RequestStep(r) ==
    \/ Stamp(r) \/ Insert(r) \/ LookForRival(r) \/ Withdraw(r) \/ EnqueueCrawl(r)

CancelStep == CancelMarks \/ CancelsJob \/ SignalReads

RunStep(w) ==
    \/ Skip(w) \/ Begin(w) \/ EngineEnds(w) \/ UpsertEnds(w) \/ Deactivate(w)
    \/ Finish(w) \/ Audit(w) \/ End(w)
    \/ \E batch \in SUBSET Urls : Fetch(w, batch)
    \/ \E u \in Urls : UpsertPage(w, u)
    \/ \E i \in CrawlIds : Claim(w, i)

Next ==
    \/ \E r \in Requests : CheckActive(r) \/ RequestStep(r) \/ RequestDies(r)
    \/ Schedule
    \/ Archive
    \/ \E i \in CrawlIds : CancelReads(i) \/ CrawlLands(i) \/ AuditLands(i)
    \/ CancelStep
    \/ \E w \in Runs : RunStep(w) \/ Poll(w) \/ EngineFails(w) \/ RunDies(w)

Spec == Init /\ [][Next]_vars

(* What was begun goes on, and the lane takes queued jobs.  No request, no    *)
(* cancellation, no poll and no failure has to happen, and no push that was   *)
(* given up on has to land.                                                   *)
Fairness ==
    /\ \A r \in Requests : WF_vars(RequestStep(r))
    /\ WF_vars(CancelStep)
    /\ \A w \in Runs : WF_vars(RunStep(w))

FairSpec == Spec /\ Fairness

-----------------------------------------------------------------------------
(* Properties. *)

(* The type invariant. *)
TypeOK ==
    /\ crawl \in [CrawlIds -> Statuses]
    /\ job \in [CrawlIds -> JobRecords]
    /\ stored \in [CrawlIds -> [Urls -> Times]]
    /\ page \in [Urls -> [at : Times, active : BOOLEAN]]
    /\ audit \in [CrawlIds -> {"none", "unpushed", "enqueued"}]
    /\ req \in [Requests -> [pc : {"idle", "stamp", "insert", "rival", "withdraw", "enqueue"},
                             id : CrawlIds \cup {0}]]
    /\ cancel \in [pc : {"idle", "mark", "job", "signal", "marksignal", "jobsignal"},
                   id : CrawlIds \cup {0}, running : BOOLEAN]
    /\ run \in [Runs -> RunRecords]
    /\ clock \in Times
    /\ ids \in 0..MaxCrawls
    /\ archived \in BOOLEAN
    /\ online \subseteq Urls
    /\ left \in ScaleRecords
    /\ saw \in [CrawlIds -> SUBSET CrawlIds]
    /\ overlap \subseteq Runs
    /\ lost \subseteq CrawlIds

(* "Racers that can see each other's rows agree on a single winner and every  *)
(* other one withdraws": of two requests that saw each other's row, one at    *)
(* most enqueues its crawl.                                                   *)
RacersAgree ==
    \A i, j \in CrawlIds :
        i # j /\ j \in saw[i] /\ i \in saw[j] => job[i].pc = "none" \/ job[j].pc = "none"

(* And never all of them withdraw: while a request takes its row back, there  *)
(* is the row of a crawl that nobody takes back.                              *)
Withdrawing(i) == \E r \in Requests : req[r].pc = "withdraw" /\ req[r].id = i

SomeoneWins ==
    (\E i \in CrawlIds : Withdrawing(i)) =>
        \E i \in CrawlIds : crawl[i] # "none" /\ ~Withdrawing(i)

(* A run deactivates the pages that its crawl did not find and no other: what *)
(* it fetched in its first attempt, alone on the site, stays active, but for  *)
(* the batches that it could not store.                                       *)
OnlyTheMissing ==
    [][\A w \in Runs :
          /\ run[w].pc = "deactivate" /\ run'[w].pc = "finish"
          /\ w \notin overlap /\ job[run[w].id].attempt = 1
          => \A u \in run[w].fetched \ run[w].unstored : page'[u].active]_vars

(* The same of every run and batch: "pages beyond it were left untouched rather than    *)
(* marked missing", "deactivateMissing".                                      *)
OnlyTheMissingEver ==
    [][\A w \in Runs :
          run[w].pc = "deactivate" /\ run'[w].pc = "finish"
          => \A u \in run[w].fetched : page'[u].active]_vars

(* A crawl row does not stay active for ever, which would make startCrawl     *)
(* refuse the site from then on, unless its job is over or nowhere: skipped   *)
(* because the site was archived; or lost by a process that died or by a      *)
(* broker that did not take it, with no attempt left.  A lost attempt is made *)
(* up by the next one.                                                        *)
GivenUp(i) ==
    \/ job[i].pc = "skipped"
    \/ i \in lost /\ job[i].pc \in {"none", "unpushed", "failed", "cancelled"}

CrawlsEnd == <>[](\A i \in ActiveRows : GivenUp(i))

(* A crawl that completed has its audit enqueued, with the same exception, or *)
(* the row of one that the broker did not take.                               *)
CompletedIsAudited ==
    <>[](\A i \in CrawlIds : crawl[i] = "COMPLETED" => audit[i] # "none" \/ GivenUp(i))

(* startCrawl never locks a site: no row stays active.                        *)
CrawlsEndEver == <>[](ActiveRows = {})

(* Every crawl that completed is audited.                                     *)
CompletedIsAuditedEver ==
    <>[](\A i \in CrawlIds : crawl[i] = "COMPLETED" => audit[i] = "enqueued")

(* "The site then gets crawled twice over - double the traffic to somebody's  *)
(* server and two sets of CrawlPage rows": one crawl of a site at a time.     *)
OneAtATime == Cardinality({i \in CrawlIds : job[i].pc \in {"queued", "running"}}) <= 1

(* "The running crawl stops at its next checkpoint": a crawl that was         *)
(* cancelled never reads COMPLETED.                                           *)
CancelSticks == [][\A i \in CrawlIds : crawl[i] = "CANCELLED" => crawl'[i] # "COMPLETED"]_vars
=============================================================================

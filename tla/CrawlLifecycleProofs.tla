------------------------- MODULE CrawlLifecycleProofs -------------------------
(* The race of startCrawl (apps/web/src/server/crawls.ts), for any number of  *)
(* requests, runs, crawls and attempts: who sees whom, and who withdraws.     *)
EXTENDS CrawlLifecycle, WellFoundedInduction, TLAPS

(* The types of what the race reads and writes; the clock and the number of   *)
(* an attempt may grow without bound here.                                    *)
JobShapes ==
    [pc : {"none", "unpushed", "queued", "running", "completed", "skipped", "failed", "cancelled"},
     named : BOOLEAN, attempt : Nat]
RunShapes ==
    [pc : {"idle", "begin", "crawl", "upsert", "deactivate", "finish", "audit", "end"},
     id : CrawlIds \cup {0}, started : Nat, fetched : SUBSET Urls, unstored : SUBSET Urls,
     todo : SUBSET Urls, aborted : BOOLEAN, cancelled : BOOLEAN, limit : BOOLEAN]
RequestShapes ==
    [pc : {"idle", "stamp", "insert", "rival", "withdraw", "enqueue"}, id : CrawlIds \cup {0}]

Shaped ==
    /\ crawl \in [CrawlIds -> Statuses]
    /\ job \in [CrawlIds -> JobShapes]
    /\ req \in [Requests -> RequestShapes]
    /\ run \in [Runs -> RunShapes]
    /\ saw \in [CrawlIds -> SUBSET CrawlIds]
    /\ clock \in Nat
    /\ ids \in 0..MaxCrawls

(* A request holds the number of a row of its own, whose job is yet to be     *)
(* enqueued; a run holds a job that no other run has.                         *)
Holding == {"insert", "rival", "withdraw", "enqueue"}

Requested ==
    /\ \A r \in Requests :
          IF req[r].pc \in Holding
          THEN req[r].id \in 1..ids /\ job[req[r].id].pc = "none"
          ELSE req[r].id = 0
    /\ \A r, s \in Requests : r # s /\ req[r].id = req[s].id => req[r].id = 0

Claimed ==
    /\ \A w \in Busy : run[w].id \in CrawlIds /\ job[run[w].id].pc \in {"running", "cancelled"}
    /\ \A v, w \in Busy : run[v].id = run[w].id => v = w

Unborn ==
    \A i \in CrawlIds : i > ids => job[i].pc = "none" /\ crawl[i] = "none" /\ saw[i] = {}

(* Whoever saw an older rival withdraws or has done so.                       *)
Beaten ==
    \A i \in CrawlIds : (\E j \in saw[i] : j < i) =>
        /\ job[i].pc = "none" /\ i <= ids
        /\ \A r \in Requests : req[r].id = i => req[r].pc = "withdraw"

(* While a request withdraws there is an older row than its own.              *)
Outlived ==
    \A r \in Requests : req[r].pc = "withdraw" =>
        \E j \in CrawlIds : j < req[r].id /\ crawl[j] # "none"

IInv == Shaped /\ Requested /\ Claimed /\ Unborn /\ Beaten /\ Outlived

-----------------------------------------------------------------------------
(* What the conditions follow from *)

LEMMA IdleShaped ==
    /\ NoJob \in JobShapes /\ NoJob.pc = "none"
    /\ IdleRun \in RunShapes /\ IdleRun.pc = "idle"
    /\ IdleRequest \in RequestShapes /\ IdleRequest.pc = "idle" /\ IdleRequest.id = 0
BY DEF NoJob, JobShapes, IdleRun, RunShapes, IdleRequest, RequestShapes

LEMMA IdsNat == MaxCrawls \in Nat /\ CrawlIds \subseteq Nat \ {0} /\ 0 \notin CrawlIds
BY LifecycleAssumption DEF CrawlIds

LEMMA InitInv == Init => IInv
<1> SUFFICES ASSUME Init PROVE IInv
    OBVIOUS
<1>1. Shaped
    BY IdleShaped, IdsNat DEF Init, Shaped, Statuses, Active
<1>2. Requested /\ Claimed /\ Unborn /\ Beaten /\ Outlived
    BY IdleShaped DEF Init, Requested, Holding, Claimed, Busy, Unborn, Beaten, Outlived
<1> QED
    BY <1>1, <1>2 DEF IInv

(* Rows come and go, and a row that is there has been numbered.               *)
RowsKept ==
    /\ crawl' \in [CrawlIds -> Statuses]
    /\ \A i \in CrawlIds : crawl[i] # "none" => crawl'[i] # "none"
    /\ \A i \in CrawlIds : i > ids => crawl'[i] = "none"

(* A step of neither a request nor a job.                                     *)
LEMMA PlainInv ==
    ASSUME IInv, RowsKept, UNCHANGED <<job, req, ids, saw>>, clock' \in Nat,
           run' \in [Runs -> RunShapes],
           \A w \in Runs : run'[w].id = run[w].id /\ (run'[w].pc = "idle" <=> run[w].pc = "idle")
    PROVE  IInv'
<1> USE DEF IInv, RowsKept
<1>1. Shaped'
    BY DEF Shaped
<1>2. Requested' /\ Beaten'
    BY DEF Requested, Beaten
<1>3. Claimed' /\ Unborn' /\ Outlived'
    BY DEF Claimed, Busy, Unborn, Outlived
<1> QED
    BY <1>1, <1>2, <1>3

-----------------------------------------------------------------------------
(* Requests *)

(* A request of which the others do not hear.                                 *)
LEMMA RequestShaped ==
    ASSUME IInv, NEW r \in Requests, NEW q \in RequestShapes, req' = [req EXCEPT ![r] = q]
    PROVE  /\ req' \in [Requests -> RequestShapes]
           /\ req'[r] = q /\ \A s \in Requests \ {r} : req'[s] = req[s]
BY DEF IInv, Shaped

LEMMA RequestInv ==
    ASSUME IInv, NEW r \in Requests, CheckActive(r) \/ RequestStep(r) \/ RequestDies(r)
    PROVE  IInv'
<1> USE DEF IInv
<1>0. req[r] \in RequestShapes /\ (req[r].pc \in Holding => req[r].id \in CrawlIds)
    BY IdsNat DEF Shaped, Requested, CrawlIds
<1>1. CASE CheckActive(r)
    <2> DEFINE q == [req[r] EXCEPT !.pc = "stamp"]
    <2>1. q \in RequestShapes /\ q.pc = "stamp" /\ q.id = 0
        BY <1>0, <1>1 DEF CheckActive, RequestShapes, Requested, Holding
    <2>2. /\ req' = [req EXCEPT ![r] = q] /\ req[r].pc = "idle"
          /\ UNCHANGED <<crawl, job, run, clock, ids, saw>>
        BY <1>1 DEF CheckActive, history
    <2> HIDE DEF q
    <2>3. req' \in [Requests -> RequestShapes]
          /\ req'[r] = q /\ \A s \in Requests \ {r} : req'[s] = req[s]
        BY <2>1, <2>2, RequestShaped
    <2>4. Shaped'
        BY <2>2, <2>3 DEF Shaped
    <2>5. Requested'
        BY <2>1, <2>2, <2>3 DEF Requested, Holding
    <2>6. Claimed' /\ Unborn'
        BY <2>2 DEF Claimed, Busy, Unborn
    <2>7. Beaten' /\ Outlived'
        BY <2>1, <2>2, <2>3, IdsNat DEF Beaten, Outlived
    <2> QED
        BY <2>4, <2>5, <2>6, <2>7
<1>2. CASE Stamp(r)
    <2> DEFINE q == [pc |-> "insert", id |-> ids + 1]
    <2>1. q \in RequestShapes /\ q.pc = "insert" /\ q.id = ids + 1 /\ ids + 1 \in CrawlIds
        BY <1>2, IdsNat DEF Stamp, RequestShapes, Shaped, CrawlIds
    <2>2. /\ req' = [req EXCEPT ![r] = q] /\ req[r].pc = "stamp" /\ ids' = ids + 1
          /\ UNCHANGED <<crawl, job, run, clock, saw>>
        BY <1>2 DEF Stamp, history
    <2> HIDE DEF q
    <2>3. req' \in [Requests -> RequestShapes]
          /\ req'[r] = q /\ \A s \in Requests \ {r} : req'[s] = req[s]
        BY <2>1, <2>2, RequestShaped
    <2>4. Shaped' /\ ids \in Nat /\ ids' \in Nat
        BY <2>1, <2>2, <2>3, IdsNat DEF Shaped, CrawlIds
    <2>5. job[ids + 1].pc = "none" /\ saw[ids + 1] = {}
        BY <2>1, <2>4 DEF Unborn
    <2>6. Requested'
        <3>1. \A s \in Requests : req[s].id # ids + 1
            BY <2>4 DEF Requested, Holding
        <3> QED
            BY <2>1, <2>2, <2>3, <2>4, <2>5, <3>1 DEF Requested, Holding
    <2>7. Claimed' /\ Unborn'
        BY <2>2, <2>4, IdsNat DEF Claimed, Busy, Unborn
    <2>8. Beaten'
        BY <2>1, <2>2, <2>3, <2>4, <2>5, IdsNat DEF Beaten
    <2>9. Outlived'
        BY <2>1, <2>2, <2>3 DEF Outlived
    <2> QED
        BY <2>4, <2>6, <2>7, <2>8, <2>9
<1>3. CASE Insert(r)
    <2> DEFINE q == [req[r] EXCEPT !.pc = "rival"]
    <2>1. q \in RequestShapes /\ q.pc = "rival" /\ q.id = req[r].id
        BY <1>0 DEF RequestShapes
    <2>2. /\ req' = [req EXCEPT ![r] = q] /\ req[r].pc = "insert"
          /\ UNCHANGED <<job, run, clock, ids, saw>>
          /\ crawl' = [crawl EXCEPT ![req[r].id] = "QUEUED"]
        BY <1>3 DEF Insert, history
    <2> HIDE DEF q
    <2>3. req' \in [Requests -> RequestShapes]
          /\ req'[r] = q /\ \A s \in Requests \ {r} : req'[s] = req[s]
        BY <2>1, <2>2, RequestShaped
    <2>4. req[r].id \in 1..ids /\ req[r].id \in CrawlIds /\ ids \in Nat
        BY <1>0, <2>2 DEF Requested, Holding, Shaped
    <2>5. Shaped'
        BY <2>2, <2>3 DEF Shaped, Statuses, Active
    <2>6. Requested'
        BY <2>1, <2>2, <2>3 DEF Requested, Holding
    <2>7. Claimed' /\ Unborn'
        BY <2>2, <2>4, IdsNat DEF Claimed, Busy, Unborn, Shaped
    <2>8. Beaten'
        BY <2>1, <2>2, <2>3 DEF Beaten
    <2>9. Outlived'
        BY <2>1, <2>2, <2>3 DEF Outlived, Shaped
    <2> QED
        BY <2>5, <2>6, <2>7, <2>8, <2>9
<1>4. CASE LookForRival(r)
    <2> DEFINE i == req[r].id
               q == [req[r] EXCEPT !.pc = IF Outranked(i) THEN "withdraw" ELSE "enqueue"]
    <2>1. /\ q \in RequestShapes /\ q.id = req[r].id
          /\ q.pc = IF Outranked(i) THEN "withdraw" ELSE "enqueue"
        BY <1>0 DEF RequestShapes
    <2>2. /\ req' = [req EXCEPT ![r] = q] /\ req[r].pc = "rival"
          /\ UNCHANGED <<crawl, job, run, clock, ids>>
          /\ saw' = [saw EXCEPT ![i] = Rivals(i)]
        BY <1>4 DEF LookForRival
    <2> HIDE DEF q
    <2>3. req' \in [Requests -> RequestShapes]
          /\ req'[r] = q /\ \A s \in Requests \ {r} : req'[s] = req[s]
        BY <2>1, <2>2, RequestShaped
    <2>4. i \in 1..ids /\ i \in CrawlIds /\ ids \in Nat /\ job[i].pc = "none"
        BY <1>0, <2>2 DEF Requested, Holding, Shaped
    <2>5. Rivals(i) \subseteq CrawlIds /\ (\A j \in Rivals(i) : crawl[j] # "none")
        BY DEF Rivals, ActiveRows, Active
    <2>6. Shaped'
        BY <2>2, <2>3, <2>5 DEF Shaped
    <2>7. Requested'
        BY <2>1, <2>2, <2>3 DEF Requested, Holding
    <2>8. Claimed' /\ Unborn'
        BY <2>2, <2>4, IdsNat DEF Claimed, Busy, Unborn, Shaped
    <2>9. Outranked(i) <=> \E j \in Rivals(i) : j < i
        BY DEF Outranked
    <2>10. Beaten'
        <3> SUFFICES ASSUME NEW l \in CrawlIds, NEW j \in saw'[l], j < l
                     PROVE  /\ job'[l].pc = "none" /\ l <= ids'
                            /\ \A s \in Requests : req'[s].id = l => req'[s].pc = "withdraw"
            BY DEF Beaten
        <3>1. CASE l = i
            <4>1. q.pc = "withdraw"
                BY <2>1, <2>2, <2>4, <2>9, <3>1 DEF Shaped
            <4>2. \A s \in Requests \ {r} : req[s].id # i
                BY <2>4, IdsNat DEF Requested
            <4> QED
                BY <2>2, <2>3, <2>4, <3>1, <4>1, <4>2
        <3>2. CASE l # i
            <4>1. j \in saw[l]
                BY <2>2, <3>2 DEF Shaped
            <4> QED
                BY <2>1, <2>2, <2>3, <3>2, <4>1 DEF Beaten
        <3> QED
            BY <3>1, <3>2
    <2>11. Outlived'
        BY <2>1, <2>2, <2>3, <2>5, <2>9 DEF Outlived
    <2> QED
        BY <2>6, <2>7, <2>8, <2>10, <2>11
<1>5. CASE Withdraw(r)
    <2>1. /\ req' = [req EXCEPT ![r] = IdleRequest] /\ req[r].pc = "withdraw"
          /\ UNCHANGED <<job, run, clock, ids, saw>>
          /\ crawl' = [crawl EXCEPT ![req[r].id] = "none"]
        BY <1>5 DEF Withdraw, history
    <2>2. req' \in [Requests -> RequestShapes]
          /\ req'[r] = IdleRequest /\ \A s \in Requests \ {r} : req'[s] = req[s]
        BY <2>1, IdleShaped, RequestShaped
    <2>3. Shaped'
        BY <2>1, <2>2 DEF Shaped, Statuses
    <2>4. Requested'
        BY <2>1, <2>2, IdleShaped DEF Requested, Holding
    <2>5. Claimed' /\ Unborn'
        BY <2>1 DEF Claimed, Busy, Unborn, Shaped
    <2>6. Beaten'
        BY <2>1, <2>2, IdleShaped, IdsNat DEF Beaten
    <2>7. Outlived'
        <3> SUFFICES ASSUME NEW s \in Requests, req'[s].pc = "withdraw"
                     PROVE  \E j \in CrawlIds : j < req'[s].id /\ crawl'[j] # "none"
            BY DEF Outlived
        <3>1. s # r /\ req'[s] = req[s]
            BY <2>2, IdleShaped
        <3>2. PICK j \in CrawlIds : j < req[s].id /\ crawl[j] # "none"
            BY <3>1 DEF Outlived
        <3>3. PICK k \in CrawlIds : k < req[r].id /\ crawl[k] # "none"
            BY <2>1 DEF Outlived
        <3>4. req[r].id \in Nat /\ req[s].id \in Nat /\ j \in Nat /\ k \in Nat
            <4>1. req[r] \in RequestShapes /\ req[s] \in RequestShapes
                BY DEF Shaped
            <4>2. req[r].id \in CrawlIds \cup {0} /\ req[s].id \in CrawlIds \cup {0}
                BY <4>1 DEF RequestShapes
            <4>3. \A n \in CrawlIds \cup {0} : n \in Nat
                BY IdsNat
            <4>4. req[r].id \in Nat /\ req[s].id \in Nat
                BY <4>2, <4>3
            <4>5. j \in Nat /\ k \in Nat
                BY <3>2, <3>3, <4>3
            <4> QED
                BY <4>4, <4>5
        <3>5. CASE j = req[r].id
            <4>1. k < req[s].id /\ crawl'[k] # "none"
                BY <2>1, <3>2, <3>3, <3>4, <3>5 DEF Shaped
            <4> QED
                BY <3>1, <4>1
        <3>6. CASE j # req[r].id
            BY <2>1, <3>1, <3>2, <3>6 DEF Shaped
        <3> QED
            BY <3>5, <3>6
    <2> QED
        BY <2>3, <2>4, <2>5, <2>6, <2>7
<1>6. CASE EnqueueCrawl(r)
    <2> DEFINE i == req[r].id
    <2>0. PICK pc \in {"queued", "unpushed"} :
              job' = [job EXCEPT ![i] = [pc |-> pc, named |-> TRUE, attempt |-> 0]]
        BY <1>6 DEF EnqueueCrawl
    <2> DEFINE q == [pc |-> pc, named |-> TRUE, attempt |-> 0]
    <2>1. /\ req' = [req EXCEPT ![r] = IdleRequest] /\ req[r].pc = "enqueue"
          /\ UNCHANGED <<crawl, run, clock, ids, saw>>
          /\ job' = [job EXCEPT ![i] = q]
        BY <1>6, <2>0 DEF EnqueueCrawl
    <2>2. req' \in [Requests -> RequestShapes]
          /\ req'[r] = IdleRequest /\ \A s \in Requests \ {r} : req'[s] = req[s]
        BY <2>1, IdleShaped, RequestShaped
    <2>3. i \in 1..ids /\ i \in CrawlIds /\ ids \in Nat /\ job[i].pc = "none"
        BY <1>0, <2>1 DEF Requested, Holding, Shaped
    <2>4. q \in JobShapes /\ \A j \in CrawlIds \ {i} : job'[j] = job[j]
        BY <2>1 DEF JobShapes, Shaped
    <2>5. Shaped'
        BY <2>1, <2>2, <2>4 DEF Shaped
    <2>6. Requested'
        <3>1. \A s \in Requests \ {r} : req[s].id # i
            BY <2>3, IdsNat DEF Requested
        <3>2. \A s \in Requests : req[s].id \in CrawlIds \cup {0}
            BY DEF Shaped, RequestShapes
        <3> QED
            BY <2>1, <2>2, <2>4, <3>1, <3>2, IdleShaped DEF Requested, Holding
    <2>7. Claimed'
        <3>1. \A w \in Busy : run[w].id # i
            BY <2>3 DEF Claimed
        <3> QED
            BY <2>1, <2>4, <3>1 DEF Claimed, Busy
    <2>8. Unborn'
        BY <2>1, <2>3, <2>4, IdsNat DEF Unborn
    <2>9. Beaten'
        <3>1. ~(\E j \in saw[i] : j < i)
            BY <2>1, <2>3 DEF Beaten
        <3> QED
            BY <2>1, <2>2, <2>4, <3>1, IdleShaped, IdsNat DEF Beaten
    <2>10. Outlived'
        BY <2>1, <2>2, IdleShaped DEF Outlived
    <2> QED
        BY <2>5, <2>6, <2>7, <2>8, <2>9, <2>10
<1>7. CASE RequestDies(r)
    <2>1. /\ req' = [req EXCEPT ![r] = IdleRequest]
          /\ UNCHANGED <<crawl, job, run, clock, ids, saw>>
        BY <1>7 DEF RequestDies
    <2>2. req' \in [Requests -> RequestShapes]
          /\ req'[r] = IdleRequest /\ \A s \in Requests \ {r} : req'[s] = req[s]
        BY <2>1, IdleShaped, RequestShaped
    <2>3. Shaped'
        BY <2>1, <2>2 DEF Shaped
    <2>4. Requested'
        BY <2>1, <2>2, IdleShaped DEF Requested, Holding
    <2>5. Claimed' /\ Unborn'
        BY <2>1 DEF Claimed, Busy, Unborn
    <2>6. Beaten' /\ Outlived'
        BY <2>1, <2>2, IdleShaped, IdsNat DEF Beaten, Outlived
    <2> QED
        BY <2>3, <2>4, <2>5, <2>6
<1> QED
    BY <1>1, <1>2, <1>3, <1>4, <1>5, <1>6, <1>7 DEF RequestStep

-----------------------------------------------------------------------------
(* Jobs and runs *)

(* A step of no request: it leaves every row and gives no row of a request a  *)
(* job, for it enqueues only jobs that it numbers itself.                     *)
LEMMA JobInv ==
    ASSUME IInv, Shaped', Claimed', UNCHANGED <<req, saw>>, ids' >= ids,
           \A i \in CrawlIds : crawl[i] # "none" => crawl'[i] # "none",
           \A i \in CrawlIds : i > ids' => job'[i].pc = "none" /\ crawl'[i] = "none",
           \A i \in CrawlIds : job[i].pc = "none" /\ i <= ids => job'[i].pc = "none"
    PROVE  IInv'
<1> USE DEF IInv
<1>1. ids \in Nat /\ ids' \in Nat
    BY IdsNat DEF Shaped
<1>2. Requested'
    <2>1. \A r \in Requests : req[r].pc \in Holding =>
              req[r].id \in CrawlIds /\ req[r].id <= ids /\ req[r].id \in 1..ids'
        BY <1>1, IdsNat DEF Requested, Shaped, CrawlIds
    <2> QED
        BY <2>1 DEF Requested
<1>3. \A i \in CrawlIds : i \in Nat
    BY IdsNat
<1>4. Unborn'
    BY <1>1, <1>3 DEF Unborn
<1>5. Beaten'
    <2> SUFFICES ASSUME NEW i \in CrawlIds, \E j \in saw[i] : j < i
                 PROVE  /\ job'[i].pc = "none" /\ i <= ids'
                        /\ \A r \in Requests : req[r].id = i => req[r].pc = "withdraw"
        BY DEF Beaten
    <2>1. /\ job[i].pc = "none" /\ i <= ids
          /\ \A r \in Requests : req[r].id = i => req[r].pc = "withdraw"
        BY DEF Beaten
    <2> QED
        BY <1>1, <1>3, <2>1
<1>6. Outlived'
    BY DEF Outlived
<1> QED
    BY <1>2, <1>4, <1>5, <1>6

LEMMA ScheduleInv == IInv /\ Schedule => IInv'
<1> SUFFICES ASSUME IInv, Schedule PROVE IInv'
    OBVIOUS
<1> USE DEF IInv
<1> DEFINE q == [pc |-> "queued", named |-> FALSE, attempt |-> 0]
<1>1. /\ UNCHANGED <<crawl, req, run, clock, saw>> /\ ids' = ids + 1 /\ ids < MaxCrawls
      /\ job' = [job EXCEPT ![ids + 1] = q]
    BY DEF Schedule, history
<1>2. ids \in Nat /\ ids + 1 \in CrawlIds /\ ids' \in 0..MaxCrawls
    BY <1>1, IdsNat DEF Shaped, CrawlIds
<1>3. q \in JobShapes
    BY DEF JobShapes
<1>4. Shaped'
    BY <1>1, <1>2, <1>3 DEF Shaped
<1>5. Claimed'
    <2>1. job[ids + 1].pc = "none"
        BY <1>2 DEF Unborn
    <2> QED
        BY <1>1, <1>2, <2>1 DEF Claimed, Busy, Shaped
<1>6. \A i \in CrawlIds : i > ids' => job'[i].pc = "none" /\ crawl'[i] = "none"
    BY <1>1, <1>2, IdsNat DEF Unborn, Shaped
<1>7. \A i \in CrawlIds : job[i].pc = "none" /\ i <= ids => job'[i].pc = "none"
    BY <1>1, <1>2, IdsNat DEF Shaped
<1>8. ids' >= ids /\ \A i \in CrawlIds : crawl[i] # "none" => crawl'[i] # "none"
    BY <1>1, <1>2
<1> QED
    BY <1>1, <1>4, <1>5, <1>6, <1>7, <1>8, JobInv

LEMMA CancelInv == IInv /\ (CancelStep \/ \E i \in CrawlIds : CancelReads(i)) => IInv'
<1> SUFFICES ASSUME IInv, CancelStep \/ \E i \in CrawlIds : CancelReads(i) PROVE IInv'
    OBVIOUS
<1> USE DEF IInv
<1>1. CASE (\E i \in CrawlIds : CancelReads(i)) \/ SignalReads
    <2>1. UNCHANGED <<crawl, job, req, run, clock, ids, saw>>
        BY <1>1 DEF CancelReads, SignalReads, history
    <2>2. Shaped' /\ Requested' /\ Claimed'
        BY <2>1 DEF Shaped, Requested, Claimed, Busy
    <2>3. Unborn' /\ Beaten' /\ Outlived'
        BY <2>1 DEF Unborn, Beaten, Outlived
    <2> QED
        BY <2>2, <2>3
<1>2. CASE CancelMarks
    <2>1. /\ UNCHANGED <<job, req, run, clock, ids, saw>>
          /\ crawl' = [crawl EXCEPT ![cancel.id] = IF @ = "none" THEN @ ELSE "CANCELLED"]
        BY <1>2 DEF CancelMarks, history
    <2>2. RowsKept
        BY <2>1 DEF RowsKept, Shaped, Statuses, Unborn
    <2> QED
        BY <2>1, <2>2, PlainInv DEF Shaped
<1>3. CASE CancelsJob
    <2> DEFINE i == cancel.id
    <2>1. /\ UNCHANGED <<crawl, req, run, clock, ids, saw>>
          /\ job' = IF InFlight(i) THEN [job EXCEPT ![i].pc = "cancelled"] ELSE job
        BY <1>3 DEF CancelsJob, history
    <2> HIDE DEF i
    <2>2. \A j \in CrawlIds : job[j] \in JobShapes
        BY DEF Shaped
    <2>3. job' \in [CrawlIds -> JobShapes]
        BY <2>1, <2>2 DEF Shaped, JobShapes
    <2>4. \A j \in CrawlIds :
              \/ job'[j] = job[j]
              \/ job[j].pc \in {"unpushed", "queued", "running"} /\ job'[j].pc = "cancelled"
        BY <2>1, <2>2 DEF InFlight, Shaped, JobShapes
    <2>5. Shaped'
        BY <2>1, <2>3 DEF Shaped
    <2>6. Claimed'
        BY <2>1, <2>4 DEF Claimed, Busy
    <2>7. \A j \in CrawlIds : job[j].pc = "none" => job'[j].pc = "none"
        BY <2>4
    <2> QED
        BY <2>1, <2>5, <2>6, <2>7, JobInv, IdsNat DEF Shaped, Unborn
<1> QED
    BY <1>1, <1>2, <1>3 DEF CancelStep

(* A push that was given up on lands; or the site changes its status.         *)
LEMMA LandsInv ==
    IInv /\ (Archive \/ \E i \in CrawlIds : CrawlLands(i) \/ AuditLands(i)) => IInv'
<1> SUFFICES ASSUME IInv, Archive \/ \E i \in CrawlIds : CrawlLands(i) \/ AuditLands(i) PROVE IInv'
    OBVIOUS
<1> USE DEF IInv
<1>1. CASE Archive \/ \E i \in CrawlIds : AuditLands(i)
    <2>1. UNCHANGED <<crawl, job, req, run, clock, ids, saw>>
        BY <1>1 DEF Archive, AuditLands, history
    <2>2. Shaped' /\ Requested' /\ Claimed'
        BY <2>1 DEF Shaped, Requested, Claimed, Busy
    <2>3. Unborn' /\ Beaten' /\ Outlived'
        BY <2>1 DEF Unborn, Beaten, Outlived
    <2> QED
        BY <2>2, <2>3
<1>2. ASSUME NEW i \in CrawlIds, CrawlLands(i) PROVE IInv'
    <2> DEFINE q == [job[i] EXCEPT !.pc = "queued"]
    <2>1. /\ UNCHANGED <<crawl, req, run, clock, ids, saw>> /\ job[i].pc = "unpushed"
          /\ job' = [job EXCEPT ![i] = q]
        BY <1>2 DEF CrawlLands, history
    <2>2. job[i] \in JobShapes
        BY DEF Shaped
    <2>3. q \in JobShapes /\ q.pc = "queued"
        BY ONLY <2>2 DEF JobShapes
    <2> HIDE DEF q
    <2>4. \A j \in CrawlIds : job'[j] = IF j = i THEN q ELSE job[j]
        BY <2>1 DEF Shaped
    <2>5. Shaped'
        BY <2>1, <2>3 DEF Shaped
    <2>6. Claimed'
        BY <2>1, <2>4 DEF Claimed, Busy
    <2>7. \A j \in CrawlIds : job[j].pc = "none" => job'[j].pc = "none"
        BY <2>1, <2>4
    <2> QED
        BY <2>1, <2>5, <2>6, <2>7, JobInv, IdsNat DEF Shaped, Unborn
<1> QED
    BY <1>1, <1>2

(* A step of a run that keeps its crawl.                                      *)
LEMMA RunKeeps ==
    ASSUME IInv, RowsKept, UNCHANGED <<job, req, ids, saw>>, clock' \in Nat,
           NEW w \in Runs, run[w].pc # "idle",
           NEW q \in RunShapes, q.id = run[w].id, q.pc # "idle", run' = [run EXCEPT ![w] = q]
    PROVE  IInv'
<1>1. /\ run' \in [Runs -> RunShapes]
      /\ run'[w] = q /\ \A v \in Runs \ {w} : run'[v] = run[v]
    BY DEF IInv, Shaped
<1>2. \A v \in Runs : run'[v].id = run[v].id /\ (run'[v].pc = "idle" <=> run[v].pc = "idle")
    BY <1>1
<1> QED
    BY <1>1, <1>2, PlainInv

(* The crawl of a run has been numbered.                                      *)
LEMMA RunNumbered ==
    ASSUME IInv, NEW w \in Runs, run[w].pc # "idle"
    PROVE  /\ run[w] \in RunShapes /\ run[w].id \in CrawlIds /\ run[w].id <= ids
           /\ job[run[w].id].pc \in {"running", "cancelled"} /\ clock \in Nat /\ ids \in Nat
<1> USE DEF IInv
<1>1. run[w] \in RunShapes /\ clock \in Nat /\ ids \in Nat
    BY IdsNat DEF Shaped
<1>2. run[w].id \in CrawlIds /\ job[run[w].id].pc \in {"running", "cancelled"}
    BY DEF Claimed, Busy
<1>3. run[w].id \in Nat
    BY <1>2, IdsNat
<1>4. ~(run[w].id > ids)
    BY <1>2 DEF Unborn
<1> QED
    BY <1>1, <1>2, <1>3, <1>4

(* A run writes the status of its row.                                        *)
LEMMA RowWritten ==
    ASSUME IInv, NEW w \in Runs, run[w].pc # "idle", NEW c \in Statuses \ {"none"},
           crawl' = [crawl EXCEPT ![run[w].id] = c]
    PROVE  RowsKept
BY RunNumbered, IdsNat DEF RowsKept, IInv, Shaped, Unborn

LEMMA RowUntouched == ASSUME IInv, UNCHANGED crawl PROVE RowsKept
BY DEF RowsKept, IInv, Shaped, Unborn

(* What a batch leaves of the run: the pages that it could not store, in the  *)
(* batch or before.                                                           *)
LEMMA FetchedRun ==
    ASSUME NEW w \in Runs, NEW batch \in SUBSET Urls, Fetch(w, batch),
           run[w] \in RunShapes, run \in [Runs -> RunShapes]
    PROVE  \E failed \in SUBSET Urls :
               /\ run' = [run EXCEPT ![w] =
                     [run[w] EXCEPT !.fetched = @ \cup batch, !.unstored = failed]]
               /\ \/ failed = run[w].unstored /\ stored' = [stored EXCEPT ![run[w].id] =
                         [u \in Urls |-> IF u \in batch /\ @[u] = 0 THEN clock ELSE @[u]]]
                  \/ failed = run[w].unstored \cup batch /\ UNCHANGED stored
<1>1. /\ run[w].unstored \in SUBSET Urls
      /\ [run[w] EXCEPT !.fetched = @ \cup batch]
             = [run[w] EXCEPT !.fetched = @ \cup batch, !.unstored = run[w].unstored]
    BY DEF RunShapes
<1>2. CASE /\ stored' = [stored EXCEPT ![run[w].id] =
                   [u \in Urls |-> IF u \in batch /\ @[u] = 0 THEN clock ELSE @[u]]]
           /\ run' = [run EXCEPT ![w].fetched = @ \cup batch]
    <2>1. run' = [run EXCEPT ![w] = [run[w] EXCEPT !.fetched = @ \cup batch]]
        BY <1>2
    <2>2. run' = [run EXCEPT ![w] =
              [run[w] EXCEPT !.fetched = @ \cup batch, !.unstored = run[w].unstored]]
        BY ONLY <1>1, <2>1
    <2> QED
        BY <1>1, <1>2, <2>2
<1>3. CASE /\ run' = [run EXCEPT ![w].fetched = @ \cup batch, ![w].unstored = @ \cup batch]
           /\ UNCHANGED stored
    <2> DEFINE failed == run[w].unstored \cup batch
    <2>1. failed \in SUBSET Urls
        BY <1>1
    <2>2. run' = [run EXCEPT ![w] =
              [run[w] EXCEPT !.fetched = @ \cup batch, !.unstored = failed]]
        BY <1>3
    <2> QED
        BY ONLY <1>3, <2>1, <2>2
<1> QED
    BY <1>2, <1>3 DEF Fetch

(* The steps of a run between the claim of its job and the end.               *)
LEMMA RunningInv ==
    ASSUME IInv, NEW w \in Runs,
           \/ Begin(w) \/ EngineEnds(w) \/ UpsertEnds(w) \/ Deactivate(w) \/ Finish(w) \/ Audit(w)
           \/ Poll(w) \/ (\E u \in Urls : UpsertPage(w, u))
           \/ \E batch \in SUBSET Urls : Fetch(w, batch)
    PROVE  IInv'
<1>1. CASE Begin(w)
    <2> DEFINE q == [run[w] EXCEPT !.pc = "crawl", !.started = clock + 1]
    <2>1. run[w].pc # "idle" /\ UNCHANGED <<job, req, ids, saw>> /\ clock' = clock + 1
          /\ run' = [run EXCEPT ![w] = q] /\ crawl' = [crawl EXCEPT ![run[w].id] = "RUNNING"]
        BY <1>1 DEF Begin, history
    <2>2. run[w] \in RunShapes /\ clock \in Nat
        BY ONLY IInv, w \in Runs, <2>1, RunNumbered
    <2>3. clock + 1 \in Nat /\ clock' \in Nat
        BY ONLY <2>1, <2>2
    <2>4. q \in RunShapes /\ q.id = run[w].id /\ q.pc # "idle"
        BY ONLY <2>2, <2>3 DEF RunShapes
    <2>5. "RUNNING" \in Statuses \ {"none"}
        BY DEF Statuses, Active
    <2>6. RowsKept
        BY ONLY IInv, w \in Runs, <2>1, <2>5, RowWritten
    <2> HIDE DEF q
    <2> QED
        BY <2>1, <2>3, <2>4, <2>6, RunKeeps
<1>2. CASE Finish(w)
    <2> DEFINE q == [run[w] EXCEPT !.pc = IF Outcome(w) = "CANCELLED" THEN "end" ELSE "audit"]
    <2>1. run[w].pc # "idle" /\ UNCHANGED <<job, req, ids, saw, clock>>
          /\ run' = [run EXCEPT ![w] = q] /\ crawl' = [crawl EXCEPT ![run[w].id] = Outcome(w)]
        BY <1>2 DEF Finish, history
    <2>2. run[w] \in RunShapes /\ clock \in Nat
        BY ONLY IInv, w \in Runs, <2>1, RunNumbered
    <2>3. clock + 1 \in Nat /\ clock' \in Nat
        BY ONLY <2>1, <2>2
    <2>4. q \in RunShapes /\ q.id = run[w].id /\ q.pc # "idle"
        BY ONLY <2>2, <2>3 DEF RunShapes
    <2>5. Outcome(w) \in Statuses \ {"none"}
        BY DEF Statuses, Active, Outcome
    <2>6. RowsKept
        BY ONLY IInv, w \in Runs, <2>1, <2>5, RowWritten
    <2> HIDE DEF q
    <2> QED
        BY <2>1, <2>3, <2>4, <2>6, RunKeeps
<1>3. ASSUME UNCHANGED <<crawl, job, req, ids, saw, clock>>, run[w].pc # "idle",
             NEW q \in RunShapes, q.id = run[w].id, q.pc # "idle", run' = [run EXCEPT ![w] = q]
      PROVE  IInv'
    <2>1. RowsKept /\ clock' \in Nat
        BY <1>3, RowUntouched, RunNumbered
    <2> QED
        BY <1>3, <2>1, RunKeeps
<1>4. CASE EngineEnds(w)
    <2>1. PICK limit \in BOOLEAN :
             run' = [run EXCEPT ![w].pc = "upsert", ![w].limit = limit,
                       ![w].cancelled = run[w].fetched # online /\ run[w].aborted,
                       ![w].todo = {u \in Urls : stored[run[w].id][u] # 0}]
        BY <1>4 DEF EngineEnds
    <2> DEFINE q == [run[w] EXCEPT !.pc = "upsert", !.limit = limit,
                       !.cancelled = run[w].fetched # online /\ run[w].aborted,
                       !.todo = {u \in Urls : stored[run[w].id][u] # 0}]
    <2>2. run[w].pc # "idle" /\ UNCHANGED <<crawl, job, req, ids, saw, clock>>
        BY <1>4 DEF EngineEnds, history
    <2>3. run' = [run EXCEPT ![w] = q]
        BY <2>1, RunNumbered DEF IInv, Shaped
    <2>4. run[w] \in RunShapes
        BY ONLY IInv, w \in Runs, <2>2, RunNumbered
    <2>5. {u \in Urls : stored[run[w].id][u] # 0} \in SUBSET Urls
        OBVIOUS
    <2>6. q \in RunShapes /\ q.id = run[w].id /\ q.pc # "idle"
        BY ONLY <2>4, <2>5, limit \in BOOLEAN DEF RunShapes
    <2> HIDE DEF q
    <2> QED
        BY <1>3, <2>2, <2>3, <2>6
<1>5. CASE UpsertEnds(w) \/ Deactivate(w) \/ Audit(w) \/ Poll(w)
    <2>1. run[w].pc # "idle" /\ UNCHANGED <<crawl, job, req, ids, saw, clock>>
        BY <1>5 DEF UpsertEnds, Deactivate, Audit, Poll, history
    <2>2. /\ run[w] \in RunShapes
          /\ \A pc \in {"deactivate", "finish", "end"} : [run[w] EXCEPT !.pc = pc] \in RunShapes
          /\ [run[w] EXCEPT !.aborted = TRUE] \in RunShapes
        <3>1. run[w] \in RunShapes
            BY ONLY IInv, w \in Runs, <2>1, RunNumbered
        <3> QED
            BY ONLY <3>1 DEF RunShapes
    <2>3. CASE Poll(w)
        <3> DEFINE q == [run[w] EXCEPT !.aborted = TRUE]
        <3>1. q \in RunShapes /\ q.id = run[w].id /\ q.pc = run[w].pc
            BY <2>2 DEF RunShapes
        <3>2. run' = [run EXCEPT ![w] = q]
            BY <2>3 DEF Poll
        <3> HIDE DEF q
        <3> QED
            BY <1>3, <2>1, <3>1, <3>2
    <2>4. CASE UpsertEnds(w) \/ Deactivate(w) \/ Audit(w)
        <3>1. PICK pc \in {"deactivate", "finish", "end"} :
                 run' = [run EXCEPT ![w] = [run[w] EXCEPT !.pc = pc]]
            <4>1. CASE UpsertEnds(w)
                BY <4>1 DEF UpsertEnds
            <4>2. CASE Deactivate(w)
                BY <4>2 DEF Deactivate
            <4>3. CASE Audit(w)
                BY <4>3 DEF Audit
            <4> QED
                BY <2>4, <4>1, <4>2, <4>3
        <3> DEFINE q == [run[w] EXCEPT !.pc = pc]
        <3>2. q \in RunShapes /\ q.id = run[w].id /\ q.pc # "idle" /\ run' = [run EXCEPT ![w] = q]
            BY <2>2, <3>1 DEF RunShapes
        <3> HIDE DEF q
        <3> QED
            BY <1>3, <2>1, <3>2
    <2> QED
        BY <1>5, <2>3, <2>4
<1>6. CASE \E u \in Urls : UpsertPage(w, u)
    <2>1. PICK u \in Urls : UpsertPage(w, u)
        BY <1>6
    <2>2. run[w].pc # "idle" /\ UNCHANGED <<crawl, job, req, ids, saw, clock>>
        BY <2>1 DEF UpsertPage, history
    <2> DEFINE q == [run[w] EXCEPT !.todo = @ \ {u}]
    <2>3. q \in RunShapes /\ q.id = run[w].id /\ q.pc = run[w].pc
        BY <2>2, RunNumbered DEF RunShapes
    <2>4. run' = [run EXCEPT ![w] = q]
        BY <2>1 DEF UpsertPage
    <2> HIDE DEF q
    <2> QED
        BY <1>3, <2>2, <2>3, <2>4
<1>7. CASE \E batch \in SUBSET Urls : Fetch(w, batch)
    <2>1. PICK batch \in SUBSET Urls : Fetch(w, batch)
        BY <1>7
    <2>2. run[w].pc # "idle" /\ UNCHANGED <<crawl, job, req, ids, saw, clock>>
        BY <2>1 DEF Fetch, history
    <2>3. run[w] \in RunShapes /\ run \in [Runs -> RunShapes]
        BY <2>2, RunNumbered DEF IInv, Shaped
    <2>4. PICK failed \in SUBSET Urls : run' = [run EXCEPT ![w] =
              [run[w] EXCEPT !.fetched = @ \cup batch, !.unstored = failed]]
        BY <2>1, <2>3, FetchedRun
    <2> DEFINE q == [run[w] EXCEPT !.fetched = @ \cup batch, !.unstored = failed]
    <2>5. q \in RunShapes /\ q.id = run[w].id /\ q.pc = run[w].pc
        BY ONLY <2>3, batch \in SUBSET Urls, failed \in SUBSET Urls DEF RunShapes
    <2>6. run' = [run EXCEPT ![w] = q]
        BY <2>4
    <2> HIDE DEF q
    <2> QED
        BY <1>3, <2>2, <2>5, <2>6
<1> QED
    BY <1>1, <1>2, <1>4, <1>5, <1>6, <1>7

LEMMA ClaimInv == ASSUME IInv, NEW w \in Runs, NEW i \in CrawlIds, Claim(w, i) PROVE IInv'
<1> USE DEF IInv
<1> DEFINE q == [IdleRun EXCEPT !.pc = "begin", !.id = i]
           n == job[i].attempt + 1
           p == [job[i] EXCEPT !.pc = "running", !.attempt = n]
<1>1. /\ UNCHANGED <<crawl, req, clock, ids, saw>>
      /\ run' = [run EXCEPT ![w] = q] /\ job[i].pc = "queued" /\ run[w].pc = "idle"
    BY DEF Claim
<1>2. q \in RunShapes /\ q.id = i
    BY DEF IdleRun, RunShapes
<1>3. p \in JobShapes /\ p.pc = "running"
    <2>1. job[i] \in JobShapes
        BY DEF Shaped
    <2>2. n \in Nat
        BY ONLY <2>1 DEF JobShapes
    <2> HIDE DEF n
    <2> QED
        BY ONLY <2>1, <2>2 DEF JobShapes
<1>4. job' = [job EXCEPT ![i] = p]
    BY DEF Claim
<1> HIDE DEF q, p
<1>5. Shaped'
    BY <1>1, <1>2, <1>3, <1>4 DEF Shaped
<1>6. \A j \in CrawlIds : job'[j] = IF j = i THEN p ELSE job[j]
    BY <1>4 DEF Shaped
<1>7. \A v \in Runs : run'[v] = IF v = w THEN q ELSE run[v]
    BY <1>1 DEF Shaped
<1>8. \A v \in Busy : run[v].id # i
    BY <1>1 DEF Claimed
<1>9. Busy' \subseteq Busy \cup {w} /\ w \notin Busy /\ Busy \subseteq Runs
    BY <1>1, <1>7 DEF Busy
<1>10. Claimed'
    <2>1. \A v \in Busy' : v \in Runs /\ (v = w => run'[v].id = i)
                         /\ (v # w => v \in Busy /\ run'[v].id = run[v].id /\ run[v].id # i)
        BY <1>2, <1>7, <1>8, <1>9
    <2>2. \A v \in Busy' : run'[v].id \in CrawlIds /\ job'[run'[v].id].pc \in {"running", "cancelled"}
        BY <1>3, <1>6, <2>1 DEF Claimed
    <2>3. \A u, v \in Busy' : run'[u].id = run'[v].id => u = v
        BY <2>1 DEF Claimed
    <2> QED
        BY <2>2, <2>3 DEF Claimed
<1>11. \A j \in CrawlIds : job[j].pc = "none" => job'[j].pc = "none"
    BY <1>1, <1>6
<1>12. ids' >= ids /\ \A j \in CrawlIds : j > ids' => job'[j].pc = "none" /\ crawl'[j] = "none"
    BY <1>1, <1>11, IdsNat DEF Unborn, Shaped
<1> QED
    BY ONLY IInv, <1>1, <1>5, <1>10, <1>11, <1>12, JobInv

(* A run lets go of its job, which goes on as p.                              *)
LEMMA LetGo ==
    ASSUME IInv, NEW w \in Runs, run[w].pc # "idle", run' = [run EXCEPT ![w] = IdleRun],
           NEW p \in JobShapes, p.pc # "none", job' = [job EXCEPT ![run[w].id] = p],
           RowsKept, UNCHANGED <<req, clock, ids, saw>>
    PROVE  IInv'
<1> USE DEF IInv
<1> DEFINE i == run[w].id
<1>1. i \in CrawlIds /\ i <= ids /\ job[i].pc # "none" /\ ids \in Nat
    BY RunNumbered
<1>2. Shaped'
    BY <1>1, IdleShaped DEF Shaped, RowsKept
<1>3. \A v \in Runs : run'[v] = IF v = w THEN IdleRun ELSE run[v]
    BY DEF Shaped
<1>4. \A j \in CrawlIds : job'[j] = IF j = i THEN p ELSE job[j]
    BY <1>1 DEF Shaped
<1>5. Busy' = Busy \ {w} /\ w \in Busy /\ Busy \subseteq Runs
    BY <1>3, IdleShaped DEF Busy
<1>6. Claimed'
    <2>1. \A v \in Busy : run[v].id = i => v = w
        BY <1>5 DEF Claimed
    <2> QED
        BY <1>3, <1>4, <1>5, <2>1 DEF Claimed
<1>7. \A j \in CrawlIds : job[j].pc = "none" => job'[j].pc = "none"
    BY <1>1, <1>4
<1>8. ids' >= ids /\ \A j \in CrawlIds : j > ids' => job'[j].pc = "none" /\ crawl'[j] = "none"
    <2>1. ids' = ids /\ ids' >= ids
        BY <1>1
    <2> QED
        BY <1>7, <2>1 DEF Unborn, RowsKept
<1>9. \A j \in CrawlIds : crawl[j] # "none" => crawl'[j] # "none"
    BY DEF RowsKept
<1> QED
    BY ONLY IInv, UNCHANGED <<req, saw>>, <1>2, <1>6, <1>7, <1>8, <1>9, JobInv

LEMMA EndInv == ASSUME IInv, NEW w \in Runs, End(w) \/ Skip(w) PROVE IInv'
<1>0. PICK new \in {"completed", "skipped"} :
          job' = [job EXCEPT ![run[w].id].pc = Settled(@, new)]
    BY DEF End, Skip
<1> DEFINE p == [job[run[w].id] EXCEPT !.pc = Settled(@, new)]
<1>1. /\ run[w].pc # "idle" /\ run' = [run EXCEPT ![w] = IdleRun]
      /\ UNCHANGED <<crawl, req, clock, ids, saw>> /\ job' = [job EXCEPT ![run[w].id] = p]
    BY <1>0 DEF End, Skip, history
<1>2. job[run[w].id] \in JobShapes
    BY <1>1, RunNumbered DEF IInv, Shaped
<1>3. p \in JobShapes /\ p.pc # "none"
    BY ONLY <1>2 DEF JobShapes, Settled
<1> HIDE DEF p
<1>4. RowsKept
    BY <1>1, RowUntouched
<1> QED
    BY ONLY IInv, w \in Runs, <1>1, <1>3, <1>4, LetGo

(* An attempt is over, with what happened to its row.                         *)
LEMMA AttemptOverInv ==
    ASSUME IInv, NEW w \in Runs, run[w].pc # "idle", AttemptOver(w), RowsKept
    PROVE  IInv'
<1> USE DEF IInv
<1> DEFINE i == run[w].id
<1>1. /\ i \in CrawlIds /\ i <= ids /\ job[i] \in JobShapes /\ job[i].pc # "none"
      /\ ids \in Nat /\ i \in Nat
    BY RunNumbered, IdsNat DEF Shaped
<1>2. UNCHANGED <<req, clock, saw>> /\ run' = [run EXCEPT ![w] = IdleRun]
    BY DEF AttemptOver
<1>3. CASE Again(i) /\ ~job[i].named
    <2> DEFINE p == [job[i] EXCEPT !.pc = "queued"]
    <2>1. ids < MaxCrawls /\ ids' = ids + 1
          /\ job' = [job EXCEPT ![i] = NoJob, ![ids + 1] = p]
        BY <1>3 DEF AttemptOver
    <2>2. p \in JobShapes
        BY ONLY <1>1 DEF JobShapes
    <2> HIDE DEF p
    <2>3. ids + 1 \in CrawlIds /\ ids + 1 # i
        BY <1>1, <2>1, IdsNat DEF CrawlIds
    <2>4. \A j \in CrawlIds : job'[j] = IF j = ids + 1 THEN p ELSE IF j = i THEN NoJob ELSE job[j]
        BY <1>1, <2>1, <2>3 DEF Shaped
    <2>5. Shaped'
        <3>1. job' \in [CrawlIds -> JobShapes]
            BY <1>1, <2>1, <2>2, <2>3, IdleShaped DEF Shaped
        <3>2. ids' \in 0..MaxCrawls
            BY <1>1, <2>1, IdsNat
        <3>3. run' \in [Runs -> RunShapes]
            BY <1>2, IdleShaped DEF Shaped
        <3> QED
            BY <1>2, <3>1, <3>2, <3>3 DEF Shaped, RowsKept
    <2>6. \A v \in Runs : run'[v] = IF v = w THEN IdleRun ELSE run[v]
        BY <1>2 DEF Shaped
    <2>7. Busy' = Busy \ {w} /\ w \in Busy
        BY <2>6, IdleShaped DEF Busy
    <2>8. job[ids + 1].pc = "none"
        BY <1>1, <2>3 DEF Unborn
    <2>9. \A v \in Busy : run[v].id # ids + 1
        BY <2>8 DEF Claimed
    <2>10. Claimed'
        BY <2>4, <2>6, <2>7, <2>9 DEF Claimed, Busy
    <2>11. \A j \in CrawlIds : job[j].pc = "none" /\ j <= ids => job'[j].pc = "none"
        BY <1>1, <2>4, IdsNat
    <2>12. \A j \in CrawlIds : j > ids' => job'[j].pc = "none" /\ crawl'[j] = "none"
        <3> SUFFICES ASSUME NEW j \in CrawlIds, j > ids'
                     PROVE  job'[j].pc = "none" /\ crawl'[j] = "none"
            OBVIOUS
        <3>1. j \in Nat
            BY IdsNat
        <3>2. j > ids /\ j # ids + 1
            BY <1>1, <2>1, <3>1
        <3> QED
            BY <2>4, <3>2, IdleShaped DEF Unborn, RowsKept
    <2>13. ids' >= ids /\ \A j \in CrawlIds : crawl[j] # "none" => crawl'[j] # "none"
        BY <1>1, <2>1 DEF RowsKept
    <2> QED
        BY ONLY IInv, <1>2, <2>5, <2>10, <2>11, <2>12, <2>13, JobInv
<1>4. CASE ~(Again(i) /\ ~job[i].named)
    <2> DEFINE p == [job[i] EXCEPT !.pc = Settled(@, IF Again(i) THEN "queued" ELSE "failed")]
    <2>1. job' = [job EXCEPT ![i] = p] /\ UNCHANGED ids
        BY <1>4 DEF AttemptOver
    <2>2. p \in JobShapes /\ p.pc # "none"
        BY ONLY <1>1 DEF JobShapes, Settled
    <2> HIDE DEF p
    <2> QED
        BY ONLY IInv, w \in Runs, run[w].pc # "idle", RowsKept, <1>2, <2>1, <2>2, LetGo
<1> QED
    BY <1>3, <1>4

LEMMA RunLostInv == ASSUME IInv, NEW w \in Runs, EngineFails(w) \/ RunDies(w) PROVE IInv'
<1>1. CASE EngineFails(w)
    <2>1. /\ run[w].pc # "idle" /\ AttemptOver(w)
          /\ crawl' = [crawl EXCEPT ![run[w].id] = "FAILED"]
        BY <1>1 DEF EngineFails, FailedRow
    <2>2. "FAILED" \in Statuses \ {"none"}
        BY DEF Statuses, Active
    <2>3. RowsKept
        BY ONLY IInv, w \in Runs, <2>1, <2>2, RowWritten
    <2> QED
        BY ONLY IInv, w \in Runs, <2>1, <2>3, AttemptOverInv
<1>2. CASE RunDies(w)
    <2>1. run[w].pc # "idle" /\ AttemptOver(w) /\ UNCHANGED crawl
        BY <1>2 DEF RunDies
    <2>2. RowsKept
        BY <2>1, RowUntouched
    <2> QED
        BY ONLY IInv, w \in Runs, <2>1, <2>2, AttemptOverInv
<1> QED
    BY <1>1, <1>2

-----------------------------------------------------------------------------
(* The theorems *)

LEMMA NextInv == IInv /\ [Next]_vars => IInv'
<1> SUFFICES ASSUME IInv, [Next]_vars PROVE IInv'
    OBVIOUS
<1>1. CASE \E r \in Requests : CheckActive(r) \/ RequestStep(r) \/ RequestDies(r)
    BY <1>1, RequestInv
<1>2. CASE Schedule
    BY <1>2, ScheduleInv
<1>3. CASE CancelStep \/ \E i \in CrawlIds : CancelReads(i)
    BY <1>3, CancelInv
<1>4. ASSUME NEW w \in Runs, RunStep(w) \/ Poll(w) \/ EngineFails(w) \/ RunDies(w)
      PROVE  IInv'
    <2>1. CASE \/ Begin(w) \/ EngineEnds(w) \/ UpsertEnds(w) \/ Deactivate(w) \/ Finish(w)
               \/ Audit(w) \/ Poll(w) \/ (\E u \in Urls : UpsertPage(w, u))
               \/ \E batch \in SUBSET Urls : Fetch(w, batch)
        BY ONLY IInv, w \in Runs, <2>1, RunningInv
    <2>2. CASE \E i \in CrawlIds : Claim(w, i)
        BY <2>2, ClaimInv
    <2>3. CASE End(w) \/ Skip(w)
        BY <2>3, EndInv
    <2>4. CASE EngineFails(w) \/ RunDies(w)
        BY <2>4, RunLostInv
    <2> QED
        BY <1>4, <2>1, <2>2, <2>3, <2>4 DEF RunStep
<1>5. CASE UNCHANGED vars
    <2>1. UNCHANGED <<crawl, job, req, run, clock, ids, saw>>
        BY <1>5 DEF vars
    <2>2. Shaped' /\ Requested' /\ Claimed'
        BY <2>1 DEF IInv, Shaped, Requested, Claimed, Busy
    <2>3. Unborn' /\ Beaten' /\ Outlived'
        BY <2>1 DEF IInv, Unborn, Beaten, Outlived
    <2> QED
        BY <2>2, <2>3 DEF IInv
<1>6. CASE Archive \/ \E i \in CrawlIds : CrawlLands(i) \/ AuditLands(i)
    BY <1>6, LandsInv
<1> QED
    BY <1>1, <1>2, <1>3, <1>4, <1>5, <1>6 DEF Next

LEMMA Invariance == Spec => []IInv
BY InitInv, NextInv, PTL DEF Spec

(* Racers that saw each other's row have one winner among them: in a race of  *)
(* any number of requests, however the lane, cancellations and deaths come in *)
(* between, the younger of two that saw each other never gets a job.          *)
THEOREM RacersHold == Spec => []RacersAgree
<1>1. IInv => RacersAgree
    <2> SUFFICES ASSUME IInv, NEW i \in CrawlIds, NEW j \in CrawlIds, i # j,
                        j \in saw[i], i \in saw[j]
                 PROVE  job[i].pc = "none" \/ job[j].pc = "none"
        BY DEF RacersAgree
    <2>1. i \in Nat /\ j \in Nat
        BY IdsNat
    <2>2. i < j \/ j < i
        BY <2>1
    <2> QED
        BY <2>2 DEF IInv, Beaten
<1> QED
    BY <1>1, Invariance, PTL

(* Not all racers withdraw: while one does, the oldest crawl row there is     *)
(* belongs to none that does.                                                 *)
THEOREM SomeoneHolds == Spec => []SomeoneWins
<1>1. IInv => SomeoneWins
    <2> SUFFICES ASSUME IInv, NEW i \in CrawlIds, Withdrawing(i)
                 PROVE  \E j \in CrawlIds : crawl[j] # "none" /\ ~Withdrawing(j)
        BY DEF SomeoneWins
    <2> DEFINE T == {j \in CrawlIds : crawl[j] # "none"}
               Less == OpToRel(<, Nat)
    <2>1. \A k \in CrawlIds : Withdrawing(k) => \E j \in T : j < k
        BY DEF Withdrawing, IInv, Outlived
    <2>2. T \subseteq Nat /\ T # {}
        BY <2>1, IdsNat
    <2>3. PICK k \in T : \A j \in T : ~(<<j, k>> \in Less)
        <3> HIDE DEF T, Less
        <3>1. IsWellFoundedOn(Less, Nat)
            BY NatLessThanWellFounded DEF Less
        <3> QED
            BY <2>2, <3>1, WFMin
    <2>4. \A j \in T : ~(j < k)
        BY <2>2, <2>3 DEF OpToRel
    <2> QED
        BY <2>1, <2>4
<1> QED
    BY <1>1, Invariance, PTL

(* The rows, jobs, requests and runs of the race keep their types, and no     *)
(* crawl is numbered beyond the bound; TypeOK says the same with a clock that *)
(* the bounds of a run limit.                                                 *)
THEOREM TypeCorrect == Spec => []Shaped
<1>1. IInv => Shaped
    BY DEF IInv
<1> QED
    BY <1>1, Invariance, PTL
-----------------------------------------------------------------------------
(* What a run deactivates *)

(* Pages that a first attempt fetched and stored are stamped with its own     *)
(* start or later, provided that nothing else wrote them: its crawl had no    *)
(* rows when it began, so that every row is its own; what it has upserted     *)
(* bears such a stamp; and a run that does not count as overlapped is the     *)
(* only one there is.  A later attempt is another matter: rows of an earlier  *)
(* one are older than its start, and so are the stamps that it takes from     *)
(* them.                                                                      *)
PagesShaped ==
    /\ stored \in [CrawlIds -> [Urls -> Nat]]
    /\ page \in [Urls -> [at : Nat, active : BOOLEAN]]

Blank(i) == \A u \in Urls : stored[i][u] = 0
Unbegun(i) == i > ids \/ (job[i].pc \in {"queued", "unpushed"} /\ job[i].attempt = 0)

Blanks ==
    /\ \A i \in CrawlIds : Unbegun(i) => Blank(i)
    /\ \A r \in Requests : req[r].pc \in Holding => Blank(req[r].id)

Begun == \A w \in Busy : job[run[w].id].attempt # 0
Alone == \A v, w \in Busy : w \notin overlap => v = w
InTime == clock > 0 /\ \A w \in Runs : run[w].started <= clock

Found(w) == run[w].fetched \ run[w].unstored

Fresh(w) ==
    LET i == run[w].id
    IN /\ IF run[w].pc = "begin" THEN Blank(i) /\ run[w].fetched = {}
          ELSE \A u \in Urls : stored[i][u] = 0 \/ stored[i][u] >= run[w].started
       /\ run[w].pc = "crawl" => \A u \in Found(w) : stored[i][u] # 0
       /\ run[w].pc = "upsert" => \A u \in run[w].todo : stored[i][u] # 0
       /\ run[w].pc = "deactivate" => run[w].todo = {}
       /\ run[w].pc \in {"upsert", "deactivate"} /\ w \notin overlap =>
             \A u \in Found(w) \ run[w].todo :
                 page[u].active /\ page[u].at >= run[w].started

FirstsFresh == \A w \in Busy : job[run[w].id].attempt = 1 => Fresh(w)

PInv == PagesShaped /\ Blanks /\ Begun /\ Alone /\ InTime /\ FirstsFresh

LEMMA InitPages == Init => PInv
<1> SUFFICES ASSUME Init PROVE PInv
    OBVIOUS
<1>1. PagesShaped
    BY DEF Init, PagesShaped
<1>2. Busy = {} /\ InTime
    BY DEF Init, Busy, InTime, IdleRun
<1>3. Blanks
    BY IdleShaped DEF Init, Blanks, Blank, Holding
<1> QED
    BY <1>1, <1>2, <1>3 DEF PInv, Begun, Alone, FirstsFresh

(* A step that stores nothing and upserts nothing, and takes runs at most     *)
(* from their slots.                                                          *)
LEMMA PagesStill ==
    ASSUME IInv, PInv, UNCHANGED <<stored, page, clock, overlap>>, Blanks',
           run' \in [Runs -> RunShapes],
           \A v \in Runs : run'[v] \in {run[v], IdleRun},
           \A v \in Busy : run'[v].pc # "idle" =>
               job'[run[v].id].attempt = job[run[v].id].attempt
    PROVE  PInv'
<1>1. \A v \in Busy' : v \in Busy /\ run'[v] = run[v]
    BY IdleShaped DEF Busy
<1>2. PagesShaped' /\ InTime'
    BY DEF PInv, PagesShaped, InTime, IdleRun, IInv, Shaped
<1>3. Begun' /\ Alone'
    BY <1>1 DEF PInv, Begun, Alone, Busy
<1>4. FirstsFresh'
    <2> SUFFICES ASSUME NEW v \in Busy', job'[run'[v].id].attempt = 1 PROVE Fresh(v)'
        BY DEF FirstsFresh
    <2>1. v \in Busy /\ run'[v] = run[v] /\ job[run[v].id].attempt = 1
        BY <1>1 DEF Busy
    <2>2. Fresh(v)
        BY <2>1 DEF PInv, FirstsFresh
    <2> QED
        BY <2>1, <2>2 DEF Fresh, Found, Blank
<1> QED
    BY <1>2, <1>3, <1>4 DEF PInv

LEMMA RequestPages ==
    ASSUME IInv, PInv, NEW r \in Requests, CheckActive(r) \/ RequestStep(r) \/ RequestDies(r)
    PROVE  PInv'
<1>0. /\ req \in [Requests -> RequestShapes] /\ req[r] \in RequestShapes
      /\ run \in [Runs -> RunShapes] /\ job \in [CrawlIds -> JobShapes]
      /\ ids \in Nat /\ \A i \in CrawlIds : i \in Nat
      /\ Blanks
    BY IdsNat DEF IInv, Shaped, PInv
<1>1. UNCHANGED <<stored, page, clock, overlap, run>>
    BY DEF CheckActive, RequestStep, RequestDies, Stamp, Insert, LookForRival, Withdraw,
           EnqueueCrawl, history
<1>2. CASE UNCHANGED <<job, ids>> /\ \A s \in Requests :
               req'[s].pc \in Holding => req[s].pc \in Holding /\ req'[s].id = req[s].id
    <2>1. Blanks'
        BY <1>0, <1>1, <1>2 DEF Blanks, Blank, Unbegun
    <2> QED
        BY <1>0, <1>1, <1>2, <2>1, PagesStill
<1>3. CASE CheckActive(r)
    BY <1>0, <1>2, <1>3 DEF CheckActive, Holding, RequestShapes
<1>4. CASE Stamp(r)
    <2>1. /\ req' = [req EXCEPT ![r] = [pc |-> "insert", id |-> ids + 1]]
          /\ ids < MaxCrawls /\ ids' = ids + 1 /\ UNCHANGED job
        BY <1>4 DEF Stamp
    <2>2. ids + 1 \in CrawlIds /\ Unbegun(ids + 1)
        BY <1>0, <2>1, IdsNat DEF CrawlIds, Unbegun
    <2>3. \A i \in CrawlIds : Unbegun(i)' => Unbegun(i)
        BY <1>0, <2>1 DEF Unbegun
    <2>4. /\ req'[r].id = ids + 1
          /\ \A s \in Requests \ {r} : req'[s] = req[s]
        BY <1>0, <2>1
    <2>5. Blanks'
        BY <1>0, <1>1, <2>2, <2>3, <2>4 DEF Blanks, Blank
    <2> QED
        BY <1>0, <1>1, <2>1, <2>5, PagesStill
<1>5. CASE Insert(r)
    <2>1. req' = [req EXCEPT ![r].pc = "rival"] /\ req[r].pc = "insert"
        BY <1>5 DEF Insert
    <2> QED
        BY <1>0, <1>2, <1>5, <2>1 DEF Insert, Holding, RequestShapes
<1>6. CASE LookForRival(r)
    <2>1. /\ req' = [req EXCEPT ![r].pc =
                        IF Outranked(req[r].id) THEN "withdraw" ELSE "enqueue"]
          /\ req[r].pc = "rival" /\ UNCHANGED <<job, ids>>
        BY <1>6 DEF LookForRival
    <2>2. req'[r].id = req[r].id /\ \A s \in Requests \ {r} : req'[s] = req[s]
        BY <1>0, <2>1 DEF RequestShapes
    <2> QED
        BY <1>2, <2>1, <2>2 DEF Holding
<1>7. CASE Withdraw(r) \/ RequestDies(r)
    <2>1. req' = [req EXCEPT ![r] = IdleRequest] /\ UNCHANGED <<job, ids>>
        BY <1>7 DEF Withdraw, RequestDies
    <2> QED
        BY <1>0, <1>2, <2>1, IdleShaped DEF Holding
<1>8. CASE EnqueueCrawl(r)
    <2>0. PICK q : job' = [job EXCEPT ![req[r].id] = q]
        BY <1>8 DEF EnqueueCrawl
    <2>1. /\ req' = [req EXCEPT ![r] = IdleRequest] /\ UNCHANGED ids
          /\ job' = [job EXCEPT ![req[r].id] = q] /\ req[r].pc = "enqueue"
        BY <1>8, <2>0 DEF EnqueueCrawl
    <2>2. Blank(req[r].id) /\ job[req[r].id].pc = "none"
        BY <1>0, <2>1 DEF Blanks, Holding, IInv, Requested
    <2>3. \A i \in CrawlIds : i # req[r].id => job'[i] = job[i]
        BY <1>0, <2>1
    <2>4. \A i \in CrawlIds : Unbegun(i)' => i = req[r].id \/ Unbegun(i)
        BY <2>1, <2>3 DEF Unbegun
    <2>5. \A s \in Requests : req'[s].pc \in Holding => req'[s] = req[s]
        BY <1>0, <2>1, IdleShaped DEF Holding
    <2>6. Blanks'
        BY <1>0, <1>1, <2>2, <2>4, <2>5 DEF Blanks, Blank
    <2>7. \A v \in Busy : job'[run[v].id].attempt = job[run[v].id].attempt
        BY <2>2, <2>3 DEF IInv, Claimed
    <2> QED
        BY <1>0, <1>1, <2>6, <2>7, PagesStill
<1> QED
    BY <1>3, <1>4, <1>5, <1>6, <1>7, <1>8 DEF RequestStep

LEMMA SchedulePages == ASSUME IInv, PInv, Schedule PROVE PInv'
<1> DEFINE q == [pc |-> "queued", named |-> FALSE, attempt |-> 0]
<1>0. /\ run \in [Runs -> RunShapes] /\ job \in [CrawlIds -> JobShapes]
      /\ ids \in Nat /\ (\A i \in CrawlIds : i \in Nat) /\ Blanks
    BY IdsNat DEF IInv, Shaped, PInv
<1>1. /\ UNCHANGED <<stored, page, clock, overlap, run, req>>
      /\ ids' = ids + 1 /\ ids < MaxCrawls /\ job' = [job EXCEPT ![ids + 1] = q]
    BY DEF Schedule, history
<1> HIDE DEF q
<1>2. ids + 1 \in CrawlIds /\ Unbegun(ids + 1)
    BY <1>0, <1>1, IdsNat DEF CrawlIds, Unbegun
<1>3. \A i \in CrawlIds : i # ids + 1 => job'[i] = job[i]
    BY <1>0, <1>1
<1>4. \A i \in CrawlIds : Unbegun(i)' => i = ids + 1 \/ Unbegun(i)
    BY <1>0, <1>1, <1>3 DEF Unbegun
<1>5. Blanks'
    BY <1>0, <1>1, <1>2, <1>4 DEF Blanks, Blank
<1>6. job[ids + 1].pc = "none"
    BY <1>0, <1>2 DEF IInv, Unborn
<1>7. \A v \in Busy : job'[run[v].id].attempt = job[run[v].id].attempt
    BY <1>3, <1>6 DEF IInv, Claimed
<1> QED
    BY <1>0, <1>1, <1>5, <1>7, PagesStill

LEMMA CancelPages ==
    ASSUME IInv, PInv, CancelStep \/ \E i \in CrawlIds : CancelReads(i)
    PROVE  PInv'
<1>0. /\ run \in [Runs -> RunShapes] /\ job \in [CrawlIds -> JobShapes] /\ Blanks
      /\ \A w \in Busy : run[w].id \in CrawlIds
    BY DEF IInv, Shaped, PInv, Claimed
<1>1. UNCHANGED <<stored, page, clock, overlap, run, req, ids>>
    BY DEF CancelStep, CancelMarks, CancelsJob, SignalReads, CancelReads, history
<1>2. job' = job \/ job' = [job EXCEPT ![cancel.id].pc = "cancelled"]
    BY DEF CancelStep, CancelMarks, CancelsJob, SignalReads, CancelReads
<1>3. \A i \in CrawlIds : /\ job'[i].attempt = job[i].attempt
                          /\ job'[i].pc \in {job[i].pc, "cancelled"}
    BY <1>0, <1>2 DEF JobShapes
<1>4. Blanks'
    BY <1>0, <1>1, <1>3 DEF Blanks, Blank, Unbegun
<1> QED
    BY <1>0, <1>1, <1>3, <1>4, PagesStill

LEMMA LandsPages ==
    ASSUME IInv, PInv, Archive \/ \E i \in CrawlIds : CrawlLands(i) \/ AuditLands(i)
    PROVE  PInv'
<1>0. /\ run \in [Runs -> RunShapes] /\ job \in [CrawlIds -> JobShapes] /\ Blanks
      /\ \A w \in Busy : run[w].id \in CrawlIds
    BY DEF IInv, Shaped, PInv, Claimed
<1>1. UNCHANGED <<stored, page, clock, overlap, run, req, ids>>
    BY DEF Archive, CrawlLands, AuditLands, history
<1>2. job' = job \/ \E i \in CrawlIds : /\ job[i].pc = "unpushed"
                                       /\ job' = [job EXCEPT ![i].pc = "queued"]
    BY DEF Archive, CrawlLands, AuditLands
<1>3. \A i \in CrawlIds : /\ job'[i].attempt = job[i].attempt
                          /\ \/ job'[i].pc = job[i].pc
                             \/ job[i].pc = "unpushed" /\ job'[i].pc = "queued"
    BY <1>0, <1>2 DEF JobShapes
<1>4. Blanks'
    BY <1>0, <1>1, <1>3 DEF Blanks, Blank, Unbegun
<1> QED
    BY <1>0, <1>1, <1>3, <1>4, PagesStill

(* A run lets go of its job, whatever becomes of it.                          *)
LEMMA RunOverPages ==
    ASSUME IInv, PInv, NEW w \in Runs, End(w) \/ Skip(w) \/ EngineFails(w) \/ RunDies(w)
    PROVE  PInv'
<1> DEFINE i == run[w].id
<1>0. /\ run \in [Runs -> RunShapes] /\ job \in [CrawlIds -> JobShapes] /\ Blanks
      /\ ids \in Nat /\ \A j \in CrawlIds : j \in Nat
    BY IdsNat DEF IInv, Shaped, PInv
<1>1. /\ UNCHANGED <<stored, page, clock, overlap, req>> /\ run[w].pc # "idle"
      /\ run' = [run EXCEPT ![w] = IdleRun]
    BY DEF End, Skip, EngineFails, RunDies, AttemptOver, history
<1>2. /\ i \in CrawlIds /\ job[i] \in JobShapes /\ job[i].attempt # 0 /\ i <= ids
      /\ \A v \in Busy \ {w} : run[v].id # i /\ run[v].id \in CrawlIds /\ run[v].id <= ids
    <2>1. w \in Busy
        BY <1>1 DEF Busy
    <2>2. \A v \in Busy : run[v].id \in CrawlIds /\ run[v].id <= ids
        BY RunNumbered DEF Busy
    <2> QED
        BY <1>0, <2>1, <2>2 DEF PInv, Begun, IInv, Claimed
<1>3. \/ /\ UNCHANGED ids
         /\ \E pc : job' = [job EXCEPT ![i] = [job[i] EXCEPT !.pc = pc]]
      \/ /\ ids' = ids + 1 /\ ids < MaxCrawls
         /\ job' = [job EXCEPT ![i] = NoJob, ![ids + 1] = [job[i] EXCEPT !.pc = "queued"]]
    <2>1. CASE End(w) \/ Skip(w)
        BY <2>1 DEF End, Skip
    <2>2. CASE AttemptOver(w)
        BY <2>2 DEF AttemptOver
    <2> QED
        BY <2>1, <2>2 DEF EngineFails, RunDies
<1>4. /\ ids' >= ids
      /\ \A j \in CrawlIds : j # i /\ j <= ids => job'[j] = job[j]
      /\ \A j \in CrawlIds : Unbegun(j)' => Unbegun(j)
    <2>1. CASE UNCHANGED ids /\ \E pc : job' = [job EXCEPT ![i] = [job[i] EXCEPT !.pc = pc]]
        <3>1. PICK pc : job' = [job EXCEPT ![i] = [job[i] EXCEPT !.pc = pc]]
            BY <2>1
        <3>2. job'[i].attempt = job[i].attempt /\ \A j \in CrawlIds : j # i => job'[j] = job[j]
            BY <1>0, <1>2, <3>1 DEF JobShapes
        <3> QED
            BY <1>0, <1>2, <2>1, <3>2 DEF Unbegun
    <2>2. CASE /\ ids' = ids + 1 /\ ids < MaxCrawls
               /\ job' = [job EXCEPT ![i] = NoJob,
                                     ![ids + 1] = [job[i] EXCEPT !.pc = "queued"]]
        <3>1. ids + 1 \in CrawlIds /\ ids + 1 # i
            BY <1>0, <1>2, <2>2, IdsNat DEF CrawlIds
        <3>2. /\ job'[i] = NoJob
              /\ \A j \in CrawlIds : j # i /\ j # ids + 1 => job'[j] = job[j]
            BY <1>0, <1>2, <2>2, <3>1
        <3>3. job'[i].pc = "none"
            BY <3>2, IdleShaped
        <3>4. \A j \in CrawlIds : j > ids + 1 => j > ids
            BY <1>0
        <3>5. Unbegun(ids + 1)
            BY <1>0, <3>1 DEF Unbegun
        <3>6. ~(i > ids + 1)
            BY <1>0, <1>2
        <3>7. ASSUME NEW j \in CrawlIds, Unbegun(j)' PROVE Unbegun(j)
            <4>1. CASE j = ids + 1
                BY <3>5, <4>1
            <4>2. CASE j = i
                BY <2>2, <3>3, <3>6, <3>7, <4>2 DEF Unbegun
            <4>3. CASE j # i /\ j # ids + 1
                BY <2>2, <3>2, <3>4, <3>7, <4>3 DEF Unbegun
            <4> QED
                BY <4>1, <4>2, <4>3
        <3>8. \A j \in CrawlIds : j <= ids => j # ids + 1
            BY <1>0
        <3>9. ids' >= ids
            BY <1>0, <2>2
        <3> QED
            BY <3>2, <3>7, <3>8, <3>9
    <2> QED
        BY <1>3, <2>1, <2>2
<1>5. Blanks'
    BY <1>0, <1>1, <1>4 DEF Blanks, Blank
<1>6. \A v \in Runs : run'[v] = IF v = w THEN IdleRun ELSE run[v]
    BY <1>0, <1>1
<1>7. \A v \in Busy : run'[v].pc # "idle" =>
          job'[run[v].id].attempt = job[run[v].id].attempt
    BY <1>2, <1>4, <1>6, IdleShaped DEF Busy
<1>8. run' \in [Runs -> RunShapes]
    BY <1>0, <1>1, IdleShaped
<1> QED
    BY ONLY IInv, PInv, <1>1, <1>5, <1>6, <1>7, <1>8, PagesStill

(* A step of a run that keeps its crawl: what it stores is in its own rows,   *)
(* and another run that is busy counts as overlapped.                         *)
LEMMA RunPages ==
    ASSUME IInv, PInv, NEW w \in Runs, run[w].pc # "idle",
           UNCHANGED <<job, req, ids, overlap>>, clock' \in Nat, clock' >= clock,
           NEW q \in RunShapes, q.id = run[w].id, q.pc # "idle", q.started <= clock',
           run' = [run EXCEPT ![w] = q], PagesShaped',
           \A i \in CrawlIds : i # run[w].id => stored'[i] = stored[i],
           job[run[w].id].attempt = 1 => Fresh(w)'
    PROVE  PInv'
<1> DEFINE i == run[w].id
<1>0. /\ w \in Busy /\ i \in CrawlIds /\ i <= ids /\ ids \in Nat /\ clock \in Nat
      /\ job[i].pc \in {"running", "cancelled"}
      /\ run \in [Runs -> RunShapes]
    BY RunNumbered DEF Busy, IInv, Shaped
<1>1. \A v \in Runs : run'[v] = IF v = w THEN q ELSE run[v]
    BY <1>0
<1>2. Busy' = Busy
    BY <1>0, <1>1 DEF Busy
<1>3. Blanks'
    <2>1. ~Unbegun(i)
        <3>1. i \in Nat /\ ids \in Nat
            BY <1>0, IdsNat
        <3>2. ~(i > ids) /\ job[i].pc \notin {"queued", "unpushed"}
            BY <1>0, <3>1
        <3> QED
            BY <3>2 DEF Unbegun
    <2>2. \A r \in Requests : req[r].pc \in Holding => req[r].id # i /\ req[r].id \in CrawlIds
        BY <1>0, IdsNat DEF IInv, Requested, CrawlIds, Shaped
    <2> QED
        BY <2>1, <2>2 DEF PInv, Blanks, Blank, Unbegun
<1>4. Begun' /\ Alone'
    BY <1>0, <1>1, <1>2 DEF PInv, Begun, Alone, Busy
<1>5. InTime'
    <2>1. clock > 0 /\ \A v \in Runs : run[v].started \in Nat /\ run[v].started <= clock
        BY <1>0 DEF PInv, InTime, RunShapes
    <2> QED
        BY <1>0, <1>1, <2>1 DEF InTime
<1>6. FirstsFresh'
    <2> SUFFICES ASSUME NEW v \in Busy, job[run'[v].id].attempt = 1 PROVE Fresh(v)'
        BY <1>2 DEF FirstsFresh
    <2>1. CASE v = w
        BY <1>0, <1>1, <2>1
    <2>2. CASE v # w
        <3>1. run'[v] = run[v] /\ v \in overlap /\ run[v].id # i /\ run[v].id \in CrawlIds
            BY <1>0, <1>1, <2>2 DEF PInv, Alone, IInv, Claimed, Busy
        <3>2. Fresh(v)
            BY <3>1 DEF PInv, FirstsFresh
        <3>3. stored'[run[v].id] = stored[run[v].id]
            BY <3>1
        <3> QED
            BY <3>1, <3>2, <3>3 DEF Fresh, Found, Blank
    <2> QED
        BY <2>1, <2>2
<1> QED
    BY <1>3, <1>4, <1>5, <1>6 DEF PInv

(* The run that a step is about.                                              *)
LEMMA RunFacts ==
    ASSUME IInv, PInv, NEW w \in Runs, run[w].pc # "idle"
    PROVE  /\ run[w] \in RunShapes /\ run[w].id \in CrawlIds
           /\ clock \in Nat /\ clock > 0
           /\ run[w].started \in Nat /\ run[w].started <= clock
           /\ run \in [Runs -> RunShapes]
           /\ stored \in [CrawlIds -> [Urls -> Nat]]
           /\ page \in [Urls -> [at : Nat, active : BOOLEAN]]
           /\ w \in Busy /\ (job[run[w].id].attempt = 1 => Fresh(w))
<1>1. run[w] \in RunShapes /\ run[w].id \in CrawlIds /\ clock \in Nat
    BY RunNumbered
<1>2. run[w].started \in Nat
    BY <1>1 DEF RunShapes
<1> QED
    BY <1>1, <1>2 DEF PInv, PagesShaped, InTime, FirstsFresh, Busy, IInv, Shaped

LEMMA BeginPages == ASSUME IInv, PInv, NEW w \in Runs, Begin(w) PROVE PInv'
<1> DEFINE q == [run[w] EXCEPT !.pc = "crawl", !.started = clock + 1]
<1>1. /\ run[w].pc = "begin" /\ UNCHANGED <<job, req, ids, overlap, stored, page>>
      /\ clock' = clock + 1 /\ run' = [run EXCEPT ![w] = q]
    BY DEF Begin, history
<1>2. run[w].pc # "idle"
    BY <1>1
<1>3. run[w] \in RunShapes /\ run[w].id \in CrawlIds /\ clock \in Nat
    BY <1>2, RunFacts
<1>4. clock' \in Nat /\ clock' >= clock /\ clock + 1 \in Nat
    BY <1>1, <1>3
<1>5. /\ q \in RunShapes /\ q.id = run[w].id /\ q.pc = "crawl" /\ q.started = clock'
      /\ q.fetched = run[w].fetched
    BY ONLY <1>1, <1>3, <1>4 DEF RunShapes
<1> HIDE DEF q
<1>6. PagesShaped'
    BY <1>1 DEF PInv, PagesShaped
<1>7. job[run[w].id].attempt = 1 => Fresh(w)'
    <2> SUFFICES ASSUME job[run[w].id].attempt = 1 PROVE Fresh(w)'
        OBVIOUS
    <2>1. Blank(run[w].id) /\ run[w].fetched = {}
        BY <1>1, <1>2, RunFacts DEF Fresh
    <2>2. run'[w] = q
        BY <1>1, <1>2, RunFacts
    <2> QED
        BY <1>1, <1>5, <2>1, <2>2 DEF Fresh, Found, Blank
<1>8. q.started <= clock' /\ q.pc # "idle"
    BY <1>4, <1>5
<1>9. \A i \in CrawlIds : i # run[w].id => stored'[i] = stored[i]
    BY <1>1
<1> QED
    BY ONLY IInv, PInv, w \in Runs, <1>1, <1>2, <1>4, <1>5, <1>6, <1>7, <1>8, <1>9, RunPages

(* Steps in which the run writes no row and stores nothing.                   *)
LEMMA RunQuietPages ==
    ASSUME IInv, PInv, NEW w \in Runs, run[w].pc # "idle",
           UNCHANGED <<job, req, ids, overlap, clock, stored>>, PagesShaped',
           NEW q \in RunShapes, q.id = run[w].id, q.pc # "idle", q.started = run[w].started,
           run' = [run EXCEPT ![w] = q],
           job[run[w].id].attempt = 1 => Fresh(w)'
    PROVE  PInv'
<1>1. clock' \in Nat /\ clock' >= clock /\ q.started <= clock'
    BY RunFacts
<1>2. \A i \in CrawlIds : i # run[w].id => stored'[i] = stored[i]
    OBVIOUS
<1> QED
    BY <1>1, <1>2, RunPages

LEMMA FetchPages ==
    ASSUME IInv, PInv, NEW w \in Runs, NEW batch \in SUBSET Urls, Fetch(w, batch)
    PROVE  PInv'
<1> DEFINE i == run[w].id
           rows == [u \in Urls |-> IF u \in batch /\ stored[i][u] = 0 THEN clock ELSE stored[i][u]]
<1>1. run[w].pc = "crawl" /\ UNCHANGED <<job, req, ids, overlap, clock, page>>
    BY DEF Fetch, history
<1>2. run[w].pc # "idle"
    BY <1>1
<1>3. /\ run[w] \in RunShapes /\ run \in [Runs -> RunShapes] /\ i \in CrawlIds /\ clock \in Nat
      /\ clock > 0 /\ run[w].started \in Nat /\ run[w].started <= clock
      /\ stored \in [CrawlIds -> [Urls -> Nat]]
    BY <1>2, RunFacts
<1>4. PICK failed \in SUBSET Urls :
          /\ run' = [run EXCEPT ![w] =
                [run[w] EXCEPT !.fetched = @ \cup batch, !.unstored = failed]]
          /\ \/ failed = run[w].unstored /\ stored' = [stored EXCEPT ![i] =
                    [u \in Urls |-> IF u \in batch /\ @[u] = 0 THEN clock ELSE @[u]]]
             \/ failed = run[w].unstored \cup batch /\ UNCHANGED stored
    BY <1>3, FetchedRun
<1> DEFINE q == [run[w] EXCEPT !.fetched = @ \cup batch, !.unstored = failed]
<1>5. /\ q \in RunShapes /\ q.id = i /\ q.pc = "crawl" /\ q.started = run[w].started
      /\ q.fetched = run[w].fetched \cup batch /\ q.unstored = failed
    BY ONLY <1>1, <1>3, batch \in SUBSET Urls, failed \in SUBSET Urls DEF RunShapes
<1>6. run' = [run EXCEPT ![w] = q]
    BY <1>4
<1> HIDE DEF q
<1>7. rows \in [Urls -> Nat]
    BY <1>3
<1>8. \/ failed = run[w].unstored /\ stored' = [stored EXCEPT ![i] = rows]
      \/ failed = run[w].unstored \cup batch /\ UNCHANGED stored
    BY <1>4
<1> HIDE DEF rows
<1>9. /\ \A j \in CrawlIds : j # i => stored'[j] = stored[j]
      /\ stored' \in [CrawlIds -> [Urls -> Nat]]
    BY ONLY <1>3, <1>7, <1>8
<1>10. PagesShaped'
    BY <1>1, <1>9 DEF PInv, PagesShaped
<1>11. run'[w] = q
    BY <1>3, <1>6
<1>12. job[i].attempt = 1 => Fresh(w)'
    <2> SUFFICES ASSUME job[i].attempt = 1 PROVE Fresh(w)'
        OBVIOUS
    <2>1. /\ \A x \in Urls : stored[i][x] = 0 \/ stored[i][x] >= run[w].started
          /\ \A x \in Found(w) : stored[i][x] # 0
          /\ Found(w) \subseteq Urls
        BY <1>1, <1>2, <1>3, RunFacts DEF Fresh, Found, RunShapes
    <2>2. CASE failed = run[w].unstored /\ stored' = [stored EXCEPT ![i] = rows]
        <3>1. \A x \in Urls : stored'[i][x] =
                 IF x \in batch /\ stored[i][x] = 0 THEN clock ELSE stored[i][x]
            BY <1>3, <2>2 DEF rows
        <3>2. \A x \in Urls : stored'[i][x] = 0 \/ stored'[i][x] >= run[w].started
            BY <1>3, <2>1, <3>1
        <3>3. \A x \in batch : stored'[i][x] # 0
            BY <1>3, <3>1
        <3>4. \A x \in q.fetched \ q.unstored : stored'[i][x] # 0
            BY <1>3, <1>5, <2>1, <2>2, <3>1, <3>3 DEF Found
        <3> QED
            BY <1>5, <1>11, <3>2, <3>4 DEF Fresh, Found
    <2>3. CASE failed = run[w].unstored \cup batch /\ UNCHANGED stored
        <3>1. q.fetched \ q.unstored \subseteq Found(w)
            BY <1>5, <2>3 DEF Found
        <3> QED
            BY <1>5, <1>11, <2>1, <2>3, <3>1 DEF Fresh, Found
    <2> QED
        BY <1>8, <2>2, <2>3
<1>13. clock' \in Nat /\ clock' >= clock /\ q.started <= clock' /\ q.pc # "idle"
    BY <1>1, <1>3, <1>5
<1> QED
    BY ONLY IInv, PInv, w \in Runs, <1>1, <1>2, <1>5, <1>6, <1>9, <1>10, <1>12, <1>13, RunPages

LEMMA PollPages == ASSUME IInv, PInv, NEW w \in Runs, Poll(w) PROVE PInv'
<1> DEFINE q == [run[w] EXCEPT !.aborted = TRUE]
<1>1. /\ run[w].pc # "idle" /\ run[w].pc # "begin" /\ run' = [run EXCEPT ![w] = q]
      /\ UNCHANGED <<job, req, ids, overlap, clock, stored, page>>
    BY DEF Poll, history
<1>2. run[w] \in RunShapes
    BY <1>1, RunFacts
<1>3. /\ q \in RunShapes /\ q.id = run[w].id /\ q.pc = run[w].pc
      /\ q.started = run[w].started /\ q.fetched = run[w].fetched /\ q.todo = run[w].todo
      /\ q.unstored = run[w].unstored
    BY ONLY <1>2 DEF RunShapes
<1> HIDE DEF q
<1>4. PagesShaped'
    BY <1>1 DEF PInv, PagesShaped
<1>5. run'[w] = q
    BY <1>1, RunFacts
<1>6. ASSUME job[run[w].id].attempt = 1 PROVE Fresh(w)'
    <2>1. Fresh(w)
        BY <1>1, <1>6, RunFacts
    <2>2. /\ run'[w].id = run[w].id /\ run'[w].pc = run[w].pc /\ run'[w].started = run[w].started
          /\ run'[w].fetched = run[w].fetched /\ run'[w].todo = run[w].todo
          /\ run'[w].unstored = run[w].unstored
        BY <1>3, <1>5
    <2>3. UNCHANGED <<overlap, stored, page>> /\ run[w].pc # "begin"
        BY <1>1
    <2> QED
        BY ONLY <2>1, <2>2, <2>3 DEF Fresh, Found
<1>7. q.pc # "idle"
    BY <1>1, <1>3
<1> QED
    BY ONLY IInv, PInv, w \in Runs, <1>1, <1>3, <1>4, <1>6, <1>7, RunQuietPages

(* All that the crawl has stored is to be upserted.                           *)
LEMMA EngineEndsPages == ASSUME IInv, PInv, NEW w \in Runs, EngineEnds(w) PROVE PInv'
<1> DEFINE todo == {u \in Urls : stored[run[w].id][u] # 0}
           all == run[w].fetched = online
<1>1. run[w].pc = "crawl" /\ UNCHANGED <<job, req, ids, overlap, clock, stored, page>>
    BY DEF EngineEnds, history
<1>2. PICK limit \in BOOLEAN, cancelled \in BOOLEAN :
            run' = [run EXCEPT ![w] = [run[w] EXCEPT !.pc = "upsert", !.limit = limit,
                                          !.cancelled = cancelled, !.todo = todo]]
    <2>1. PICK limit \in BOOLEAN :
            run' = [run EXCEPT ![w] = [run[w] EXCEPT !.pc = "upsert", !.limit = limit,
                       !.cancelled = ~all /\ run[w].aborted, !.todo = todo]]
        BY DEF EngineEnds
    <2>2. (~all /\ run[w].aborted) \in BOOLEAN
        OBVIOUS
    <2> HIDE DEF all, todo
    <2> QED
        BY ONLY <2>1, <2>2
<1> DEFINE q == [run[w] EXCEPT !.pc = "upsert", !.limit = limit,
                               !.cancelled = cancelled, !.todo = todo]
<1>3. run[w].pc # "idle" /\ run' = [run EXCEPT ![w] = q]
    BY <1>1, <1>2
<1>4. run[w] \in RunShapes /\ todo \in SUBSET Urls
    BY <1>3, RunFacts
<1> HIDE DEF todo
<1>5. /\ q \in RunShapes /\ q.id = run[w].id /\ q.pc = "upsert" /\ q.pc # "idle"
      /\ q.started = run[w].started /\ q.fetched = run[w].fetched /\ q.todo = todo
      /\ q.unstored = run[w].unstored
    BY ONLY <1>4, limit \in BOOLEAN, cancelled \in BOOLEAN DEF RunShapes
<1> HIDE DEF q
<1>6. PagesShaped'
    BY <1>1 DEF PInv, PagesShaped
<1>7. run'[w] = q
    BY <1>3, RunFacts
<1>8. job[run[w].id].attempt = 1 => Fresh(w)'
    <2> SUFFICES ASSUME job[run[w].id].attempt = 1 PROVE Fresh(w)'
        OBVIOUS
    <2>1. /\ \A u \in Urls : stored[run[w].id][u] = 0 \/ stored[run[w].id][u] >= run[w].started
          /\ \A u \in Found(w) : stored[run[w].id][u] # 0
        BY <1>1, <1>3, RunFacts DEF Fresh
    <2>2. Found(w) \subseteq Urls
        BY <1>4 DEF RunShapes, Found
    <2>3. Found(w) \ todo = {} /\ Found(w)' = Found(w)
        BY <1>5, <1>7, <2>1, <2>2 DEF todo, Found
    <2>4. \A u \in todo : stored[run[w].id][u] # 0
        BY DEF todo
    <2> QED
        BY <1>1, <1>5, <1>7, <2>1, <2>3, <2>4 DEF Fresh
<1> QED
    BY ONLY IInv, PInv, w \in Runs, <1>1, <1>3, <1>5, <1>6, <1>8, RunQuietPages

LEMMA UpsertPages ==
    ASSUME IInv, PInv, NEW w \in Runs, NEW u \in Urls, UpsertPage(w, u)
    PROVE  PInv'
<1> DEFINE q == [run[w] EXCEPT !.todo = @ \ {u}]
           at == stored[run[w].id][u]
<1>1. /\ run[w].pc = "upsert" /\ run[w].pc # "idle" /\ run' = [run EXCEPT ![w] = q]
      /\ u \in run[w].todo
      /\ UNCHANGED <<job, req, ids, overlap, clock, stored>>
      /\ page' = [page EXCEPT ![u] = [at |-> at, active |-> TRUE]]
    BY DEF UpsertPage, Upserted, history
<1>2. /\ run[w] \in RunShapes /\ run[w].id \in CrawlIds /\ run \in [Runs -> RunShapes]
      /\ stored \in [CrawlIds -> [Urls -> Nat]]
      /\ page \in [Urls -> [at : Nat, active : BOOLEAN]]
    BY <1>1, RunFacts
<1>3. /\ q \in RunShapes /\ q.id = run[w].id /\ q.pc = "upsert" /\ q.pc # "idle"
      /\ q.started = run[w].started /\ q.fetched = run[w].fetched
      /\ q.todo = run[w].todo \ {u} /\ q.unstored = run[w].unstored
    BY ONLY <1>1, <1>2 DEF RunShapes
<1> HIDE DEF q
<1>4. at \in Nat /\ [at |-> at, active |-> TRUE] \in [at : Nat, active : BOOLEAN]
    BY <1>2
<1>5. PagesShaped'
    BY <1>1, <1>2, <1>4 DEF PagesShaped
<1>6. run'[w] = q
    BY <1>1, <1>2
<1>7. job[run[w].id].attempt = 1 => Fresh(w)'
    <2> SUFFICES ASSUME job[run[w].id].attempt = 1 PROVE Fresh(w)'
        OBVIOUS
    <2>0. Fresh(w)
        BY <1>1, RunFacts
    <2>1. /\ \A x \in Urls : stored[run[w].id][x] = 0 \/ stored[run[w].id][x] >= run[w].started
          /\ \A x \in run[w].todo : stored[run[w].id][x] # 0
        BY <1>1, <2>0 DEF Fresh
    <2>2. at >= run[w].started
        BY <1>1, <2>1
    <2>3. page'[u].active /\ page'[u].at >= run[w].started
        BY <1>1, <1>2, <2>2
    <2>4. \A x \in Urls \ {u} : page'[x] = page[x]
        BY <1>1, <1>2
    <2>5. Found(w) \subseteq Urls /\ Found(w)' = Found(w)
        BY <1>2, <1>3, <1>6 DEF RunShapes, Found
    <2>6. w \notin overlap => \A x \in Found(w) \ q.todo :
              page'[x].active /\ page'[x].at >= run[w].started
        BY <1>1, <1>3, <2>0, <2>3, <2>4, <2>5 DEF Fresh
    <2> QED
        BY <1>1, <1>3, <1>6, <2>1, <2>5, <2>6 DEF Fresh
<1> QED
    BY ONLY IInv, PInv, w \in Runs, <1>1, <1>3, <1>5, <1>7, RunQuietPages

(* Steps after the upserts: what they leave to be shown is little.            *)
LEMMA ClosingPages ==
    ASSUME IInv, PInv, NEW w \in Runs, UpsertEnds(w) \/ Deactivate(w) \/ Finish(w) \/ Audit(w)
    PROVE  PInv'
<1>1. /\ run[w].pc \notin {"idle", "begin"}
      /\ UNCHANGED <<job, req, ids, overlap, clock, stored>>
    BY DEF UpsertEnds, Deactivate, Finish, Audit, history
<1>2. /\ run[w] \in RunShapes /\ run \in [Runs -> RunShapes]
      /\ page \in [Urls -> [at : Nat, active : BOOLEAN]]
    BY <1>1, RunFacts
<1>3. PICK pc \in {"finish", "deactivate", "audit", "end"} :
          run' = [run EXCEPT ![w] = [run[w] EXCEPT !.pc = pc]]
    BY DEF UpsertEnds, Deactivate, Finish, Audit
<1> DEFINE q == [run[w] EXCEPT !.pc = pc]
<1>4. /\ q \in RunShapes /\ q.id = run[w].id /\ q.pc = pc /\ q.pc # "idle"
      /\ q.started = run[w].started /\ q.fetched = run[w].fetched /\ q.todo = run[w].todo
      /\ q.unstored = run[w].unstored
    BY ONLY <1>2, pc \in {"finish", "deactivate", "audit", "end"} DEF RunShapes
<1>5. run' = [run EXCEPT ![w] = q]
    BY <1>3
<1> HIDE DEF q
<1>6. run'[w] = q
    BY <1>2, <1>5
<1>7. PagesShaped'
    <2>1. CASE UNCHANGED page
        BY <1>1, <2>1 DEF PInv, PagesShaped
    <2>2. CASE Deactivate(w)
        <3>1. \A u \in Urls : [page[u] EXCEPT !.active = FALSE] \in [at : Nat, active : BOOLEAN]
            BY <1>2
        <3>2. page' \in [Urls -> [at : Nat, active : BOOLEAN]]
            BY <1>2, <2>2, <3>1 DEF Deactivate
        <3> QED
            BY <1>1, <3>2 DEF PInv, PagesShaped
    <2> QED
        BY <2>1, <2>2 DEF UpsertEnds, Finish, Audit
<1>8. job[run[w].id].attempt = 1 => Fresh(w)'
    <2> SUFFICES ASSUME job[run[w].id].attempt = 1 PROVE Fresh(w)'
        OBVIOUS
    <2>0. Fresh(w)
        BY <1>1, RunFacts
    <2>1. \A u \in Urls : stored[run[w].id][u] = 0 \/ stored[run[w].id][u] >= run[w].started
        BY <1>1, <2>0 DEF Fresh
    <2>2. CASE pc # "deactivate"
        BY <1>1, <1>4, <1>6, <2>1, <2>2 DEF Fresh
    <2>3. CASE pc = "deactivate"
        <3>1. UpsertEnds(w)
            <4>1. run'[w].pc = "deactivate"
                BY <1>4, <1>6, <2>3
            <4>2. CASE Deactivate(w) \/ Audit(w)
                BY <1>2, <4>1, <4>2 DEF Deactivate, Audit, RunShapes
            <4>3. CASE Finish(w)
                BY <1>2, <4>1, <4>3 DEF Finish, RunShapes
            <4> QED
                BY <4>2, <4>3
        <3>2. /\ run[w].pc = "upsert" /\ run[w].todo = {} /\ UNCHANGED page
            BY <3>1 DEF UpsertEnds
        <3>3. w \notin overlap => \A u \in Found(w) \ run[w].todo :
                  page[u].active /\ page[u].at >= run[w].started
            BY <2>0, <3>2 DEF Fresh
        <3>4. Found(w)' = Found(w)
            BY <1>4, <1>6 DEF Found
        <3> QED
            BY <1>1, <1>4, <1>6, <2>1, <2>3, <3>2, <3>3, <3>4 DEF Fresh
    <2> QED
        BY <2>2, <2>3
<1>9. run[w].pc # "idle"
    BY <1>1
<1> QED
    BY ONLY IInv, PInv, w \in Runs, <1>1, <1>4, <1>5, <1>7, <1>8, <1>9, RunQuietPages

(* A job's first attempt finds its crawl without rows; a run that begins      *)
(* while another is at work makes both of them overlapped.                    *)
LEMMA ClaimPages ==
    ASSUME IInv, PInv, NEW w \in Runs, NEW i \in CrawlIds, Claim(w, i)
    PROVE  PInv'
<1> DEFINE q == [IdleRun EXCEPT !.pc = "begin", !.id = i]
           n == job[i].attempt + 1
           p == [job[i] EXCEPT !.pc = "running", !.attempt = n]
<1>0. /\ run \in [Runs -> RunShapes] /\ job \in [CrawlIds -> JobShapes] /\ Blanks
    BY DEF IInv, Shaped, PInv
<1>1. /\ UNCHANGED <<stored, page, clock, req, ids>> /\ run[w].pc = "idle"
      /\ job[i].pc = "queued" /\ run' = [run EXCEPT ![w] = q]
      /\ overlap' = IF Busy = {} THEN overlap \ {w} ELSE overlap \cup Busy \cup {w}
    BY DEF Claim
<1>2. job' = [job EXCEPT ![i] = p]
    BY DEF Claim
<1>3. job[i] \in JobShapes /\ job[i].attempt \in Nat
    BY <1>0 DEF JobShapes
<1>4. n \in Nat /\ n # 0 /\ (n = 1 => job[i].attempt = 0)
    BY ONLY <1>3
<1> HIDE DEF n
<1>5. p.pc = "running" /\ p.attempt = n
    BY ONLY <1>3, <1>4 DEF JobShapes
<1>6. q.pc = "begin" /\ q.id = i /\ q.started = 0 /\ q.fetched = {}
    BY DEF IdleRun
<1> HIDE DEF p, q
<1>7. \A j \in CrawlIds : job'[j] = IF j = i THEN p ELSE job[j]
    BY <1>0, <1>2
<1>8. \A v \in Runs : run'[v] = IF v = w THEN q ELSE run[v]
    BY <1>0, <1>1
<1>9. Busy' = Busy \cup {w} /\ w \notin Busy
    BY <1>1, <1>6, <1>8 DEF Busy
<1>10. \A v \in Busy : run[v].id \in CrawlIds /\ run[v].id # i
    BY <1>1 DEF IInv, Claimed
<1>11. PagesShaped' /\ InTime'
    <2>1. clock \in Nat
        BY DEF IInv, Shaped
    <2> QED
        BY <1>1, <1>6, <1>8, <2>1 DEF PInv, PagesShaped, InTime
<1>12. Blanks'
    <2>1. \A j \in CrawlIds : Unbegun(j)' => Unbegun(j)
        <3> SUFFICES ASSUME NEW j \in CrawlIds, Unbegun(j)' PROVE Unbegun(j)
            OBVIOUS
        <3>1. CASE j = i
            BY <1>1, <1>5, <1>7, <3>1 DEF Unbegun
        <3>2. CASE j # i
            BY <1>1, <1>7, <3>2 DEF Unbegun
        <3> QED
            BY <3>1, <3>2
    <2> QED
        BY <1>0, <1>1, <2>1 DEF Blanks, Blank
<1>13. Begun'
    BY <1>4, <1>5, <1>6, <1>7, <1>8, <1>9, <1>10 DEF PInv, Begun, Busy
<1>14. Alone'
    BY <1>1, <1>9 DEF Alone
<1>15. FirstsFresh'
    <2> SUFFICES ASSUME NEW v \in Busy', job'[run'[v].id].attempt = 1 PROVE Fresh(v)'
        BY DEF FirstsFresh
    <2>1. CASE v = w
        <3>1. job'[i].attempt = 1
            BY <1>6, <1>8, <2>1
        <3>2. Unbegun(i)
            BY <1>1, <1>4, <1>5, <1>7, <3>1 DEF Unbegun
        <3>3. Blank(i)
            BY <1>0, <3>2 DEF Blanks
        <3> QED
            BY <1>1, <1>6, <1>8, <2>1, <3>3 DEF Fresh, Found, Blank
    <2>2. CASE v # w
        <3>1. v \in Busy /\ v \in Runs /\ run'[v] = run[v] /\ run[v].id # i /\ v \in overlap'
            BY <1>1, <1>8, <1>9, <1>10, <2>2 DEF Busy
        <3>2. Fresh(v)
            BY <1>7, <1>10, <3>1 DEF PInv, FirstsFresh
        <3> QED
            BY <1>1, <3>1, <3>2 DEF Fresh, Found, Blank
    <2> QED
        BY <2>1, <2>2
<1> QED
    BY <1>11, <1>12, <1>13, <1>14, <1>15 DEF PInv

LEMMA NextPages == IInv /\ PInv /\ [Next]_vars => PInv'
<1> SUFFICES ASSUME IInv, PInv, [Next]_vars PROVE PInv'
    OBVIOUS
<1>1. CASE \E r \in Requests : CheckActive(r) \/ RequestStep(r) \/ RequestDies(r)
    BY <1>1, RequestPages
<1>2. CASE Schedule
    BY <1>2, SchedulePages
<1>3. CASE CancelStep \/ \E i \in CrawlIds : CancelReads(i)
    BY <1>3, CancelPages
<1>4. ASSUME NEW w \in Runs, RunStep(w) \/ Poll(w) \/ EngineFails(w) \/ RunDies(w)
      PROVE  PInv'
    <2>1. CASE UpsertEnds(w) \/ Deactivate(w) \/ Finish(w) \/ Audit(w)
        BY <2>1, ClosingPages
    <2>2. CASE End(w) \/ Skip(w) \/ EngineFails(w) \/ RunDies(w)
        BY <2>2, RunOverPages
    <2>3. CASE Begin(w) \/ EngineEnds(w) \/ Poll(w)
        BY <2>3, BeginPages, EngineEndsPages, PollPages
    <2>4. CASE (\E u \in Urls : UpsertPage(w, u)) \/ \E batch \in SUBSET Urls : Fetch(w, batch)
        BY <2>4, FetchPages, UpsertPages
    <2>5. CASE \E i \in CrawlIds : Claim(w, i)
        BY <2>5, ClaimPages
    <2> QED
        BY <1>4, <2>1, <2>2, <2>3, <2>4, <2>5 DEF RunStep
<1>5. CASE UNCHANGED vars
    <2>1. /\ UNCHANGED <<stored, page, clock, overlap, run, job, req, ids>>
          /\ run \in [Runs -> RunShapes]
        BY <1>5 DEF vars, IInv, Shaped
    <2>2. Blanks'
        BY <2>1 DEF PInv, Blanks, Blank, Unbegun
    <2> QED
        BY <2>1, <2>2, PagesStill
<1>6. CASE Archive \/ \E i \in CrawlIds : CrawlLands(i) \/ AuditLands(i)
    BY <1>6, LandsPages
<1> QED
    BY <1>1, <1>2, <1>3, <1>4, <1>5, <1>6 DEF Next

(* Only Deactivate takes a run from there to the end of its crawl.            *)
LEMMA OnlyDeactivates ==
    ASSUME IInv, [Next]_vars, NEW w \in Runs,
           run[w].pc = "deactivate", run'[w].pc = "finish"
    PROVE  Deactivate(w)
<1>0. run \in [Runs -> RunShapes] /\ run[w] \in RunShapes
    BY DEF IInv, Shaped
<1>1. run'[w] # run[w]
    OBVIOUS
<1>2. ASSUME NEW v \in Runs, RunStep(v) \/ Poll(v) \/ EngineFails(v) \/ RunDies(v)
      PROVE  v = w
    <2>1. \A x \in Runs \ {v} : run'[x] = run[x]
        <3>1. CASE EngineEnds(v)
            BY <1>0, <3>1 DEF EngineEnds
        <3>2. CASE Audit(v) \/ End(v) \/ Skip(v) \/ Poll(v) \/ EngineFails(v) \/ RunDies(v)
            BY <1>0, <3>2 DEF Audit, End, Skip, Poll, EngineFails, RunDies, AttemptOver
        <3>3. CASE \/ \E u \in Urls : UpsertPage(v, u)
                   \/ \E batch \in SUBSET Urls : Fetch(v, batch)
            BY <1>0, <3>3 DEF Fetch, UpsertPage
        <3>4. CASE \E i \in CrawlIds : Claim(v, i)
            BY <1>0, <3>4 DEF Claim
        <3>5. CASE Begin(v) \/ UpsertEnds(v) \/ Deactivate(v) \/ Finish(v)
            BY <1>0, <3>5 DEF Begin, UpsertEnds, Deactivate, Finish
        <3> QED
            BY <1>2, <3>1, <3>2, <3>3, <3>4, <3>5 DEF RunStep
    <2> QED
        BY <1>1, <2>1
<1>3. UNCHANGED run \/ \E v \in Runs : RunStep(v) \/ Poll(v) \/ EngineFails(v) \/ RunDies(v)
    <2>1. CASE \E r \in Requests : CheckActive(r) \/ RequestStep(r) \/ RequestDies(r)
        BY <2>1 DEF CheckActive, RequestStep, RequestDies, Stamp, Insert, LookForRival,
                    Withdraw, EnqueueCrawl
    <2>2. CASE \/ Schedule \/ CancelStep \/ Archive
               \/ \E i \in CrawlIds : CancelReads(i) \/ CrawlLands(i) \/ AuditLands(i)
        BY <2>2 DEF Schedule, Archive, CrawlLands, AuditLands, CancelStep, CancelMarks, CancelsJob, SignalReads, CancelReads
    <2> QED
        BY <2>1, <2>2 DEF Next, vars
<1>4. RunStep(w) \/ Poll(w) \/ EngineFails(w) \/ RunDies(w)
    BY <1>1, <1>2, <1>3
<1>5. ~Poll(w)
    BY <1>0 DEF Poll, RunShapes
<1>6. ~EngineFails(w) /\ ~RunDies(w) /\ ~End(w) /\ ~Skip(w)
    BY <1>0, IdleShaped DEF EngineFails, RunDies, AttemptOver, End, Skip, IdleRun
<1>7. ~Begin(w) /\ ~EngineEnds(w) /\ ~UpsertEnds(w) /\ ~Finish(w) /\ ~Audit(w)
    BY DEF Begin, EngineEnds, UpsertEnds, Finish, Audit
<1>8. /\ \A u \in Urls : ~UpsertPage(w, u)
      /\ \A batch \in SUBSET Urls : ~Fetch(w, batch)
      /\ \A i \in CrawlIds : ~Claim(w, i)
    BY DEF Fetch, UpsertPage, Claim
<1> QED
    BY <1>4, <1>5, <1>6, <1>7, <1>8 DEF RunStep

LEMMA PagesInvariance == Spec => []PInv
BY InitPages, NextPages, Invariance, PTL DEF Spec

(* However long other jobs, requests, cancellations and losses go on: the     *)
(* first attempt of a crawl, alone on its site, marks no page as missing that *)
(* it fetched and stored.                                                     *)
THEOREM MissingOnly == Spec => OnlyTheMissing
<1>1. ASSUME IInv, PInv, [Next]_vars, NEW w \in Runs,
             run[w].pc = "deactivate", run'[w].pc = "finish",
             w \notin overlap, job[run[w].id].attempt = 1,
             NEW u \in Found(w)
      PROVE  page'[u].active
    <2>1. Deactivate(w)
        BY <1>1, OnlyDeactivates
    <2>2. Fresh(w) /\ run[w] \in RunShapes /\ run[w].started \in Nat
          /\ page \in [Urls -> [at : Nat, active : BOOLEAN]]
        BY <1>1, RunFacts
    <2>3. u \in Urls
        BY <2>2 DEF RunShapes, Found
    <2>4. page[u].active /\ page[u].at >= run[w].started /\ page[u].at \in Nat
        BY <1>1, <2>2, <2>3 DEF Fresh
    <2>5. u \notin Missing(w)
        BY <2>2, <2>4 DEF Missing
    <2> QED
        BY <2>1, <2>3, <2>4, <2>5 DEF Deactivate
<1>2. IInv /\ PInv /\ [Next]_vars =>
          [\A w \in Runs :
              /\ run[w].pc = "deactivate" /\ run'[w].pc = "finish"
              /\ w \notin overlap /\ job[run[w].id].attempt = 1
              => \A u \in run[w].fetched \ run[w].unstored : page'[u].active]_vars
    BY <1>1 DEF Found
<1> QED
    BY <1>2, Invariance, PagesInvariance, PTL DEF Spec, OnlyTheMissing
=============================================================================

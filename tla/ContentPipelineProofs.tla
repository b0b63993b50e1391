----------------------- MODULE ContentPipelineProofs -----------------------
(* Proofs about ContentPipeline, for every pipeline, every set of stages that *)
(* are run by hand, any number of attempts, texts and events.                 *)
EXTENDS ContentPipeline, TLAPS

Signed == {"APPROVED", "PUBLISHED"}

-----------------------------------------------------------------------------
(* The inductive invariant *)

(* The agent runs the stages that it knows, and only one that another follows *)
(* is chained.                                                                *)
Known ==
    \A k \in Keys :
        /\ job[k].pc \notin {"idle", "queued", "agent"} => k[2] \in Stages
        /\ job[k].pc = "chain" => Following(k[2]) \in Stages

Approved == draft.stage \in Signed => signed # {}

(* With an operator who waits there is one job or one request under way, and  *)
(* what it read is what is there.  A publication changes no row of these.     *)
Alone ==
    /\ \A k, l \in Keys : job[k].pc # "idle" /\ job[l].pc # "idle" => k = l
    /\ (\E k \in Keys : job[k].pc # "idle") => approve.pc = "idle"

Seen == edited \cup {v.text : v \in signed}

Fresh ==
    /\ approve.pc = "write" => approve.text = draft.text /\ approve.claims = draft.claims
    /\ \A k \in Keys : job[k].pc \notin {"idle", "queued"} => draft.stage \notin Signed
    /\ \A k \in Keys : job[k].pc = "thinking" => job[k].blocked = draft.blocked

TextSeen == draft.stage \in Signed => draft.text \in Seen

Acknowledged == draft.stage \in Signed /\ draft.claims => \E v \in signed : v.claims

NotYetDone ==
    /\ redone = {}
    /\ \A k \in Keys :
          job[k].pc \in {"agent", "thinking", "decided"} /\ ~job[k].force => k[2] \notin completed

(* A flag that was found is in the row or on its way there.                   *)
Flagged ==
    /\ \A k \in Keys :
          job[k].pc \in {"decided", "rowed"} /\ job[k].out.column = "blocked" /\ draft.blocked
              => job[k].out.flag
    /\ found /\ ~cut =>
          \/ draft.blocked
          \/ \E k \in Keys :
                job[k].pc = "rowed" /\ job[k].out.column = "blocked" /\ job[k].out.flag
    /\ ~cut => TRUE \notin requests

Waited == Alone /\ Fresh /\ TextSeen /\ Acknowledged /\ NotYetDone /\ Flagged

Careful == left.careful => Waited

(* Nobody asks the run route for a stage that is not one of the pipeline's:   *)
(* it takes any ContentStage.                                                 *)
Unsigned == Runnable \cap Signed = {}

IInv == TypeOK /\ Known /\ Approved /\ Careful

-----------------------------------------------------------------------------
(* Types *)

LEMMA SpendTyped ==
    ASSUME left \in ScaleRecords,
           NEW what \in {"runs", "edits", "approvals", "publishes", "failures", "missing",
                         "deaths"},
           Spend(what)
    PROVE  left' \in ScaleRecords /\ left'.careful = left.careful
BY DEF Spend, ScaleRecords

LEMMA OrderTyped ==
    /\ Order \in Seq(STRING) /\ Len(Order) \in Nat \ {0}
    /\ DOMAIN Order = 1..Len(Order) /\ Stages \subseteq STRING
    /\ \A i \in DOMAIN Order : Order[i] \in Stages
<1>1. Order \in Seq(STRING) /\ Len(Order) > 0
    BY PipelineAssumption
<1>2. Len(Order) \in Nat \ {0} /\ DOMAIN Order = 1..Len(Order)
    BY <1>1
<1>3. \A i \in DOMAIN Order : Order[i] \in STRING /\ Order[i] \in Stages
    BY <1>1, <1>2 DEF Stages
<1> QED
    BY <1>1, <1>2, <1>3 DEF Stages

LEMMA NextIndex ==
    ASSUME NEW n \in Nat, NEW i \in 1..n, i # n
    PROVE  i + 1 \in 1..n
OBVIOUS

(* What follows a stage is a stage. *)
LEMMA FollowingTyped ==
    ASSUME NEW s
    PROVE  Following(s) \in Stages \cup {"none"}
<1>1. CASE s \notin Stages \/ Index(s) = Len(Order)
    BY <1>1 DEF Following
<1>2. CASE s \in Stages /\ Index(s) # Len(Order)
    <2>1. \E i \in DOMAIN Order : Order[i] = s
        BY <1>2 DEF Stages
    <2>2. Index(s) \in DOMAIN Order
        BY <2>1 DEF Index
    <2>3. Index(s) + 1 \in DOMAIN Order
        <3>1. Len(Order) \in Nat /\ DOMAIN Order = 1..Len(Order)
            BY OrderTyped
        <3>2. PICK i \in 1..Len(Order) : i = Index(s)
            BY <2>2, <3>1
        <3>3. i # Len(Order)
            BY <1>2, <3>2
        <3>4. i + 1 \in 1..Len(Order)
            BY <3>1, <3>3, NextIndex
        <3> QED
            BY <3>1, <3>2, <3>4
    <2>4. Following(s) = Order[Index(s) + 1]
        BY <1>2 DEF Following
    <2> QED
        BY <2>3, <2>4, OrderTyped
<1> QED
    BY <1>1, <1>2

LEMMA ConstantsTyped ==
    /\ MaxTexts \in Nat /\ Attempts \in Nat \ {0}
    /\ NoOutcome \in Outcomes /\ IdleJob \in JobRecords /\ NoPub \in PubRecords
    /\ Stages \cap (Signed \cup {"none"}) = {}
BY PipelineAssumption
   DEF NoOutcome, Outcomes, IdleJob, JobRecords, NoPub, PubRecords, Signed

LEMMA InitTyped == Init => TypeOK /\ Known
<1> SUFFICES ASSUME Init PROVE TypeOK /\ Known
    OBVIOUS
<1>1. Order[1] \in Stages
    BY OrderTyped
<1>2. job \in [Keys -> JobRecords] /\ \A k \in Keys : job[k].pc = "idle"
    BY ConstantsTyped DEF Init, IdleJob
<1>3. left \in ScaleRecords
    BY PipelineAssumption DEF Init
<1>4. pub \in [PubJobs -> PubRecords] /\ stranded \in Nat
    BY ConstantsTyped DEF Init
<1>5. draft \in [stage : Stages \cup Runnable \cup {"APPROVED", "PUBLISHED"},
                  status : {"PENDING", "RUNNING", "COMPLETED", "FAILED", "SKIPPED"},
                  text : 0..MaxTexts, blocked : BOOLEAN, claims : BOOLEAN]
    BY <1>1, ConstantsTyped DEF Init
<1>6. approve \in [pc : {"idle", "write"}, version : Nat, text : 0..MaxTexts, claims : BOOLEAN]
    BY ConstantsTyped DEF Init, IdleApprove
<1> QED
    BY <1>2, <1>3, <1>4, <1>5, <1>6, ConstantsTyped DEF Init, TypeOK, Known

-----------------------------------------------------------------------------
(* The types of each step.  A step of a job writes its own record, and may    *)
(* put another key in the queue.                                              *)
DraftRecords ==
    [stage : Stages \cup Runnable \cup Signed,
     status : {"PENDING", "RUNNING", "COMPLETED", "FAILED", "SKIPPED"},
     text : 0..MaxTexts, blocked : BOOLEAN, claims : BOOLEAN]

JobsTyped == job' \in [Keys -> JobRecords] /\ Known'

LEMMA WriteJob ==
    ASSUME TypeOK, Known, NEW k \in Keys, NEW r \in JobRecords,
           r.pc \in {"idle", "queued", "agent"} \/ k[2] \in Stages,
           r.pc = "chain" => Following(k[2]) \in Stages,
           job' = [job EXCEPT ![k] = r]
    PROVE  JobsTyped
BY DEF TypeOK, Known, JobsTyped

LEMMA EnqueuedTyped ==
    ASSUME TypeOK, Known, NEW k \in Keys, NEW force \in BOOLEAN
    PROVE  /\ Enqueued(k, force) \in [Keys -> JobRecords]
           /\ \A l \in Keys :
                 Enqueued(k, force)[l] = job[l] \/ Enqueued(k, force)[l].pc = "queued"
<1>1. CASE job[k].pc = "idle"
    <2> job[k] \in JobRecords
        BY DEF TypeOK
    <2>1. [job[k] EXCEPT !.pc = "queued", !.force = force] \in JobRecords
        BY DEF JobRecords
    <2>2. [job[k] EXCEPT !.pc = "queued", !.force = force].pc = "queued"
        BY DEF JobRecords
    <2>3. Enqueued(k, force) =
              [job EXCEPT ![k] = [job[k] EXCEPT !.pc = "queued", !.force = force]]
        BY <1>1 DEF Enqueued, TypeOK
    <2> QED
        BY <2>1, <2>2, <2>3 DEF TypeOK
<1>2. CASE job[k].pc # "idle"
    BY <1>2 DEF Enqueued, TypeOK
<1> QED
    BY <1>1, <1>2

LEMMA PubIsTyped ==
    ASSUME TypeOK, NEW p \in PubJobs, NEW r \in PubRecords, PubIs(p, r)
    PROVE  pub' \in [PubJobs -> PubRecords]
BY DEF PubIs, TypeOK

LEMMA RoutesTyped ==
    ASSUME TypeOK, Known,
           (\E s \in Runnable : RunStage(s)) \/ Edit \/ ApproveReads \/ ApproveWrites
           \/ Publish \/ RetryPublish
    PROVE  TypeOK' /\ Known'
<1>1. ASSUME NEW s \in Runnable, RunStage(s) PROVE TypeOK' /\ Known'
    <2>1. left' \in ScaleRecords
        BY <1>1, SpendTyped DEF RunStage, Operator, TypeOK
    <2>2. <<"manual", s>> \in Keys
        BY DEF Keys
    <2>3. PICK force \in BOOLEAN : job' = Enqueued(<<"manual", s>>, force)
        BY <1>1 DEF RunStage
    <2>4. JobsTyped
        BY <2>2, <2>3, EnqueuedTyped DEF JobsTyped, Known
    <2> QED
        BY <1>1, <2>1, <2>4 DEF RunStage, JobsTyped, TypeOK, row, sign, publish, history
<1>2. CASE Edit
    <2>1. left' \in ScaleRecords
        BY <1>2, SpendTyped DEF Edit, Operator, TypeOK
    <2>2. texts + 1 \in 1..MaxTexts
        BY <1>2, ConstantsTyped DEF Edit, TypeOK
    <2> QED
        BY <1>2, <2>1, <2>2 DEF Edit, TypeOK, Known, publish
<1>3. CASE ApproveReads
    <2>1. left' \in ScaleRecords
        BY <1>3, SpendTyped DEF ApproveReads, Operator, TypeOK
    <2>2. approve' \in [pc : {"idle", "write"}, version : Nat, text : 0..MaxTexts,
                        claims : BOOLEAN]
        BY <1>3 DEF ApproveReads, Unverified, TypeOK
    <2>3. UNCHANGED <<draft, completed, requests, versions, signed, job, pub, stranded, texts,
                      edited, found, redone, cut>>
        BY <1>3 DEF ApproveReads, row, publish, history
    <2>4. Known'
        BY <2>3 DEF Known
    <2>5. TypeOK'
        BY <2>1, <2>2, <2>3 DEF TypeOK
    <2> QED
        BY <2>4, <2>5
<1>4. CASE ApproveWrites
    <2>1. draft' \in DraftRecords /\ versions' \in Nat
          /\ signed' \subseteq [text : 0..MaxTexts, claims : BOOLEAN]
        <3>1. CASE versions = approve.version
            <4>1. draft' \in DraftRecords
                <5>1. draft \in DraftRecords
                    BY DEF DraftRecords, Signed, TypeOK
                <5>2. draft' = [draft EXCEPT !.stage = "APPROVED", !.status = "COMPLETED"]
                    BY <1>4, <3>1 DEF ApproveWrites
                <5> QED
                    BY <5>1, <5>2 DEF DraftRecords, Signed
            <4>2. versions' \in Nat
                BY <1>4, <3>1 DEF ApproveWrites, TypeOK
            <4>3. [text |-> approve.text, claims |-> approve.claims]
                      \in [text : 0..MaxTexts, claims : BOOLEAN]
                BY DEF TypeOK
            <4>4. signed' = signed \cup {[text |-> approve.text, claims |-> approve.claims]}
                BY <1>4, <3>1 DEF ApproveWrites
            <4> QED
                BY <4>1, <4>2, <4>3, <4>4 DEF TypeOK
        <3>2. CASE versions # approve.version
            BY <1>4, <3>2 DEF ApproveWrites, DraftRecords, Signed, TypeOK
        <3> QED
            BY <3>1, <3>2
    <2>2. approve' \in [pc : {"idle", "write"}, version : Nat, text : 0..MaxTexts,
                        claims : BOOLEAN]
        BY <1>4, ConstantsTyped DEF ApproveWrites, IdleApprove
    <2>3. UNCHANGED <<completed, requests, job, pub, stranded, texts, left, edited, found,
                      redone, cut>>
        BY <1>4 DEF ApproveWrites, publish, history
    <2>4. Known'
        BY <2>3 DEF Known
    <2>5. TypeOK'
        BY <2>1, <2>2, <2>3 DEF TypeOK, DraftRecords, Signed
    <2> QED
        BY <2>4, <2>5
<1>5. CASE Publish \/ RetryPublish
    <2>1. left' \in ScaleRecords
        BY <1>5, SpendTyped DEF Publish, RetryPublish, Operator, TypeOK
    <2>2. PICK p \in PubJobs, dry \in BOOLEAN :
              PubIs(p, [NoPub EXCEPT !.pc = "queued", !.dry = dry])
        BY <1>5 DEF Publish, RetryPublish, TypeOK, PubJobs, PubRecords
    <2>3. [NoPub EXCEPT !.pc = "queued", !.dry = dry] \in PubRecords
        BY DEF NoPub, PubRecords
    <2>4. pub' \in [PubJobs -> PubRecords]
        BY <2>2, <2>3, PubIsTyped
    <2> QED
        BY <1>5, <2>1, <2>4 DEF Publish, RetryPublish, TypeOK, Known, row, sign, history
<1> QED
    BY <1>1, <1>2, <1>3, <1>4, <1>5

LEMMA KeyTyped ==
    ASSUME NEW k \in Keys
    PROVE  k[2] \in Stages \cup Runnable
BY DEF Keys

LEMMA ToTyped ==
    ASSUME TypeOK, Known, NEW k \in Keys,
           NEW pc \in {"idle", "queued", "agent", "thinking", "decided", "rowed", "told", "chain",
                       "failed"},
           pc \in {"idle", "queued", "agent"} \/ k[2] \in Stages,
           pc = "chain" => Following(k[2]) \in Stages,
           To(k, pc)
    PROVE  JobsTyped
<1>1. job[k] \in JobRecords
    BY DEF TypeOK
<1>2. [job[k] EXCEPT !.pc = pc] \in JobRecords /\ [job[k] EXCEPT !.pc = pc].pc = pc
    BY <1>1 DEF JobRecords
<1>3. job' = [job EXCEPT ![k] = [job[k] EXCEPT !.pc = pc]]
    BY DEF To
<1> QED
    BY <1>2, <1>3, WriteJob

LEMMA EndsTyped ==
    ASSUME TypeOK, Known, NEW k \in Keys, Ends(k)
    PROVE  JobsTyped
<1>1. IdleJob.pc = "idle"
    BY DEF IdleJob
<1> QED
    BY <1>1, ConstantsTyped, WriteJob DEF Ends

LEMMA TakenTyped ==
    ASSUME NEW r \in JobRecords,
           NEW pc \in {"idle", "queued", "agent", "thinking", "decided", "rowed", "told", "chain",
                       "failed"},
           NEW o \in Outcomes
    PROVE  /\ [Taken(r) EXCEPT !.pc = pc] \in JobRecords
           /\ [Taken(r) EXCEPT !.pc = pc].pc = pc
           /\ [Taken(r) EXCEPT !.pc = pc, !.out = o] \in JobRecords
           /\ [Taken(r) EXCEPT !.pc = pc, !.out = o].pc = pc
           /\ [Taken(r) EXCEPT !.pc = pc, !.out = o].out = o
           /\ [Taken(r) EXCEPT !.pc = pc, !.out = o].force = r.force
BY ConstantsTyped DEF Taken, IdleJob, JobRecords

LEMMA TakenWritten ==
    ASSUME TypeOK, Known, NEW k \in Keys,
           NEW pc \in {"idle", "queued", "agent", "thinking", "decided", "rowed", "told", "chain",
                       "failed"},
           NEW o \in Outcomes, pc # "chain", pc = "queued" \/ k[2] \in Stages,
           \/ job' = [job EXCEPT ![k] = [Taken(job[k]) EXCEPT !.pc = pc]]
           \/ job' = [job EXCEPT ![k] = [Taken(job[k]) EXCEPT !.pc = pc, !.out = o]]
    PROVE  JobsTyped
<1>1. job[k] \in JobRecords
    BY DEF TypeOK
<1> DEFINE r == [Taken(job[k]) EXCEPT !.pc = pc]
           q == [Taken(job[k]) EXCEPT !.pc = pc, !.out = o]
<1>2. r \in JobRecords /\ r.pc = pc /\ q \in JobRecords /\ q.pc = pc
    BY <1>1, ConstantsTyped DEF Taken, IdleJob, JobRecords
<1>3. job' = [job EXCEPT ![k] = r] \/ job' = [job EXCEPT ![k] = q]
    OBVIOUS
<1> HIDE DEF r, q
<1> QED
    BY <1>2, <1>3, WriteJob

LEMMA RequeuedTyped ==
    ASSUME NEW r \in JobRecords
    PROVE  /\ Again(r, IdleJob) \in JobRecords
           /\ Again(r, IdleJob).pc \in {"idle", "queued"}
<1>1. r.failed \in Nat
    BY DEF JobRecords
<1>2. PICK n \in Nat : n = r.failed + 1
    BY <1>1
<1>3. [r EXCEPT !.pc = "queued", !.failed = n] \in JobRecords
    BY DEF JobRecords
<1>4. [r EXCEPT !.pc = "queued", !.failed = n].pc = "queued"
    BY DEF JobRecords
<1>5. IdleJob.pc = "idle"
    BY DEF IdleJob
<1> QED
    BY <1>2, <1>3, <1>4, <1>5, ConstantsTyped DEF Again

LEMMA OutcomesTyped ==
    ASSUME TypeOK, NEW r \in JobRecords, NEW s, s = "DRAFT" => texts < MaxTexts,
           NEW o \in OutcomesOf(s, r)
    PROVE  o \in Outcomes
<1>1. \A hold \in BOOLEAN, flag \in BOOLEAN, column \in {"none", "claims", "blocked"} :
          Verdict(hold, column, flag) \in Outcomes
    BY ConstantsTyped DEF Verdict, NoOutcome, Outcomes
<1>2. r.empty \in BOOLEAN /\ r.blocked \in BOOLEAN
    BY DEF JobRecords
<1>3. CASE s = "CANNIBALISATION_CHECK"
    BY <1>1, <1>2, <1>3, ConstantsTyped DEF OutcomesOf, Warned
<1>4. CASE s = "DRAFT"
    <2>1. texts + 1 \in 0..MaxTexts
        BY <1>4, ConstantsTyped DEF TypeOK
    <2>2. o = [NoOutcome EXCEPT !.column = "text", !.text = texts + 1]
        BY <1>4 DEF OutcomesOf, Drafted
    <2> QED
        BY <2>1, <2>2 DEF NoOutcome, Outcomes
<1>5. CASE s = "FACT_CHECK"
    BY <1>1, <1>5 DEF OutcomesOf, FactChecked
<1>6. CASE s = "BRAND_REVIEW"
    BY <1>1, <1>2, <1>6, ConstantsTyped DEF OutcomesOf, BrandReviewed, Warned
<1>7. CASE s = "QUALITY_REVIEW"
    BY <1>1, <1>2, <1>7 DEF OutcomesOf, QualityReviewed
<1>8. CASE s = "READY_FOR_APPROVAL"
    BY <1>1, <1>2, <1>8 DEF OutcomesOf, Gated
<1>9. CASE s \notin {"CANNIBALISATION_CHECK", "DRAFT", "FACT_CHECK", "BRAND_REVIEW",
                     "QUALITY_REVIEW", "READY_FOR_APPROVAL"}
    BY <1>9, ConstantsTyped DEF OutcomesOf
<1> QED
    BY <1>3, <1>4, <1>5, <1>6, <1>7, <1>8, <1>9

(* What a step of a job leaves alone, and what is left to show of it.         *)
LEMMA JobRowsTyped ==
    ASSUME TypeOK, JobsTyped, draft' \in DraftRecords, left' \in ScaleRecords,
           completed' \subseteq Stages, requests' \subseteq BOOLEAN,
           versions' \in Nat, texts' \in 0..MaxTexts, redone' \subseteq Stages,
           found' \in BOOLEAN, cut' \in BOOLEAN,
           UNCHANGED <<signed, approve, pub, stranded, edited>>
    PROVE  TypeOK' /\ Known'
BY DEF TypeOK, JobsTyped, DraftRecords, Signed

LEMMA BeforeAgentTyped ==
    ASSUME TypeOK, Known, NEW k \in Keys, Begin(k) \/ Skip(k) \/ Load(k)
    PROVE  TypeOK' /\ Known'
<1>1. draft \in DraftRecords
    BY DEF TypeOK, DraftRecords, Signed
<1>2. CASE Begin(k)
    <2>1. CASE Already(k)
        BY <1>1, <1>2, <2>1, EndsTyped, JobRowsTyped
           DEF Begin, TypeOK, sign, publish, history
    <2>2. CASE ~Already(k)
        <3>1. draft' = [draft EXCEPT !.stage = k[2], !.status = "RUNNING"] /\ To(k, "agent")
            BY <1>2, <2>2 DEF Begin
        <3>2. draft' \in DraftRecords
            BY <1>1, <3>1, KeyTyped DEF DraftRecords
        <3>3. JobsTyped
            BY <3>1, ToTyped
        <3> QED
            BY <1>2, <3>2, <3>3, JobRowsTyped DEF Begin, TypeOK, sign, publish, history
    <2> QED
        BY <2>1, <2>2
<1>3. CASE Skip(k)
    <2>1. left' \in ScaleRecords
        BY <1>3, SpendTyped DEF Skip, TypeOK
    <2>2. draft' \in DraftRecords
        BY <1>1, <1>3 DEF Skip, SkippedRow, DraftRecords
    <2>3. JobsTyped
        BY <1>3, EndsTyped DEF Skip
    <2> QED
        BY <1>3, <2>1, <2>2, <2>3, JobRowsTyped DEF Skip, TypeOK, sign, publish, history
<1>4. CASE Load(k)
    <2> DEFINE r == [job[k] EXCEPT !.pc = "thinking", !.empty = (draft.text = 0),
                                   !.blocked = draft.blocked]
    <2>1. job[k] \in JobRecords /\ draft.blocked \in BOOLEAN
        BY DEF TypeOK
    <2>2. r \in JobRecords /\ r.pc = "thinking"
        BY <2>1 DEF JobRecords
    <2>3. job' = [job EXCEPT ![k] = r] /\ k[2] \in Stages
        BY <1>4 DEF Load
    <2>4. JobsTyped
        BY <2>2, <2>3, WriteJob
    <2> QED
        BY <1>1, <1>4, <2>4, JobRowsTyped DEF Load, TypeOK, row, sign, publish, history
<1> QED
    BY <1>2, <1>3, <1>4

LEMMA AgentTyped ==
    ASSUME TypeOK, Known, NEW k \in Keys, Decide(k) \/ AgentFails(k) \/ FileRow(k) \/ Store(k)
    PROVE  TypeOK' /\ Known'
<1>1. draft \in DraftRecords /\ job[k] \in JobRecords
    BY DEF TypeOK, DraftRecords, Signed
<1>2. job[k].pc \notin {"idle", "queued", "agent"}
    BY DEF Decide, AgentFails, FileRow, Store, At
<1>3. k[2] \in Stages
    BY <1>2 DEF Known
<1>4. NoOutcome \in Outcomes
    BY ConstantsTyped
<1>5. CASE Decide(k)
    <2>1. PICK o \in OutcomesOf(k[2], job[k]) :
              /\ job' = [job EXCEPT ![k] = [Taken(job[k]) EXCEPT !.pc = "decided", !.out = o]]
              /\ requests' = IF k[2] = "READY_FOR_APPROVAL" /\ ~o.hold
                             THEN requests \cup {found} ELSE requests
        BY <1>5 DEF Decide
    <2>2. o \in Outcomes
        BY <1>1, <1>5, OutcomesTyped DEF Decide
    <2>3. JobsTyped
        BY <1>3, <2>1, <2>2, TakenWritten
    <2>4. requests' \subseteq BOOLEAN
        BY <2>1 DEF TypeOK
    <2>5. texts' \in 0..MaxTexts /\ versions' \in Nat
        <3>1. texts \in 0..MaxTexts /\ versions \in Nat /\ MaxTexts \in Nat
            BY ConstantsTyped DEF TypeOK
        <3>2. CASE k[2] = "DRAFT"
            <4>1. texts < MaxTexts /\ texts' = texts + 1 /\ versions' = versions + 1
                BY <1>5, <3>2 DEF Decide
            <4> QED
                BY <3>1, <4>1
        <3>3. CASE k[2] # "DRAFT"
            BY <1>5, <3>1, <3>3 DEF Decide
        <3> QED
            BY <3>2, <3>3
    <2> QED
        BY <1>1, <1>5, <2>3, <2>4, <2>5, JobRowsTyped DEF Decide, TypeOK, publish, history
<1>6. CASE AgentFails(k)
    <2>1. left' \in ScaleRecords
        BY <1>6, SpendTyped DEF AgentFails, TypeOK
    <2>2. draft' \in DraftRecords
        BY <1>1, <1>6 DEF AgentFails, DraftRecords
    <2>3. JobsTyped
        BY <1>3, <1>4, <1>6, TakenWritten DEF AgentFails
    <2> QED
        BY <1>6, <2>1, <2>2, <2>3, JobRowsTyped DEF AgentFails, TypeOK, sign, publish, history
<1>7. CASE FileRow(k)
    <2>1. JobsTyped
        BY <1>3, <1>7, ToTyped DEF FileRow
    <2>2. completed' \subseteq Stages /\ redone' \subseteq Stages
        BY <1>3, <1>7 DEF FileRow, TypeOK
    <2>3. found' \in BOOLEAN
        BY <1>7 DEF FileRow
    <2> QED
        BY <1>1, <1>7, <2>1, <2>2, <2>3, JobRowsTyped DEF FileRow, TypeOK, sign, publish
<1>8. CASE Store(k)
    <2>1. JobsTyped
        BY <1>3, <1>4, <1>8, TakenWritten DEF Store
    <2>2. Updated(job[k].out) \in DraftRecords
        BY <1>1 DEF Updated, DraftRecords, JobRecords, Outcomes
    <2>3. Following(k[2]) \in Stages \cup {"none"}
        BY FollowingTyped
    <2>4. draft' \in DraftRecords
        BY <1>8, <2>2, <2>3 DEF Store, DraftRecords
    <2> QED
        BY <1>8, <2>1, <2>4, JobRowsTyped DEF Store, TypeOK, sign, publish, history
<1> QED
    BY <1>5, <1>6, <1>7, <1>8

LEMMA AfterAgentTyped ==
    ASSUME TypeOK, Known, NEW k \in Keys, Advance(k) \/ Chain(k) \/ Fail(k) \/ JobDies(k)
    PROVE  TypeOK' /\ Known'
<1>1. draft \in DraftRecords /\ job[k] \in JobRecords
    BY DEF TypeOK, DraftRecords, Signed
<1>2. CASE Advance(k)
    <2>1. k[2] \in Stages
        BY <1>2 DEF Advance, At, Known
    <2>2. Following(k[2]) \in Stages \cup {"none"}
        BY FollowingTyped
    <2>3. draft' \in DraftRecords
        BY <1>1, <1>2, <2>1, <2>2 DEF Advance, Advanced, DraftRecords
    <2>4. JobsTyped
        BY <1>2, <2>1, <2>2, EndsTyped, ToTyped DEF Advance
    <2> QED
        BY <1>2, <2>3, <2>4, JobRowsTyped DEF Advance, TypeOK, sign, publish, history
<1>3. CASE Chain(k)
    <2> DEFINE l == <<"chain", Following(k[2])>>
    <2>1. l \in Keys
        BY <1>3 DEF Chain, At, Known, Keys
    <2>2. job' = [Enqueued(l, FALSE) EXCEPT ![k] = IdleJob]
        BY <1>3 DEF Chain
    <2>3. /\ Enqueued(l, FALSE) \in [Keys -> JobRecords]
          /\ \A m \in Keys : Enqueued(l, FALSE)[m] = job[m] \/ Enqueued(l, FALSE)[m].pc = "queued"
        BY <2>1, EnqueuedTyped
    <2>4. IdleJob.pc = "idle"
        BY DEF IdleJob
    <2>5. job' \in [Keys -> JobRecords]
        BY <2>2, <2>3, ConstantsTyped
    <2>6. \A m \in Keys : job'[m] = job[m] \/ job'[m].pc \in {"idle", "queued"}
        BY <2>2, <2>3, <2>4
    <2>7. JobsTyped
        BY <2>5, <2>6 DEF JobsTyped, Known
    <2> QED
        BY <1>1, <1>3, <2>7, JobRowsTyped DEF Chain, TypeOK, row, sign, publish, history
<1>4. CASE Fail(k)
    <2>1. PICK retryable \in BOOLEAN :
              job' = [job EXCEPT ![k] = IF retryable THEN Again(job[k], IdleJob) ELSE IdleJob]
        BY <1>4 DEF Fail
    <2>2. /\ Again(job[k], IdleJob) \in JobRecords
          /\ Again(job[k], IdleJob).pc \in {"idle", "queued"}
        BY <1>1, RequeuedTyped
    <2>3. IdleJob.pc = "idle"
        BY DEF IdleJob
    <2>4. JobsTyped
        BY <2>1, <2>2, <2>3, ConstantsTyped, WriteJob
    <2>5. draft' \in DraftRecords
        BY <1>1, <1>4 DEF Fail, DraftRecords
    <2> QED
        BY <1>4, <2>4, <2>5, JobRowsTyped DEF Fail, TypeOK, sign, publish, history
<1>5. CASE JobDies(k)
    <2>1. left' \in ScaleRecords
        BY <1>5, SpendTyped DEF JobDies, TypeOK
    <2>2. JobsTyped
        BY <1>5, ConstantsTyped, TakenWritten DEF JobDies
    <2>3. cut' \in BOOLEAN
        BY <1>5 DEF JobDies
    <2> QED
        BY <1>1, <1>5, <2>1, <2>2, <2>3, JobRowsTyped DEF JobDies, TypeOK, row, sign, publish
<1> QED
    BY <1>2, <1>3, <1>4, <1>5

LEMMA RetriedTyped ==
    ASSUME NEW r \in PubRecords
    PROVE  Ended(r) \in PubRecords /\ Again(r, Ended(r)) \in PubRecords
<1>1. r.failed \in Nat /\ r.dry \in BOOLEAN
    BY DEF PubRecords
<1>2. Ended(r) \in PubRecords
    BY <1>1 DEF Ended, NoPub, PubRecords
<1>3. PICK n \in Nat : n = r.failed + 1
    BY <1>1
<1>4. [r EXCEPT !.pc = "queued", !.failed = n] \in PubRecords
    BY DEF PubRecords
<1> QED
    BY <1>2, <1>3, <1>4 DEF Again

(* A publication writes its own record, and counts what it leaves.            *)
LEMMA PubTyped ==
    ASSUME TypeOK, Known, NEW p \in PubJobs, PubStep(p) \/ PubDies(p)
    PROVE  TypeOK' /\ Known'
<1> DEFINE Types == /\ pub' \in [PubJobs -> PubRecords] /\ left' \in ScaleRecords
                    /\ stranded' \in Nat
                    /\ UNCHANGED <<draft, completed, requests, versions, signed, approve, job,
                                   texts, edited, found, redone, cut>>
<1>0. SUFFICES Types
    <2> SUFFICES ASSUME Types PROVE TypeOK' /\ Known'
        OBVIOUS
    <2>1. Known'
        BY DEF Known
    <2>2. TypeOK'
        BY DEF TypeOK
    <2> QED
        BY <2>1, <2>2
<1>1. pub[p] \in PubRecords /\ left \in ScaleRecords /\ stranded \in Nat
    BY DEF TypeOK
<1>2. Ended(pub[p]) \in PubRecords /\ Again(pub[p], Ended(pub[p])) \in PubRecords
    BY <1>1, RetriedTyped
<1>3. /\ [pub[p] EXCEPT !.pc = "apply"] \in PubRecords
      /\ [pub[p] EXCEPT !.pc = "queued"] \in PubRecords
      /\ \A unconnected \in BOOLEAN :
            [pub[p] EXCEPT !.pc = "filed", !.unconnected = unconnected] \in PubRecords
    BY <1>1 DEF PubRecords
<1>4. LeavesAction(p) => stranded' \in Nat
    BY <1>1 DEF LeavesAction
<1>5. CASE PubBegins(p)
    <2>1. pub' \in [PubJobs -> PubRecords]
        BY <1>2, <1>3, <1>5, PubIsTyped DEF PubBegins
    <2> QED
        BY <1>1, <1>5, <2>1 DEF PubBegins, row, sign, history
<1>6. CASE PubApplies(p)
    <2>1. pub' \in [PubJobs -> PubRecords]
        BY <1>3, <1>6, PubIsTyped DEF PubApplies
    <2>2. left' \in ScaleRecords
        BY <1>1, <1>6, SpendTyped DEF PubApplies
    <2> QED
        BY <1>1, <1>6, <2>1, <2>2 DEF PubApplies, row, sign, history
<1>7. CASE PubRefused(p)
    <2>1. pub' \in [PubJobs -> PubRecords]
        BY <1>2, <1>7, PubIsTyped DEF PubRefused
    <2> QED
        BY <1>1, <1>7, <2>1 DEF PubRefused, row, sign, history
<1>8. CASE PubFails(p)
    <2>1. pub' \in [PubJobs -> PubRecords]
        BY <1>2, <1>8, PubIsTyped DEF PubFails
    <2>2. left' \in ScaleRecords
        BY <1>1, <1>8, SpendTyped DEF PubFails
    <2> QED
        BY <1>4, <1>8, <2>1, <2>2 DEF PubFails, row, sign, history
<1>9. CASE PubDies(p)
    <2>1. pub' \in [PubJobs -> PubRecords]
        BY <1>3, <1>9, PubIsTyped DEF PubDies
    <2>2. left' \in ScaleRecords
        BY <1>1, <1>9, SpendTyped DEF PubDies
    <2> QED
        BY <1>4, <1>9, <2>1, <2>2 DEF PubDies, row, sign, history
<1> QED
    BY <1>5, <1>6, <1>7, <1>8, <1>9 DEF PubStep

LEMMA StepTyped == TypeOK /\ Known /\ [Next]_vars => TypeOK' /\ Known'
<1> SUFFICES ASSUME TypeOK, Known, [Next]_vars PROVE TypeOK' /\ Known'
    OBVIOUS
<1>1. CASE Next
    BY <1>1, RoutesTyped, BeforeAgentTyped, AgentTyped, AfterAgentTyped, PubTyped
       DEF Next, JobStep
<1>2. CASE UNCHANGED vars
    <2>1. UNCHANGED <<draft, completed, requests, versions, signed, job, pub, stranded, approve,
                      texts, left, edited, found, redone, cut>>
        BY <1>2 DEF vars
    <2>2. Known'
        BY <2>1 DEF Known
    <2>3. TypeOK'
        BY <2>1 DEF TypeOK
    <2> QED
        BY <2>2, <2>3
<1> QED
    BY <1>1, <1>2

(* The rows and the jobs keep their shape, and the agent never runs a         *)
(* stage that the pipeline does not have: a run asked for another one ends    *)
(* in the job, which leaves the draft SKIPPED.                                *)
THEOREM TypeCorrect == Spec => [](TypeOK /\ Known)
<1> QED
    BY InitTyped, StepTyped, PTL DEF Spec

(* Approvals *)

LEMMA StagesUnsigned ==
    ASSUME Unsigned
    PROVE  /\ Stages \cap Signed = {}
           /\ \A k \in Keys : k[2] \notin Signed
           /\ \A s : Following(s) \notin Signed
           /\ Order[1] \notin Signed
<1>1. Stages \cap Signed = {} /\ "none" \notin Signed
    BY ConstantsTyped DEF Signed
<1>2. \A k \in Keys : k[2] \notin Signed
    BY <1>1, KeyTyped DEF Unsigned
<1>3. \A s : Following(s) \in Stages \cup {"none"}
    BY FollowingTyped
<1>4. Order[1] \in Stages
    BY OrderTyped
<1> QED
    BY <1>1, <1>2, <1>3, <1>4

(* A job leaves the stage where it is or takes it to one of the pipeline.     *)
LEMMA JobUnsigned ==
    ASSUME Unsigned, TypeOK, Known, NEW k \in Keys, JobStep(k) \/ JobDies(k)
    PROVE  /\ draft'.stage = draft.stage \/ draft'.stage \notin Signed
           /\ UNCHANGED signed
<1>1. draft \in DraftRecords
    BY DEF TypeOK, DraftRecords, Signed
<1>2. k[2] \notin Signed /\ Following(k[2]) \notin Signed
    BY StagesUnsigned
<1>3. CASE JobDies(k) \/ Chain(k) \/ Fail(k)
    BY <1>1, <1>3 DEF JobDies, Chain, Fail, row, sign, publish, DraftRecords
<1>4. CASE Begin(k)
    BY <1>1, <1>2, <1>4 DEF Begin, sign, publish, DraftRecords
<1>5. CASE Skip(k) \/ Load(k)
    BY <1>1, <1>5 DEF Skip, SkippedRow, Load, row, sign, publish, DraftRecords
<1>6. CASE Decide(k) \/ AgentFails(k) \/ FileRow(k)
    BY <1>1, <1>6 DEF Decide, AgentFails, FileRow, sign, publish, DraftRecords
<1>7. CASE Store(k)
    BY <1>1, <1>2, <1>7 DEF Store, Updated, sign, publish, DraftRecords
<1>8. CASE Advance(k)
    BY <1>1, <1>2, <1>8 DEF Advance, Advanced, sign, publish, DraftRecords
<1> QED
    BY <1>3, <1>4, <1>5, <1>6, <1>7, <1>8 DEF JobStep

(* A publication that is refused changes nothing of the draft.                *)
LEMMA PubLeaves ==
    ASSUME NEW p \in PubJobs, PubStep(p) \/ PubDies(p)
    PROVE  UNCHANGED <<draft, completed, requests, versions, signed, approve, job, texts, edited,
                       found, redone, cut>>
BY DEF PubStep, PubBegins, PubApplies, PubRefused, PubFails, PubDies, row, sign, history

LEMMA InitApproved == Unsigned /\ Init => Approved
<1> SUFFICES ASSUME Unsigned, Init PROVE Approved
    OBVIOUS
<1>1. draft.stage = Order[1]
    BY DEF Init
<1> QED
    BY <1>1, StagesUnsigned DEF Approved

LEMMA StepApproved == Unsigned /\ TypeOK /\ Known /\ Approved /\ [Next]_vars => Approved'
<1> SUFFICES ASSUME Unsigned, TypeOK, Known, Approved, [Next]_vars PROVE Approved'
    OBVIOUS
<1>1. draft \in DraftRecords
    BY DEF TypeOK, DraftRecords, Signed
<1>2. CASE (\E s \in Runnable : RunStage(s)) \/ ApproveReads \/ Edit
    <2>1. UNCHANGED signed /\ draft'.stage = draft.stage
        BY <1>1, <1>2 DEF RunStage, ApproveReads, Edit, row, sign, DraftRecords
    <2> QED
        BY <2>1 DEF Approved
<1>3. CASE ApproveWrites
    <2>1. CASE versions = approve.version
        BY <1>3, <2>1 DEF ApproveWrites, Approved
    <2>2. CASE versions # approve.version
        BY <1>3, <2>2 DEF ApproveWrites, Approved
    <2> QED
        BY <2>1, <2>2
<1>4. CASE Publish \/ RetryPublish
    BY <1>4 DEF Publish, RetryPublish, row, sign, Approved
<1>5. ASSUME NEW k \in Keys, JobStep(k) \/ JobDies(k) PROVE Approved'
    BY <1>5, JobUnsigned DEF Approved
<1>6. ASSUME NEW p \in PubJobs, PubStep(p) \/ PubDies(p) PROVE Approved'
    BY <1>6, PubLeaves DEF Approved
<1>7. CASE UNCHANGED vars
    BY <1>7 DEF vars, Approved
<1> QED
    BY <1>2, <1>3, <1>4, <1>5, <1>6, <1>7 DEF Next

-----------------------------------------------------------------------------
(* An operator who waits *)

(* What a job that is under way may count on.                                 *)
LEMMA JobKnows ==
    ASSUME TypeOK, Waited, NEW k \in Keys, job[k].pc # "idle"
    PROVE  /\ \A l \in Keys \ {k} : job[l].pc = "idle"
           /\ approve.pc = "idle"
           /\ job[k].pc # "queued" => draft.stage \notin Signed
           /\ job[k].pc = "thinking" => job[k].blocked = draft.blocked
           /\ redone = {}
           /\ job[k].pc \in {"agent", "thinking", "decided"} /\ ~job[k].force
                  => k[2] \notin completed
           /\ job[k].pc \in {"decided", "rowed"} /\ job[k].out.column = "blocked" /\ draft.blocked
                  => job[k].out.flag
           /\ found /\ ~cut =>
                  \/ draft.blocked
                  \/ job[k].pc = "rowed" /\ job[k].out.column = "blocked" /\ job[k].out.flag
           /\ ~cut => TRUE \notin requests
<1>1. \A l \in Keys \ {k} : job[l].pc = "idle"
    BY DEF Waited, Alone
<1>2. approve.pc = "idle"
    BY DEF Waited, Alone
<1>3. /\ job[k].pc # "queued" => draft.stage \notin Signed
      /\ job[k].pc = "thinking" => job[k].blocked = draft.blocked
    BY DEF Waited, Fresh
<1>4. /\ redone = {}
      /\ job[k].pc \in {"agent", "thinking", "decided"} /\ ~job[k].force => k[2] \notin completed
    BY DEF Waited, NotYetDone
<1>5. job[k].pc \in {"decided", "rowed"} /\ job[k].out.column = "blocked" /\ draft.blocked
          => job[k].out.flag
    BY DEF Waited, Flagged
<1>6. found /\ ~cut =>
          \/ draft.blocked
          \/ job[k].pc = "rowed" /\ job[k].out.column = "blocked" /\ job[k].out.flag
    BY <1>1 DEF Waited, Flagged
<1>7. ~cut => TRUE \notin requests
    BY DEF Waited, Flagged
<1> QED
    BY <1>1, <1>2, <1>3, <1>4, <1>5, <1>6, <1>7

(* What it has to keep, when it becomes r, or ends and leaves one other key   *)
(* in the queue.                                                              *)
LEMMA JobKeeps ==
    ASSUME TypeOK, Waited, NEW k \in Keys, job[k].pc # "idle",
           NEW m \in Keys, NEW r \in JobRecords,
           \A l \in Keys \ {m} : job'[l].pc = "idle",
           job'[m] = r,
           UNCHANGED <<signed, approve, edited>>,
           r.pc \notin {"idle", "queued"} => draft'.stage \notin Signed,
           draft'.stage \in Signed =>
               draft.stage \in Signed /\ draft'.text = draft.text /\ draft'.claims = draft.claims,
           r.pc = "thinking" => r.blocked = draft'.blocked,
           redone' = {},
           r.pc \in {"agent", "thinking", "decided"} /\ ~r.force => m[2] \notin completed',
           r.pc \in {"decided", "rowed"} /\ r.out.column = "blocked" /\ draft'.blocked => r.out.flag,
           found' /\ ~cut' =>
               \/ draft'.blocked
               \/ r.pc = "rowed" /\ r.out.column = "blocked" /\ r.out.flag,
           ~cut' => TRUE \notin requests'
    PROVE  Waited'
<1>1. approve.pc = "idle"
    BY JobKnows
<1>2. Alone'
    BY <1>1 DEF Alone
<1>3. Fresh'
    BY <1>1 DEF Fresh
<1>4. TextSeen'
    BY <1>1 DEF Waited, TextSeen, Seen
<1>5. Acknowledged'
    BY DEF Waited, Acknowledged
<1>6. NotYetDone'
    BY DEF NotYetDone
<1>7. Flagged'
    <2>1. \A l \in Keys : job'[l].pc \in {"decided", "rowed"} => l = m
        OBVIOUS
    <2> QED
        BY <2>1 DEF Flagged
<1> QED
    BY <1>2, <1>3, <1>4, <1>5, <1>6, <1>7 DEF Waited

LEMMA OwnKept ==
    ASSUME TypeOK, Waited, NEW k \in Keys, job[k].pc # "idle", NEW r \in JobRecords,
           job' = [job EXCEPT ![k] = r]
    PROVE  job'[k] = r /\ \A l \in Keys \ {k} : job'[l].pc = "idle"
<1>1. \A l \in Keys \ {k} : job[l].pc = "idle"
    BY JobKnows
<1> QED
    BY <1>1 DEF TypeOK

(* The record that a step with To or Ends leaves.                             *)
LEMMA ToRecord ==
    ASSUME TypeOK, NEW k \in Keys,
           NEW pc \in {"idle", "queued", "agent", "thinking", "decided", "rowed", "told", "chain",
                       "failed"},
           To(k, pc)
    PROVE  \E r \in JobRecords :
              /\ job' = [job EXCEPT ![k] = r]
              /\ r.pc = pc /\ r.force = job[k].force /\ r.blocked = job[k].blocked
              /\ r.out = job[k].out
<1> DEFINE r == [job[k] EXCEPT !.pc = pc]
<1>1. job[k] \in JobRecords
    BY DEF TypeOK
<1>2. /\ r \in JobRecords /\ r.pc = pc /\ r.force = job[k].force /\ r.blocked = job[k].blocked
      /\ r.out = job[k].out
    BY <1>1 DEF JobRecords
<1>3. job' = [job EXCEPT ![k] = r]
    BY DEF To
<1> HIDE DEF r
<1> QED
    BY <1>2, <1>3

LEMMA IdleKeeps ==
    ASSUME TypeOK, Waited, NEW k \in Keys, job[k].pc # "idle", NEW r \in JobRecords,
           r.pc \in {"idle", "queued"}, job' = [job EXCEPT ![k] = r],
           UNCHANGED <<signed, approve, edited, redone, requests, found>>,
           draft'.stage \in Signed =>
               draft.stage \in Signed /\ draft'.text = draft.text /\ draft'.claims = draft.claims,
           draft'.blocked = draft.blocked,
           ~cut' => ~cut /\ job[k].pc # "rowed"
    PROVE  Waited'
<1>1. job'[k] = r /\ \A l \in Keys \ {k} : job'[l].pc = "idle"
    BY OwnKept
<1>2. redone' = {} /\ (~cut' => TRUE \notin requests')
    BY JobKnows
<1>3. found' /\ ~cut' => draft'.blocked
    BY JobKnows
<1> QED
    BY <1>1, <1>2, <1>3, JobKeeps

LEMMA BeforeAgentWaited ==
    ASSUME Unsigned, TypeOK, Known, Waited, NEW k \in Keys, Begin(k) \/ Skip(k) \/ Load(k)
    PROVE  Waited'
<1>1. draft \in DraftRecords /\ job[k] \in JobRecords /\ IdleJob \in JobRecords
    BY ConstantsTyped DEF TypeOK, DraftRecords, Signed
<1>2. IdleJob.pc = "idle"
    BY DEF IdleJob
<1>3. CASE Begin(k)
    <2>1. job[k].pc = "queued"
        BY <1>3 DEF Begin, At
    <2>2. UNCHANGED <<signed, approve, edited, redone, requests, found, cut, completed>>
        BY <1>3 DEF Begin, sign, publish, history
    <2>3. CASE Already(k)
        <3>1. job' = [job EXCEPT ![k] = IdleJob] /\ UNCHANGED draft
            BY <1>3, <2>3 DEF Begin, Ends
        <3> QED
            BY <1>1, <1>2, <2>1, <2>2, <3>1, IdleKeeps
    <2>4. CASE ~Already(k)
        <3>1. draft' = [draft EXCEPT !.stage = k[2], !.status = "RUNNING"] /\ To(k, "agent")
            BY <1>3, <2>4 DEF Begin
        <3>2. draft'.stage \notin Signed /\ draft'.blocked = draft.blocked
            BY <1>1, <3>1, StagesUnsigned DEF DraftRecords
        <3>3. PICK r \in JobRecords :
                  job' = [job EXCEPT ![k] = r] /\ r.pc = "agent" /\ r.force = job[k].force
            BY <3>1, ToRecord
        <3>4. job'[k] = r /\ \A l \in Keys \ {k} : job'[l].pc = "idle"
            BY <2>1, <3>3, OwnKept
        <3>5. ~r.force => k[2] \notin completed'
            BY <2>2, <2>4, <3>3 DEF Already
        <3>6. redone' = {} /\ (~cut' => TRUE \notin requests')
            BY <2>1, <2>2, JobKnows
        <3>7. found' /\ ~cut' => draft'.blocked
            BY <2>1, <2>2, <3>2, JobKnows
        <3> QED
            BY <2>1, <2>2, <3>2, <3>3, <3>4, <3>5, <3>6, <3>7, JobKeeps
    <2> QED
        BY <2>3, <2>4
<1>4. CASE Skip(k)
    <2>1. job[k].pc = "agent" /\ job' = [job EXCEPT ![k] = IdleJob]
        BY <1>4 DEF Skip, At, Ends
    <2>2. UNCHANGED <<signed, approve, edited, redone, requests, found, cut>>
        BY <1>4 DEF Skip, sign, publish, history
    <2>3. draft'.stage = draft.stage /\ draft'.blocked = draft.blocked
        BY <1>1, <1>4 DEF Skip, SkippedRow, DraftRecords
    <2>4. draft.stage \notin Signed
        BY <2>1, JobKnows
    <2> QED
        BY <1>1, <1>2, <2>1, <2>2, <2>3, <2>4, IdleKeeps
<1>5. CASE Load(k)
    <2> DEFINE r == [job[k] EXCEPT !.pc = "thinking", !.empty = (draft.text = 0),
                                   !.blocked = draft.blocked]
    <2>1. job[k].pc = "agent" /\ job' = [job EXCEPT ![k] = r]
        BY <1>5 DEF Load, At
    <2>2. draft.blocked \in BOOLEAN
        BY DEF TypeOK
    <2>3. /\ r \in JobRecords /\ r.pc = "thinking" /\ r.force = job[k].force
          /\ r.blocked = draft.blocked
        BY <1>1, <2>2 DEF JobRecords
    <2>4. UNCHANGED <<draft, signed, approve, edited, redone, requests, found, cut,
                      completed>>
        BY <1>5 DEF Load, row, sign, publish, history
    <2> HIDE DEF r
    <2>5. job'[k] = r /\ \A l \in Keys \ {k} : job'[l].pc = "idle"
        BY <2>1, <2>3, OwnKept
    <2>6. /\ draft.stage \notin Signed /\ redone' = {} /\ (~cut' => TRUE \notin requests')
          /\ (~r.force => k[2] \notin completed')
          /\ (found' /\ ~cut' => draft'.blocked)
        BY <2>1, <2>3, <2>4, JobKnows
    <2> QED
        BY <2>1, <2>3, <2>4, <2>5, <2>6, JobKeeps
<1> QED
    BY <1>3, <1>4, <1>5

(* The gate: a column of flags keeps those that were read, and the last stage *)
(* only lets a draft without flags through.                                   *)
LEMMA OutcomesKeepFlags ==
    ASSUME NEW r \in JobRecords, NEW s, NEW o \in OutcomesOf(s, r)
    PROVE  /\ o.column = "blocked" /\ r.blocked => o.flag
           /\ s = "READY_FOR_APPROVAL" /\ ~o.hold => ~r.blocked
<1>1. /\ NoOutcome.column = "none"
      /\ \A hold \in BOOLEAN, flag \in BOOLEAN, column \in {"none", "claims", "blocked"} :
             /\ Verdict(hold, column, flag).column = column
             /\ Verdict(hold, column, flag).flag = flag
             /\ Verdict(hold, column, flag).hold = hold
    BY DEF Verdict, NoOutcome
<1>2. r.empty \in BOOLEAN /\ r.blocked \in BOOLEAN
    BY DEF JobRecords
<1>3. CASE s = "CANNIBALISATION_CHECK"
    BY <1>1, <1>2, <1>3 DEF OutcomesOf, Warned
<1>4. CASE s = "DRAFT"
    BY <1>4 DEF OutcomesOf, Drafted, NoOutcome
<1>5. CASE s = "FACT_CHECK"
    BY <1>1, <1>5 DEF OutcomesOf, FactChecked
<1>6. CASE s = "BRAND_REVIEW"
    BY <1>1, <1>2, <1>6 DEF OutcomesOf, BrandReviewed, Warned
<1>7. CASE s = "QUALITY_REVIEW"
    BY <1>1, <1>2, <1>7 DEF OutcomesOf, QualityReviewed
<1>8. CASE s = "READY_FOR_APPROVAL"
    BY <1>1, <1>2, <1>8 DEF OutcomesOf, Gated
<1>9. CASE s \notin {"CANNIBALISATION_CHECK", "DRAFT", "FACT_CHECK", "BRAND_REVIEW",
                     "QUALITY_REVIEW", "READY_FOR_APPROVAL"}
    BY <1>1, <1>9 DEF OutcomesOf
<1> QED
    BY <1>3, <1>4, <1>5, <1>6, <1>7, <1>8, <1>9

LEMMA DecideWaited ==
    ASSUME TypeOK, Known, Waited, NEW k \in Keys, Decide(k)
    PROVE  Waited'
<1>1. job[k] \in JobRecords /\ job[k].pc = "thinking"
    BY DEF TypeOK, Decide, At
<1>2. PICK o \in OutcomesOf(k[2], job[k]) :
          /\ job' = [job EXCEPT ![k] = [Taken(job[k]) EXCEPT !.pc = "decided", !.out = o]]
          /\ requests' = IF k[2] = "READY_FOR_APPROVAL" /\ ~o.hold
                         THEN requests \cup {found} ELSE requests
    BY DEF Decide
<1>3. o \in Outcomes
    BY <1>1, OutcomesTyped DEF Decide
<1> DEFINE r == [Taken(job[k]) EXCEPT !.pc = "decided", !.out = o]
<1>4. r \in JobRecords /\ r.pc = "decided" /\ r.out = o /\ r.force = job[k].force
    BY <1>1, <1>3, ConstantsTyped DEF Taken, IdleJob, JobRecords
<1>5. job' = [job EXCEPT ![k] = r]
    BY <1>2
<1> HIDE DEF r
<1>6. job'[k] = r /\ \A l \in Keys \ {k} : job'[l].pc = "idle"
    BY <1>1, <1>4, <1>5, OwnKept
<1>7. UNCHANGED <<draft, completed, signed, approve, edited, found, redone, cut>>
    BY DEF Decide, publish, history
<1>8. /\ draft.stage \notin Signed /\ redone' = {} /\ job[k].blocked = draft.blocked
      /\ (~r.force => k[2] \notin completed')
      /\ (found' /\ ~cut' => draft'.blocked)
      /\ (~cut => TRUE \notin requests)
    BY <1>1, <1>4, <1>7, JobKnows
<1>9. o.column = "blocked" /\ draft.blocked => o.flag
    BY <1>1, <1>8, OutcomesKeepFlags
<1>10. ~cut' => TRUE \notin requests'
    <2>1. CASE k[2] = "READY_FOR_APPROVAL" /\ ~o.hold
        <3>1. ~draft.blocked
            BY <1>1, <1>8, <2>1, OutcomesKeepFlags
        <3>2. ~cut => ~found
            BY <1>7, <1>8, <3>1
        <3> QED
            BY <1>2, <1>7, <1>8, <2>1, <3>2
    <2>2. CASE ~(k[2] = "READY_FOR_APPROVAL" /\ ~o.hold)
        BY <1>2, <1>7, <1>8, <2>2
    <2> QED
        BY <2>1, <2>2
<1> QED
    BY <1>1, <1>4, <1>6, <1>7, <1>8, <1>9, <1>10, JobKeeps

LEMMA AgentFailsWaited ==
    ASSUME TypeOK, Known, Waited, NEW k \in Keys, AgentFails(k)
    PROVE  Waited'
<1>1. draft \in DraftRecords /\ job[k] \in JobRecords /\ job[k].pc = "thinking"
    BY DEF TypeOK, DraftRecords, Signed, AgentFails, At
<1> DEFINE r == [Taken(job[k]) EXCEPT !.pc = "failed"]
<1>2. r \in JobRecords /\ r.pc = "failed"
    BY <1>1, ConstantsTyped DEF Taken, IdleJob, JobRecords
<1>3. job' = [job EXCEPT ![k] = r]
    BY DEF AgentFails
<1> HIDE DEF r
<1>4. job'[k] = r /\ \A l \in Keys \ {k} : job'[l].pc = "idle"
    BY <1>1, <1>2, <1>3, OwnKept
<1>5. UNCHANGED <<signed, approve, edited, found, redone, cut, requests>>
    BY DEF AgentFails, sign, publish, history
<1>6. draft'.stage = draft.stage /\ draft'.blocked = draft.blocked
    BY <1>1 DEF AgentFails, DraftRecords
<1>7. /\ draft.stage \notin Signed /\ redone' = {}
      /\ (found' /\ ~cut' => draft'.blocked)
      /\ (~cut' => TRUE \notin requests')
    BY <1>1, <1>5, <1>6, JobKnows
<1> QED
    BY <1>1, <1>2, <1>4, <1>5, <1>6, <1>7, JobKeeps

LEMMA FileRowWaited ==
    ASSUME TypeOK, Known, Waited, NEW k \in Keys, FileRow(k)
    PROVE  Waited'
<1>1. job[k] \in JobRecords /\ job[k].pc = "decided" /\ To(k, "rowed")
    BY DEF TypeOK, FileRow, At
<1>2. PICK r \in JobRecords :
          job' = [job EXCEPT ![k] = r] /\ r.pc = "rowed" /\ r.out = job[k].out
    BY <1>1, ToRecord
<1>3. job'[k] = r /\ \A l \in Keys \ {k} : job'[l].pc = "idle"
    BY <1>1, <1>2, OwnKept
<1>4. UNCHANGED <<draft, requests, signed, approve, edited, cut>>
    BY DEF FileRow, sign, publish
<1>5. redone' = {}
    BY <1>1, JobKnows DEF FileRow
<1>6. found' = (found \/ (job[k].out.column = "blocked" /\ job[k].out.flag))
    BY DEF FileRow
<1>7. draft.stage \notin Signed /\ (~cut' => TRUE \notin requests')
    BY <1>1, <1>4, JobKnows
<1>8. found' /\ ~cut' => draft'.blocked \/ (r.out.column = "blocked" /\ r.out.flag)
    BY <1>1, <1>2, <1>4, <1>6, JobKnows
<1>9. r.out.column = "blocked" /\ draft'.blocked => r.out.flag
    BY <1>1, <1>2, <1>4, JobKnows
<1> QED
    BY <1>1, <1>2, <1>3, <1>4, <1>5, <1>7, <1>8, <1>9, JobKeeps

LEMMA StoreWaited ==
    ASSUME Unsigned, TypeOK, Known, Waited, NEW k \in Keys, Store(k)
    PROVE  Waited'
<1>1. draft \in DraftRecords /\ job[k] \in JobRecords /\ job[k].pc = "rowed"
    BY DEF TypeOK, DraftRecords, Signed, Store, At
<1> DEFINE r == [Taken(job[k]) EXCEPT !.pc = "told"]
<1>2. r \in JobRecords /\ r.pc = "told"
    BY <1>1, ConstantsTyped DEF Taken, IdleJob, JobRecords
<1>3. job' = [job EXCEPT ![k] = r]
    BY DEF Store
<1> HIDE DEF r
<1>4. job'[k] = r /\ \A l \in Keys \ {k} : job'[l].pc = "idle"
    BY <1>1, <1>2, <1>3, OwnKept
<1>5. UNCHANGED <<signed, approve, edited, found, redone, cut, requests>>
    BY DEF Store, sign, publish, history
<1>6. /\ draft.stage \notin Signed /\ redone' = {} /\ (~cut' => TRUE \notin requests')
      /\ (job[k].out.column = "blocked" /\ draft.blocked => job[k].out.flag)
      /\ (found /\ ~cut => draft.blocked \/ (job[k].out.column = "blocked" /\ job[k].out.flag))
    BY <1>1, <1>5, JobKnows
<1>7. draft'.blocked = IF job[k].out.column = "blocked" THEN job[k].out.flag ELSE draft.blocked
    BY <1>1 DEF Store, Updated, DraftRecords
<1>8. draft'.stage \notin Signed
    BY <1>1, <1>6, StagesUnsigned DEF Store, Updated, DraftRecords
<1>9. found' /\ ~cut' => draft'.blocked
    BY <1>5, <1>6, <1>7
<1> QED
    BY <1>1, <1>2, <1>4, <1>5, <1>6, <1>8, <1>9, JobKeeps

LEMMA AdvanceWaited ==
    ASSUME Unsigned, TypeOK, Known, Waited, NEW k \in Keys, Advance(k)
    PROVE  Waited'
<1>1. draft \in DraftRecords /\ job[k] \in JobRecords /\ job[k].pc = "told"
    BY DEF TypeOK, DraftRecords, Signed, Advance, At
<1>2. UNCHANGED <<signed, approve, edited, found, redone, cut, requests>>
    BY DEF Advance, sign, publish, history
<1>3. draft'.stage \notin Signed /\ draft'.blocked = draft.blocked
    BY <1>1, StagesUnsigned DEF Advance, Advanced, DraftRecords
<1>4. PICK r \in JobRecords : job' = [job EXCEPT ![k] = r] /\ r.pc \in {"idle", "chain"}
    <2>1. CASE Following(k[2]) = "none"
        <3>1. job' = [job EXCEPT ![k] = IdleJob]
            BY <2>1 DEF Advance, Ends
        <3>2. IdleJob \in JobRecords /\ IdleJob.pc = "idle"
            BY ConstantsTyped DEF IdleJob
        <3> QED
            BY <3>1, <3>2
    <2>2. CASE Following(k[2]) # "none"
        <3>1. To(k, "chain")
            BY <2>2 DEF Advance
        <3> QED
            BY <3>1, ToRecord
    <2> QED
        BY <2>1, <2>2
<1>5. job'[k] = r /\ \A l \in Keys \ {k} : job'[l].pc = "idle"
    BY <1>1, <1>4, OwnKept
<1>6. /\ redone' = {} /\ (~cut' => TRUE \notin requests') /\ (found' /\ ~cut' => draft'.blocked)
    BY <1>1, <1>2, <1>3, JobKnows
<1> QED
    BY <1>1, <1>2, <1>3, <1>4, <1>5, <1>6, JobKeeps

LEMMA ChainWaited ==
    ASSUME TypeOK, Known, Waited, NEW k \in Keys, Chain(k)
    PROVE  Waited'
<1> DEFINE m == <<"chain", Following(k[2])>>
<1>1. job[k].pc = "chain" /\ m \in Keys
    BY DEF Chain, At, Known, Keys
<1>2. job' = [Enqueued(m, FALSE) EXCEPT ![k] = IdleJob]
    BY DEF Chain
<1>3. /\ Enqueued(m, FALSE) \in [Keys -> JobRecords]
      /\ \A l \in Keys : Enqueued(m, FALSE)[l] = job[l] \/ Enqueued(m, FALSE)[l].pc = "queued"
    BY <1>1, EnqueuedTyped
<1>4. \A l \in Keys \ {m} : Enqueued(m, FALSE)[l] = job[l]
    BY <1>1 DEF Enqueued, TypeOK
<1>5. \A l \in Keys \ {k} : job[l].pc = "idle"
    BY <1>1, JobKnows
<1>6. IdleJob \in JobRecords /\ IdleJob.pc = "idle"
    BY ConstantsTyped DEF IdleJob
<1> HIDE DEF m
<1>7. \A l \in Keys \ {m} : job'[l].pc = "idle"
    BY <1>2, <1>3, <1>4, <1>5, <1>6
<1>8. job'[m] \in JobRecords /\ job'[m].pc \in {"idle", "queued"}
    <2>1. CASE m = k
        BY <1>1, <1>2, <1>3, <1>6, <2>1
    <2>2. CASE m # k
        <3>1. job[m].pc = "idle" /\ job'[m] = Enqueued(m, FALSE)[m]
            BY <1>1, <1>2, <1>3, <1>5, <2>2
        <3>2. job'[m].pc \in {"idle", "queued"}
            BY <1>1, <1>3, <3>1
        <3> QED
            BY <1>1, <1>3, <3>1, <3>2
    <2> QED
        BY <2>1, <2>2
<1>9. UNCHANGED <<draft, signed, approve, edited, found, redone, cut, requests>>
    BY DEF Chain, row, sign, publish, history
<1>10. /\ redone' = {} /\ (~cut' => TRUE \notin requests') /\ (found' /\ ~cut' => draft'.blocked)
    BY <1>1, <1>9, JobKnows
<1> QED
    BY <1>1, <1>7, <1>8, <1>9, <1>10, JobKeeps

LEMMA FailWaited ==
    ASSUME TypeOK, Known, Waited, NEW k \in Keys, Fail(k) \/ JobDies(k)
    PROVE  Waited'
<1>1. draft \in DraftRecords /\ job[k] \in JobRecords
    BY DEF TypeOK, DraftRecords, Signed
<1>2. CASE Fail(k)
    <2>1. PICK retryable \in BOOLEAN :
              job' = [job EXCEPT ![k] = IF retryable THEN Again(job[k], IdleJob) ELSE IdleJob]
        BY <1>2 DEF Fail
    <2>2. PICK r \in JobRecords : job' = [job EXCEPT ![k] = r] /\ r.pc \in {"idle", "queued"}
        <3>1. IdleJob \in JobRecords /\ IdleJob.pc = "idle"
            BY ConstantsTyped DEF IdleJob
        <3>2. /\ Again(job[k], IdleJob) \in JobRecords
              /\ Again(job[k], IdleJob).pc \in {"idle", "queued"}
            BY <1>1, RequeuedTyped
        <3> QED
            BY <2>1, <3>1, <3>2
    <2>3. UNCHANGED <<signed, approve, edited, redone, requests, found, cut>>
        BY <1>2 DEF Fail, sign, publish, history
    <2>4. job[k].pc = "failed" /\ draft'.stage = draft.stage /\ draft'.blocked = draft.blocked
        BY <1>1, <1>2 DEF Fail, At, DraftRecords
    <2>5. draft.stage \notin Signed
        BY <2>4, JobKnows
    <2> QED
        BY <2>2, <2>3, <2>4, <2>5, IdleKeeps
<1>3. CASE JobDies(k)
    <2> DEFINE r == [Taken(job[k]) EXCEPT !.pc = "queued"]
    <2>1. r \in JobRecords /\ r.pc = "queued"
        BY <1>1, ConstantsTyped DEF Taken, IdleJob, JobRecords
    <2>2. job' = [job EXCEPT ![k] = r] /\ job[k].pc # "idle"
        BY <1>3 DEF JobDies
    <2> HIDE DEF r
    <2>3. UNCHANGED <<draft, signed, approve, edited, redone, requests, found>>
        BY <1>3 DEF JobDies, row, sign, publish
    <2>4. ~cut' => ~cut /\ job[k].pc # "rowed"
        BY <1>3 DEF JobDies, At
    <2> QED
        BY <2>1, <2>2, <2>3, <2>4, IdleKeeps
<1> QED
    BY <1>2, <1>3

LEMMA JobWaited ==
    ASSUME Unsigned, TypeOK, Known, Waited, NEW k \in Keys, JobStep(k) \/ JobDies(k)
    PROVE  Waited'
BY BeforeAgentWaited, DecideWaited, AgentFailsWaited, FileRowWaited, StoreWaited, AdvanceWaited,
   ChainWaited, FailWaited DEF JobStep

(* What holds when nothing is under way.                                      *)
LEMMA QuietKnows ==
    ASSUME Waited, Quiet
    PROVE  /\ redone = {} /\ (~cut => TRUE \notin requests) /\ (found /\ ~cut => draft.blocked)
           /\ draft.stage \in Signed => draft.text \in Seen
           /\ Acknowledged
<1>1. \A k \in Keys : job[k].pc = "idle"
    BY DEF Quiet
<1> QED
    BY <1>1 DEF Waited, TextSeen, NotYetDone, Flagged

LEMMA RunWaited ==
    ASSUME TypeOK, Waited, Quiet, NEW s \in Runnable, RunStage(s)
    PROVE  Waited'
<1> DEFINE k == <<"manual", s>>
<1>1. k \in Keys /\ job \in [Keys -> JobRecords]
    BY DEF Keys, TypeOK
<1>2. \A l \in Keys : job[l].pc = "idle"
    BY DEF Quiet
<1>3. \E force \in BOOLEAN : job' = Enqueued(k, force)
    BY DEF RunStage
<1> HIDE DEF k
<1>4. PICK force \in BOOLEAN : job' = [job EXCEPT ![k].pc = "queued", ![k].force = force]
    BY <1>1, <1>2, <1>3 DEF Enqueued
<1>5. job'[k].pc = "queued" /\ \A l \in Keys \ {k} : job'[l].pc = "idle"
    BY <1>1, <1>2, <1>4 DEF JobRecords
<1>6. UNCHANGED <<draft, completed, requests, signed, approve, edited, found, redone,
                  cut>>
    BY DEF RunStage, row, sign, publish, history
<1>7. approve.pc = "idle"
    BY DEF Quiet
<1>8. Alone'
    BY <1>5, <1>6, <1>7 DEF Alone
<1>9. Fresh'
    BY <1>5, <1>6, <1>7 DEF Fresh
<1>10. TextSeen' /\ Acknowledged'
    BY <1>6 DEF Waited, TextSeen, Seen, Acknowledged
<1>11. NotYetDone'
    BY <1>5, <1>6, QuietKnows DEF NotYetDone
<1>12. Flagged'
    BY <1>5, <1>6, QuietKnows DEF Flagged
<1> QED
    BY <1>8, <1>9, <1>10, <1>11, <1>12 DEF Waited

(* A step that leaves the jobs idle.                                          *)
LEMMA IdleJobsKeep ==
    ASSUME Waited, \A k \in Keys : job[k].pc = "idle",
           UNCHANGED <<job, completed, requests, found, redone, cut>>,
           draft'.blocked = draft.blocked,
           approve'.pc = "write" => approve'.text = draft'.text /\ approve'.claims = draft'.claims
    PROVE  Alone' /\ Fresh' /\ NotYetDone' /\ Flagged'
<1>1. Alone'
    BY DEF Alone
<1>2. Fresh'
    BY DEF Fresh
<1>3. NotYetDone'
    BY DEF Waited, NotYetDone
<1>4. Flagged'
    BY DEF Waited, Flagged
<1> QED
    BY <1>1, <1>2, <1>3, <1>4

LEMMA EditWaited ==
    ASSUME TypeOK, Waited, Quiet, Edit
    PROVE  Waited'
<1>1. draft \in DraftRecords /\ (\A k \in Keys : job[k].pc = "idle")
      /\ approve.pc = "idle"
    BY DEF TypeOK, DraftRecords, Signed, Quiet
<1>2. UNCHANGED <<job, completed, requests, found, redone, cut, approve, signed>>
    BY DEF Edit, publish
<1>3. /\ draft'.blocked = draft.blocked /\ draft'.stage = draft.stage
      /\ draft'.claims = draft.claims /\ draft'.text = texts + 1
      /\ edited' = edited \cup {texts + 1}
    BY <1>1 DEF Edit, DraftRecords
<1>4. Alone' /\ Fresh' /\ NotYetDone' /\ Flagged'
    BY <1>1, <1>2, <1>3, IdleJobsKeep
<1>5. TextSeen'
    BY <1>1, <1>2, <1>3, QuietKnows DEF TextSeen, Seen
<1>6. Acknowledged'
    BY <1>2, <1>3 DEF Waited, Acknowledged
<1> QED
    BY <1>4, <1>5, <1>6 DEF Waited

LEMMA ApproveWaited ==
    ASSUME TypeOK, Waited, (ApproveReads /\ Quiet) \/ ApproveWrites
    PROVE  Waited'
<1>1. CASE ApproveReads /\ Quiet
    <2>1. \A k \in Keys : job[k].pc = "idle"
        BY <1>1 DEF Quiet
    <2>2. UNCHANGED <<draft, job, completed, requests, found, redone, cut, signed, edited>>
        BY <1>1 DEF ApproveReads, row, publish, history
    <2>3. approve'.text = draft.text /\ approve'.claims = draft.claims
        BY <1>1 DEF ApproveReads, Unverified
    <2>4. Alone' /\ Fresh' /\ NotYetDone' /\ Flagged'
        BY <2>1, <2>2, <2>3, IdleJobsKeep
    <2>5. TextSeen' /\ Acknowledged'
        BY <2>2 DEF Waited, TextSeen, Seen, Acknowledged
    <2> QED
        BY <2>4, <2>5 DEF Waited
<1>2. CASE ApproveWrites
    <2>1. approve.pc = "write" /\ approve'.pc = "idle"
        BY <1>2 DEF ApproveWrites, IdleApprove
    <2>2. \A k \in Keys : job[k].pc = "idle"
        BY <2>1 DEF Waited, Alone
    <2>3. UNCHANGED <<job, completed, requests, found, redone, cut, edited>>
        BY <1>2 DEF ApproveWrites, publish, history
    <2>4. draft \in DraftRecords /\ approve.text = draft.text /\ approve.claims = draft.claims
        BY <2>1 DEF TypeOK, DraftRecords, Signed, Waited, Fresh
    <2>5. CASE versions = approve.version
        <3>1. /\ draft'.blocked = draft.blocked /\ draft'.text = draft.text
              /\ draft'.claims = draft.claims
            BY <1>2, <2>4, <2>5 DEF ApproveWrites, DraftRecords
        <3>2. /\ signed \subseteq signed'
              /\ \E v \in signed' : v.text = draft.text /\ v.claims = draft.claims
            <4> DEFINE v == [text |-> approve.text, claims |-> approve.claims]
            <4>1. v.text = draft.text /\ v.claims = draft.claims
                BY <2>4
            <4>2. signed' = signed \cup {v}
                BY <1>2, <2>5 DEF ApproveWrites
            <4> HIDE DEF v
            <4> QED
                BY <4>1, <4>2
        <3>3. Alone' /\ Fresh' /\ NotYetDone' /\ Flagged'
            BY <2>1, <2>2, <2>3, <3>1, IdleJobsKeep
        <3>4. draft.text \in Seen' /\ Seen \subseteq Seen'
            BY <2>3, <3>2 DEF Seen
        <3>5. TextSeen'
            BY <2>2, <2>3, <3>1, <3>4 DEF Waited, TextSeen
        <3>6. Acknowledged'
            BY <3>1, <3>2 DEF Acknowledged
        <3> QED
            BY <3>3, <3>5, <3>6 DEF Waited
    <2>6. CASE versions # approve.version
        <3>1. UNCHANGED <<draft, signed>>
            BY <1>2, <2>6 DEF ApproveWrites
        <3>2. Alone' /\ Fresh' /\ NotYetDone' /\ Flagged'
            BY <2>1, <2>2, <2>3, <3>1, IdleJobsKeep
        <3>3. TextSeen' /\ Acknowledged'
            BY <2>3, <3>1 DEF Waited, TextSeen, Seen, Acknowledged
        <3> QED
            BY <3>2, <3>3 DEF Waited
    <2> QED
        BY <2>5, <2>6
<1> QED
    BY <1>1, <1>2

LEMMA SameWaited ==
    ASSUME Waited,
           UNCHANGED <<draft, completed, requests, signed, approve, job, edited, found, redone, cut>>
    PROVE  Waited'
<1>1. Alone'
    BY DEF Waited, Alone
<1>2. Fresh'
    BY DEF Waited, Fresh
<1>3. TextSeen' /\ Acknowledged'
    BY DEF Waited, TextSeen, Seen, Acknowledged
<1>4. NotYetDone' /\ Flagged'
    BY DEF Waited, NotYetDone, Flagged
<1> QED
    BY <1>1, <1>2, <1>3, <1>4 DEF Waited

LEMMA InitCareful == Init => Careful
<1> SUFFICES ASSUME Init PROVE Waited
    BY DEF Careful
<1>1. (\A k \in Keys : job[k].pc = "idle") /\ approve.pc = "idle"
    BY DEF Init, IdleJob, IdleApprove
<1>2. draft.stage \notin Signed
    BY OrderTyped, ConstantsTyped DEF Init
<1>3. redone = {} /\ found = FALSE /\ requests = {}
    BY DEF Init
<1> QED
    BY <1>1, <1>2, <1>3 DEF Waited, Alone, Fresh, TextSeen, Acknowledged, NotYetDone, Flagged

(* Nobody stops waiting in the middle.                                        *)
LEMMA CarefulKept == TypeOK /\ [Next]_vars => left'.careful = left.careful
<1> SUFFICES ASSUME TypeOK, [Next]_vars PROVE left'.careful = left.careful
    OBVIOUS
<1>1. left \in ScaleRecords
    BY DEF TypeOK
<1>2. ASSUME NEW what \in {"runs", "edits", "approvals", "publishes", "failures", "missing",
                          "deaths"},
             Spend(what)
      PROVE  left'.careful = left.careful
    BY <1>1, <1>2, SpendTyped
<1>3. CASE \/ \E s \in Runnable : RunStage(s)
           \/ Edit \/ ApproveReads \/ ApproveWrites \/ Publish \/ RetryPublish
    BY <1>2, <1>3 DEF RunStage, Edit, ApproveReads, ApproveWrites, Publish, RetryPublish, Operator
<1>4. ASSUME NEW k \in Keys, JobStep(k) \/ JobDies(k) PROVE left'.careful = left.careful
    BY <1>2, <1>4 DEF JobStep, Begin, Skip, Load, Decide, AgentFails, FileRow, Store, Advance, Chain,
                      Fail, JobDies
<1>5. ASSUME NEW p \in PubJobs, PubStep(p) \/ PubDies(p) PROVE left'.careful = left.careful
    BY <1>2, <1>5 DEF PubStep, PubBegins, PubApplies, PubRefused, PubFails, PubDies
<1>6. CASE UNCHANGED vars
    BY <1>6 DEF vars
<1> QED
    BY <1>3, <1>4, <1>5, <1>6 DEF Next

LEMMA StepCareful == Unsigned /\ TypeOK /\ Known /\ Careful /\ [Next]_vars => Careful'
<1> SUFFICES ASSUME Unsigned, TypeOK, Known, Waited, left.careful, [Next]_vars PROVE Waited'
    BY CarefulKept DEF Careful
<1>1. ASSUME NEW s \in Runnable, RunStage(s) PROVE Waited'
    BY <1>1, RunWaited DEF RunStage, Operator
<1>2. CASE Edit
    BY <1>2, EditWaited DEF Edit, Operator
<1>3. CASE ApproveReads \/ ApproveWrites
    BY <1>3, ApproveWaited DEF ApproveReads, Operator
<1>4. CASE Publish \/ RetryPublish
    BY <1>4, SameWaited DEF Publish, RetryPublish, row, sign, history
<1>5. ASSUME NEW k \in Keys, JobStep(k) \/ JobDies(k) PROVE Waited'
    BY <1>5, JobWaited
<1>6. ASSUME NEW p \in PubJobs, PubStep(p) \/ PubDies(p) PROVE Waited'
    BY <1>6, PubLeaves, SameWaited
<1>7. CASE UNCHANGED vars
    BY <1>7, SameWaited DEF vars
<1> QED
    BY <1>1, <1>2, <1>3, <1>4, <1>5, <1>6, <1>7 DEF Next

LEMMA Invariance == Spec /\ Unsigned => [](IInv /\ Unsigned)
<1>1. Unsigned /\ Init => IInv
    BY InitTyped, InitApproved, InitCareful DEF IInv
<1>2. Unsigned /\ IInv /\ [Next]_vars => IInv'
    BY StepTyped, StepApproved, StepCareful DEF IInv
<1>3. Unsigned => Unsigned'
    BY DEF Unsigned, Signed
<1> QED
    BY <1>1, <1>2, <1>3, PTL DEF Spec

(* Whatever stages run meanwhile, no draft is APPROVED that nobody signed     *)
(* off; and under an operator who waits an approved draft has a text that was *)
(* signed off or that the operator wrote.  Both rest on nobody running        *)
(* "APPROVED" or "PUBLISHED" as a stage, which the route would take.          *)
THEOREM NothingUnseen == Spec /\ Unsigned => []ApprovedIsSeen
<1>1. IInv => ApprovedIsSeen
    BY DEF IInv, Approved, Careful, Waited, TextSeen, Seen, Signed, ApprovedIsSeen
<1> QED
    BY <1>1, Invariance, PTL

(* Under such an operator a draft with claims the fact check could not verify *)
(* is not approved until some approval acknowledged them, whatever the edits  *)
(* and reviews between the approval's reads and its transaction.              *)
THEOREM ClaimsAreSeen == Spec /\ Unsigned => []ClaimsSeen
<1>1. IInv => ClaimsSeen
    BY DEF IInv, Careful, Waited, Acknowledged, Signed, ClaimsSeen
<1> QED
    BY <1>1, Invariance, PTL

(* Under such an operator approval is never asked for a draft that a review   *)
(* flagged, however often its stages are repeated and jobs die in between.    *)
THEOREM FlaggedIsHeld == Spec /\ Unsigned => []GateHolds
<1>1. IInv => GateHolds
    BY DEF IInv, Careful, Waited, Flagged, GateHolds
<1> QED
    BY <1>1, Invariance, PTL

(* Under such an operator no stage is done twice unless it is forced: neither *)
(* a retry nor a stalled job nor a second press of the button repeats it.     *)
THEOREM OnceIsEnough == Spec /\ Unsigned => []DoneOnce
<1>1. IInv => DoneOnce
    BY DEF IInv, Careful, Waited, NotYetDone, DoneOnce
<1> QED
    BY <1>1, Invariance, PTL
=============================================================================

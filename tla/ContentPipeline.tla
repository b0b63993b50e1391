--------------------------- MODULE ContentPipeline ---------------------------
(* One content draft on its way to the site: the jobs content.pipeline-stage  *)
(* and content.publish (apps/worker/src/processors/content.ts), the agent     *)
(* that runs a stage (packages/agents/src/agents/content-writer-agent.ts) and *)
(* the routes under apps/web/src/app/api/content/drafts by which an operator  *)
(* runs a stage, edits, approves and publishes.  Job and agent both keep      *)
(* ContentStageRun rows and both move the draft; each reads it once, works    *)
(* for minutes, and writes by id.                                             *)
(*                                                                            *)
(* A text is a number, 0 the empty one.  A publication is refused, so that    *)
(* what the handler does after a change that was applied is not here: only    *)
(* that gives a draft its externalId, without which applyChange refuses it.   *)
EXTENDS Integers, Sequences, FiniteSets

CONSTANTS
    Order,      \* the pipeline, some of its stages left out
    Runnable,   \* the stages the run route is called with
    Attempts,   \* attempts of a job
    MaxTexts,   \* texts ever written
    Scales      \* what may happen in one behaviour

Stages == {Order[i] : i \in DOMAIN Order}

(* How often the operator runs a stage, edits, approves and publishes, how    *)
(* often a model call or a statement fails, a provider or an adapter is       *)
(* missing, a process dies; and whether the operator waits until nothing is   *)
(* under way.                                                                 *)
ScaleRecords ==
    [runs : Nat, edits : Nat, approvals : Nat, publishes : Nat, failures : Nat,
     missing : Nat, deaths : Nat, careful : BOOLEAN]

ASSUME PipelineAssumption ==
    /\ Order \in Seq(STRING) /\ Len(Order) > 0
    /\ Order[Len(Order)] = "READY_FOR_APPROVAL"
    /\ \A i, j \in DOMAIN Order : Order[i] = Order[j] => i = j
    /\ Stages \cap {"APPROVED", "PUBLISHED", "REJECTED", "none"} = {}
    /\ Runnable \subseteq Stages \cup {"APPROVED", "PUBLISHED", "REJECTED"}
    /\ Attempts \in Nat \ {0}
    /\ MaxTexts \in Nat
    /\ Scales \subseteq ScaleRecords

VARIABLES
    draft,      \* the ContentDraft row
    completed,  \* stages with a COMPLETED ContentStageRun row
    requests,   \* CONTENT_DRAFT approvals: had a review found a blocking flag by then
    versions,   \* the highest ContentVersion
    signed,     \* the versions an approval made: its text, unverified claims acknowledged
    job,        \* the content.pipeline-stage job of each dedupe key
    pub,        \* the content.publish job of the dedupe key, and one that retries it
    stranded,   \* PUBLISH_CONTENT actions that they filed and left EXECUTING
    approve,    \* where the approve route is
    texts,      \* texts written so far
    left,       \* what of the scale may still happen
    edited,     \* history: texts the operator wrote
    found,      \* history: a review found a blocking flag
    redone,     \* history: stages done again without force
    cut         \* history: an attempt died between its row and its draft

vars == <<draft, completed, requests, versions, signed, job, pub, stranded, approve, texts, left,
          edited, found, redone, cut>>
row     == <<draft, completed, requests>>
sign    == <<versions, signed, approve>>
publish == <<pub, stranded>>
history == <<edited, found, redone, cut>>

(* A chained stage and one that the operator runs have different dedupe keys. *)
Keys == {"chain", "manual"} \X (Stages \cup Runnable)

Outcomes ==
    [hold : BOOLEAN, column : {"none", "text", "claims", "blocked"}, text : 0..MaxTexts,
     flag : BOOLEAN]
NoOutcome == [hold |-> FALSE, column |-> "none", text |-> 0, flag |-> FALSE]

JobRecords ==
    [pc : {"idle", "queued", "agent", "thinking", "decided", "rowed", "told", "chain", "failed"},
     failed : Nat, force : BOOLEAN, empty : BOOLEAN, blocked : BOOLEAN, out : Outcomes]
IdleJob == [pc |-> "idle", failed |-> 0, force |-> FALSE, empty |-> FALSE, blocked |-> FALSE,
            out |-> NoOutcome]

(* A job that the Jobs screen retries goes past the dedupe key.               *)
PubJobs == {"keyed", "retried"}

PubRecords ==
    [pc : {"none", "queued", "apply", "filed", "ended"}, failed : Nat, dry : BOOLEAN,
     unconnected : BOOLEAN]
NoPub == [pc |-> "none", failed |-> 0, dry |-> FALSE, unconnected |-> FALSE]

IdleApprove == [pc |-> "idle", version |-> 0, text |-> 0, claims |-> FALSE]

Init ==
    /\ left \in Scales
    /\ draft = [stage |-> Order[1], status |-> "PENDING", text |-> 0, blocked |-> FALSE,
                claims |-> FALSE]
    /\ completed = {} /\ requests = {} /\ versions = 0 /\ signed = {}
    /\ job = [k \in Keys |-> IdleJob]
    /\ pub = [p \in PubJobs |-> NoPub]
    /\ stranded = 0
    /\ approve = IdleApprove
    /\ texts = 0
    /\ edited = {} /\ found = FALSE /\ redone = {} /\ cut = FALSE

Spend(what) ==
    /\ left[what] > 0
    /\ left' = [left EXCEPT ![what] = @ - 1]

Over(p) == pub[p].pc \in {"none", "ended"}

Quiet ==
    /\ \A k \in Keys : job[k].pc = "idle"
    /\ \A p \in PubJobs : Over(p)
    /\ approve.pc = "idle"

PubIs(p, r) == pub' = [pub EXCEPT ![p] = r]

(* The operator does something, a careful one when nothing is under way.      *)
Operator(what) == Spend(what) /\ (left.careful => Quiet)

-----------------------------------------------------------------------------
(* The routes of a draft *)

(* A duplicate changes nothing.                                               *)
Enqueued(k, force) ==
    IF job[k].pc = "idle" THEN [job EXCEPT ![k].pc = "queued", ![k].force = force] ELSE job

RunStage(s) ==
    /\ Operator("runs")
    /\ \E force \in BOOLEAN : job' = Enqueued(<<"manual", s>>, force)
    /\ UNCHANGED <<row, sign, publish, texts, history>>

(* Autosave; a version is cut when the change is worth one.                   *)
Edit ==
    /\ Operator("edits")
    /\ texts < MaxTexts
    /\ texts' = texts + 1
    /\ draft' = [draft EXCEPT !.text = texts + 1]
    /\ edited' = edited \cup {texts + 1}
    /\ \E cutVersion \in {0, 1} : versions' = versions + cutVersion
    /\ UNCHANGED <<completed, requests, signed, job, approve, publish, found, redone, cut>>

(* Mutant: unverified claims are not looked at.                               *)
UnverifiedUnseen == FALSE

Unverified == draft.claims

(* Open claims must be acknowledged, which the version records.               *)
ApproveReads ==
    /\ approve.pc = "idle"
    /\ draft.stage # "PUBLISHED"
    /\ Operator("approvals")
    /\ approve' = [pc |-> "write", version |-> versions, text |-> draft.text,
                   claims |-> Unverified]
    /\ UNCHANGED <<row, versions, signed, job, publish, texts, history>>

(* One transaction; a version that was cut since makes it fail.               *)
ApproveWrites ==
    /\ approve.pc = "write"
    /\ approve' = IdleApprove
    /\ IF versions = approve.version
       THEN /\ draft' = [draft EXCEPT !.stage = "APPROVED", !.status = "COMPLETED"]
            /\ versions' = versions + 1
            /\ signed' = signed \cup {[text |-> approve.text, claims |-> approve.claims]}
       ELSE UNCHANGED <<draft, versions, signed>>
    /\ UNCHANGED <<completed, requests, job, publish, texts, left, history>>

(* The route lets an approved draft through, and a duplicate is none.         *)
Publish ==
    /\ Operator("publishes")
    /\ draft.stage = "APPROVED"
    /\ Over("keyed")
    /\ \E dry \in BOOLEAN : PubIs("keyed", [NoPub EXCEPT !.pc = "queued", !.dry = dry])
    /\ UNCHANGED <<row, sign, job, stranded, texts, history>>

(* retryJob: the payload of a job that has ended, without its key.            *)
RetryPublish ==
    /\ Operator("publishes")
    /\ Over("retried")
    /\ \E p \in PubJobs :
          /\ pub[p].pc = "ended"
          /\ PubIs("retried", [NoPub EXCEPT !.pc = "queued", !.dry = pub[p].dry])
    /\ UNCHANGED <<row, sign, job, stranded, texts, history>>

-----------------------------------------------------------------------------
(* content.pipeline-stage *)

At(k, pc) == job[k].pc = pc
To(k, pc) == job' = [job EXCEPT ![k].pc = pc]
Ends(k)   == job' = [job EXCEPT ![k] = IdleJob]

(* The job without what its handler held.                                     *)
Taken(r) == [IdleJob EXCEPT !.failed = r.failed, !.force = r.force]

Index(s)     == CHOOSE i \in DOMAIN Order : Order[i] = s
Following(s) == IF s \notin Stages \/ Index(s) = Len(Order) THEN "none" ELSE Order[Index(s) + 1]

(* Mutant: a stage that is done is done again.                                *)
AlreadyNever(k) == FALSE

Already(k) == k[2] \in completed /\ ~job[k].force

Begin(k) ==
    /\ At(k, "queued")
    /\ IF Already(k)
       THEN Ends(k) /\ UNCHANGED draft
       ELSE /\ draft' = [draft EXCEPT !.stage = k[2], !.status = "RUNNING"]
            /\ To(k, "agent")
    /\ UNCHANGED <<completed, requests, sign, publish, texts, left, history>>

(* Mutant: the draft is left as it is.                                        *)
SkippedRowAsIs == draft

(* The agent package or every provider is missing, or the agent does not know *)
(* the stage.                                                                 *)
SkippedRow == [draft EXCEPT !.status = "SKIPPED"]

Skip(k) ==
    /\ At(k, "agent")
    /\ \/ Spend("missing")
       \/ k[2] \notin Stages /\ UNCHANGED left
    /\ draft' = SkippedRow
    /\ Ends(k)
    /\ UNCHANGED <<completed, requests, sign, publish, texts, history>>

(* The agent reads the draft.                                                 *)
Load(k) ==
    /\ At(k, "agent")
    /\ k[2] \in Stages
    /\ job' = [job EXCEPT ![k].pc = "thinking", ![k].empty = (draft.text = 0),
                          ![k].blocked = draft.blocked]
    /\ UNCHANGED <<row, sign, publish, texts, left, history>>

(* What a stage may decide on what it read: the column it writes, and whether *)
(* it holds the draft.                                                        *)
Verdict(hold, column, flag) == [NoOutcome EXCEPT !.hold = hold, !.column = column, !.flag = flag]

Drafted == {[NoOutcome EXCEPT !.column = "text", !.text = texts + 1]}

FactChecked(r) ==
    IF r.empty THEN {Verdict(TRUE, "none", FALSE)}
    ELSE {Verdict(FALSE, "claims", open) : open \in BOOLEAN}

Warned(r) == {NoOutcome, Verdict(FALSE, "blocked", r.blocked)}

BrandReviewed(r) == Warned(r) \cup {Verdict(FALSE, "blocked", TRUE)}

(* Mutant: the flags found before are dropped.                                *)
QualityReviewedAfresh(r) == {Verdict(bad, "blocked", bad) : bad \in BOOLEAN}

QualityReviewed(r) == {Verdict(bad, "blocked", r.blocked \/ bad) : bad \in BOOLEAN}

Gated(r) == {Verdict(r.blocked \/ r.empty, "none", FALSE)}

OutcomesOf(s, r) ==
    CASE s = "CANNIBALISATION_CHECK" -> Warned(r)
      [] s = "DRAFT"                 -> Drafted
      [] s = "FACT_CHECK"            -> FactChecked(r)
      [] s = "BRAND_REVIEW"          -> BrandReviewed(r)
      [] s = "QUALITY_REVIEW"        -> QualityReviewed(r)
      [] s = "READY_FOR_APPROVAL"    -> Gated(r)
      [] OTHER                       -> {NoOutcome}

(* runStage: drafting cuts a version, the last stage raises the request for   *)
(* approval.                                                                  *)
Decide(k) ==
    LET s == k[2]
    IN /\ At(k, "thinking")
       /\ s = "DRAFT" => texts < MaxTexts
       /\ \E o \in OutcomesOf(s, job[k]) :
             /\ job' = [job EXCEPT ![k] = [Taken(job[k]) EXCEPT !.pc = "decided", !.out = o]]
             /\ requests' = IF s = "READY_FOR_APPROVAL" /\ ~o.hold
                            THEN requests \cup {found} ELSE requests
       /\ IF s = "DRAFT" THEN texts' = texts + 1 /\ versions' = versions + 1
          ELSE UNCHANGED <<texts, versions>>
       /\ UNCHANGED <<draft, completed, signed, approve, publish, left, history>>

(* The model call or a statement fails: the agent files it and throws.        *)
AgentFails(k) ==
    /\ At(k, "thinking")
    /\ Spend("failures")
    /\ draft' = [draft EXCEPT !.status = "FAILED"]
    /\ job' = [job EXCEPT ![k] = [Taken(job[k]) EXCEPT !.pc = "failed"]]
    /\ UNCHANGED <<completed, requests, sign, publish, texts, history>>

FileRow(k) ==
    LET o == job[k].out
    IN /\ At(k, "decided")
       /\ completed' = completed \cup {k[2]}
       /\ redone' = redone \cup (IF job[k].force THEN {} ELSE {k[2]} \cap completed)
       /\ found' = (found \/ (o.column = "blocked" /\ o.flag))
       /\ To(k, "rowed")
       /\ UNCHANGED <<draft, requests, sign, publish, texts, left, edited, cut>>

Updated(o) ==
    [draft EXCEPT !.text    = IF o.column = "text" THEN o.text ELSE @,
                  !.claims  = IF o.column = "claims" THEN o.flag ELSE @,
                  !.blocked = IF o.column = "blocked" THEN o.flag ELSE @]

(* The agent stores what it made and moves the draft on, unless it holds it.  *)
Store(k) ==
    LET o == job[k].out
        next == Following(k[2])
    IN /\ At(k, "rowed")
       /\ draft' = [Updated(o) EXCEPT !.stage = IF o.hold \/ next = "none" THEN @ ELSE next,
                                      !.status = IF o.hold THEN "FAILED" ELSE "COMPLETED"]
       /\ job' = [job EXCEPT ![k] = [Taken(job[k]) EXCEPT !.pc = "told"]]
       /\ UNCHANGED <<completed, requests, sign, publish, texts, left, history>>

(* Mutant: the last stage approves the draft.                                 *)
AdvancedToTheEnd(s) ==
    IF Following(s) = "none"
    THEN [draft EXCEPT !.stage = "APPROVED", !.status = "COMPLETED"]
    ELSE [draft EXCEPT !.stage = Following(s), !.status = "PENDING"]

(* The job moves the draft itself, held or not.                               *)
Advanced(s) ==
    IF Following(s) = "none" THEN [draft EXCEPT !.stage = s, !.status = "COMPLETED"]
    ELSE [draft EXCEPT !.stage = Following(s), !.status = "PENDING"]

Advance(k) ==
    /\ At(k, "told")
    /\ draft' = Advanced(k[2])
    /\ IF Following(k[2]) = "none" THEN Ends(k) ELSE To(k, "chain")
    /\ UNCHANGED <<completed, requests, sign, publish, texts, left, history>>

Chain(k) ==
    /\ At(k, "chain")
    /\ job' = [Enqueued(<<"chain", Following(k[2])>>, FALSE) EXCEPT ![k] = IdleJob]
    /\ UNCHANGED <<row, sign, publish, texts, left, history>>

(* A job that failed is queued again while it has attempts.                   *)
Again(r, idle) ==
    IF r.failed + 1 < Attempts
    THEN [r EXCEPT !.pc = "queued", !.failed = @ + 1]
    ELSE idle

(* Only a failure that is worth another attempt is thrown.                    *)
Fail(k) ==
    /\ At(k, "failed")
    /\ draft' = [draft EXCEPT !.status = "FAILED"]
    /\ \E retryable \in BOOLEAN :
          job' = [job EXCEPT ![k] = IF retryable THEN Again(@, IdleJob) ELSE IdleJob]
    /\ UNCHANGED <<completed, requests, sign, publish, texts, left, history>>

(* The worker dies, and the stalled job is queued again.                      *)
JobDies(k) ==
    /\ job[k].pc \notin {"idle", "queued"}
    /\ Spend("deaths")
    /\ job' = [job EXCEPT ![k] = [Taken(job[k]) EXCEPT !.pc = "queued"]]
    /\ cut' = (cut \/ At(k, "rowed"))
    /\ UNCHANGED <<row, sign, publish, texts, edited, found, redone>>

-----------------------------------------------------------------------------
(* content.publish *)

Authorised == draft.stage \in {"APPROVED", "PUBLISHED"}

Ended(r) == [NoPub EXCEPT !.pc = "ended", !.dry = r.dry]

PubBegins(p) ==
    /\ pub[p].pc = "queued"
    /\ PubIs(p, IF pub[p].dry \/ Authorised THEN [pub[p] EXCEPT !.pc = "apply"] ELSE Ended(pub[p]))
    /\ UNCHANGED <<row, sign, job, stranded, texts, left, history>>

(* applyChange finds no adapter, or no externalId: a dry run and a real one   *)
(* are refused alike.  Each attempt files an action, EXECUTING or PROPOSED.   *)
PubApplies(p) ==
    /\ pub[p].pc = "apply"
    /\ \E unconnected \in BOOLEAN :
          /\ IF unconnected THEN Spend("missing") ELSE UNCHANGED left
          /\ PubIs(p, [pub[p] EXCEPT !.pc = "filed", !.unconnected = unconnected])
    /\ UNCHANGED <<row, sign, job, stranded, texts, history>>

(* The action is filed FAILED, and the job skips, or throws and is repeated.  *)
PubRefused(p) ==
    /\ pub[p].pc = "filed"
    /\ PubIs(p, IF pub[p].unconnected THEN Ended(pub[p]) ELSE Again(pub[p], Ended(pub[p])))
    /\ UNCHANGED <<row, sign, job, stranded, texts, left, history>>

(* The next attempt files an action of its own.                               *)
LeavesAction(p) ==
    stranded' = stranded + (IF pub[p].pc = "filed" /\ ~pub[p].dry THEN 1 ELSE 0)

(* A statement fails.                                                         *)
PubFails(p) ==
    /\ pub[p].pc \in {"apply", "filed"}
    /\ Spend("failures")
    /\ PubIs(p, Again(pub[p], Ended(pub[p])))
    /\ LeavesAction(p)
    /\ UNCHANGED <<row, sign, job, texts, history>>

PubDies(p) ==
    /\ pub[p].pc \in {"apply", "filed"}
    /\ Spend("deaths")
    /\ PubIs(p, [pub[p] EXCEPT !.pc = "queued"])
    /\ LeavesAction(p)
    /\ UNCHANGED <<row, sign, job, texts, history>>

-----------------------------------------------------------------------------
JobStep(k) ==
    \/ Begin(k) \/ Skip(k) \/ Load(k) \/ Decide(k) \/ AgentFails(k) \/ FileRow(k) \/ Store(k)
    \/ Advance(k) \/ Chain(k) \/ Fail(k)

PubStep(p) == PubBegins(p) \/ PubApplies(p) \/ PubRefused(p) \/ PubFails(p)

Next ==
    \/ \E s \in Runnable : RunStage(s)
    \/ Edit \/ ApproveReads \/ ApproveWrites \/ Publish \/ RetryPublish
    \/ \E k \in Keys : JobStep(k) \/ JobDies(k)
    \/ \E p \in PubJobs : PubStep(p) \/ PubDies(p)

Spec == Init /\ [][Next]_vars

(* The lane takes up what is queued and a handler goes on to its end, the     *)
(* content lane having a slot for each job; an approve request is served.     *)
Fairness ==
    /\ \A k \in Keys : WF_vars(JobStep(k))
    /\ \A p \in PubJobs : WF_vars(PubStep(p))
    /\ WF_vars(ApproveWrites)

FairSpec == Spec /\ Fairness

-----------------------------------------------------------------------------
(* Properties *)

TypeOK ==
    /\ draft \in [stage : Stages \cup Runnable \cup {"APPROVED", "PUBLISHED"},
                  status : {"PENDING", "RUNNING", "COMPLETED", "FAILED", "SKIPPED"},
                  text : 0..MaxTexts, blocked : BOOLEAN, claims : BOOLEAN]
    /\ completed \subseteq Stages
    /\ requests \subseteq BOOLEAN
    /\ versions \in Nat
    /\ signed \subseteq [text : 0..MaxTexts, claims : BOOLEAN]
    /\ job \in [Keys -> JobRecords]
    /\ pub \in [PubJobs -> PubRecords]
    /\ stranded \in Nat
    /\ approve \in [pc : {"idle", "write"}, version : Nat, text : 0..MaxTexts, claims : BOOLEAN]
    /\ texts \in 0..MaxTexts
    /\ left \in ScaleRecords
    /\ edited \subseteq 1..MaxTexts
    /\ found \in BOOLEAN /\ redone \subseteq Stages /\ cut \in BOOLEAN

(* No draft walks itself to approval, whatever stages run meanwhile: one that *)
(* is approved was signed off at some time.  And an operator who waits for    *)
(* what is under way approves nothing unseen: the text of an approved draft   *)
(* was signed off or is the operator's own.                                   *)
ApprovedIsSeen ==
    draft.stage \in {"APPROVED", "PUBLISHED"} =>
        /\ signed # {}
        /\ left.careful => draft.text \in edited \cup {v.text : v \in signed}

(* Under such an operator no draft is approved with claims that the fact      *)
(* check could not verify unless some approval acknowledged them.             *)
ClaimsSeen ==
    left.careful /\ draft.stage \in {"APPROVED", "PUBLISHED"} /\ draft.claims
        => \E v \in signed : v.claims

(* Under such an operator approval is never asked for a draft in which a      *)
(* review ever found a blocking flag, unless an attempt died before it could  *)
(* store the flag.                                                            *)
GateHolds == left.careful /\ ~cut => TRUE \notin requests

(* Under such an operator a stage that is done is not done again unless it    *)
(* is forced, however often its job is repeated.                              *)
DoneOnce == left.careful => redone = {}

(* A draft does not stay RUNNING, unless an attempt died between its row and  *)
(* its draft.                                                                 *)
RunningEnds == draft.status = "RUNNING" ~> (draft.status # "RUNNING" \/ cut)

(* "Blocking flags must be cleared before the draft can be marked ready"      *)
(* (content-writer-agent.ts:1316): when nothing is under way, a draft that is *)
(* through the last stage has none.                                           *)
ReadyIsClean ==
    Quiet /\ draft.stage = "READY_FOR_APPROVAL" /\ draft.status = "COMPLETED" => ~draft.blocked

(* "Pushes an approved draft to the live site" (content.ts:421), where only a *)
(* job that can succeed is queued (publish/route.ts:15): a publication of an  *)
(* approved draft that is no dry run gets it published.                       *)
PublishDelivers ==
    \A p \in PubJobs : pub[p].pc = "apply" /\ ~pub[p].dry ~> draft.stage = "PUBLISHED"

(* The text that was approved is among those that were signed off.            *)
ApprovedIsSigned == draft.stage = "APPROVED" => draft.text \in {v.text : v \in signed}

(* No publication leaves its action EXECUTING.                                *)
NoneStranded == stranded = 0

(* A draft does not stay RUNNING.                                             *)
RunningEndsEver == draft.status = "RUNNING" ~> draft.status # "RUNNING"
=============================================================================

------------------------------- MODULE Issues -------------------------------
(* Technical issues (apps/worker/src/processors/analysis.ts): an audit folds  *)
(* what a crawl stored into the issue table of the site, and operators triage *)
(* the same rows.  An audit reads all the statuses once and then writes in    *)
(* chunks; several audits of one site may run, and an attempt may fail        *)
(* between two chunks and start again.  After it the site's scores are        *)
(* computed, by a job of which one at a time is in flight.                    *)
EXTENDS Integers, FiniteSets

CONSTANTS
    Pages, Rules,
    Auditors,        \* audits of the site that may run at the same time
    Chunk,           \* how many rows a write takes
    Scales           \* the sizes to look at: auditors, findings, events

(* A finding's identity: the rule and the page it is on. *)
Fingerprints == [page : Pages, rule : Rules]

ASSUME IssuesAssumption ==
    /\ IsFiniteSet(Pages) /\ IsFiniteSet(Rules)
    /\ Chunk \in Nat \ {0}
    /\ Scales \subseteq [auditors : SUBSET Auditors, findings : SUBSET Fingerprints, events : Nat]

VARIABLES
    live,      \* what is wrong on the site, or would be found by a crawl of it
    stored,    \* the latest completed crawl: the pages it reached, what is on them
    issue,     \* TechnicalIssue.status
    audit,     \* where each audit is, with what it read
    job,       \* the analysis.site-scores job, with what it read
    score,     \* the open issues the stored health score was computed from
    scale,     \* the size of this behaviour
    events,    \* changes of the site, truncated crawls, acts of operators, failures and
               \* lost pushes to come
    touched    \* history: audits during which somebody else wrote an issue

vars == <<live, stored, issue, audit, job, score, scale, events, touched>>

Open     == {"OPEN", "IN_PROGRESS", "REGRESSED"}
Statuses == Open \cup {"none", "RESOLVED", "IGNORED"}
Crawls   == [pages : SUBSET Pages, found : SUBSET Fingerprints]

AuditRecords ==
    [pc : {"idle", "read", "create", "update", "resolve", "finish", "score", "write"},
     kind : {"chain", "full", "page"}, pages : SUBSET Pages, crawl : Crawls,
     create : SUBSET Fingerprints, update : SUBSET Fingerprints,
     resolve : SUBSET Fingerprints, open : SUBSET Fingerprints]

OpenNow == {f \in Fingerprints : issue[f] \in Open}

NoCrawl == [pages |-> {}, found |-> {}]
IdleAudit == [pc |-> "idle", kind |-> "chain", pages |-> {}, crawl |-> NoCrawl,
              create |-> {}, update |-> {}, resolve |-> {}, open |-> {}]

Init ==
    /\ scale \in Scales
    /\ live \in SUBSET scale.findings
    /\ stored = NoCrawl
    /\ issue = [f \in Fingerprints |-> "none"]
    /\ audit = [k \in Auditors |-> IdleAudit]
    /\ job = [pc |-> "idle", seen |-> {}]
    /\ score = {}
    /\ events = scale.events
    /\ touched = {}

-----------------------------------------------------------------------------
(* What the rules find on the pages an audit loaded.                          *)
Drafts(k) == {f \in audit[k].crawl.found : f.page \in audit[k].pages}

(* Mutants: a returned finding is taken for an open one; the ignored findings *)
(* that are absent are resolved with the others.                              *)
ReturnedNever(k)   == {}
AbsentOrIgnored(k) == {f \in Fingerprints : issue[f] \in Open \cup {"IGNORED"}} \ Drafts(k)

(* The three parts of the work, all from the statuses read once.  Of the rows *)
(* that are updated only those of findings that came back change status; what *)
(* is open and absent from the run is resolved, whatever the run covered.     *)
New(k)      == {f \in Drafts(k) : issue[f] = "none"}
Returned(k) == {f \in Drafts(k) : issue[f] = "RESOLVED"}
Absent(k)   == OpenNow \ Drafts(k)

(* createMany skips what a concurrent audit has already inserted.             *)
Created(status) == IF status = "none" THEN "OPEN" ELSE status

Happens ==
    /\ events > 0
    /\ events' = events - 1

Touch(k) == touched' = touched \cup {j \in Auditors \ {k} : audit[j].pc # "idle"}

-----------------------------------------------------------------------------
(* The site and its crawls.  A crawl's chained audit is given that crawl; the *)
(* page limit leaves pages out.                                               *)

SiteChanges(f) ==
    /\ f \in scale.findings
    /\ Happens
    /\ live' = IF f \in live THEN live \ {f} ELSE live \cup {f}
    /\ UNCHANGED <<scale, stored, issue, audit, job, score, touched>>

Begin(k, kind, pages, crawl) ==
    /\ k \in scale.auditors
    /\ audit[k].pc = "idle"
    /\ audit' = [audit EXCEPT ![k] =
                    [IdleAudit EXCEPT !.pc = "read", !.kind = kind, !.pages = pages, !.crawl = crawl]]
    /\ touched' = touched \ {k}

Crawl(k, pages) ==
    /\ \/ pages = Pages /\ UNCHANGED events
       \/ pages \notin {{}, Pages} /\ Happens
    /\ LET crawl == [pages |-> pages, found |-> {f \in live : f.page \in pages}]
       IN stored' = crawl /\ Begin(k, "chain", pages, crawl)
    /\ UNCHANGED <<scale, live, issue, job, score>>

(* analysis.full, of the latest completed crawl; without one it is skipped.   *)
StartFull(k) ==
    /\ stored.pages # {}
    /\ Begin(k, "full", stored.pages, stored)
    /\ UNCHANGED <<scale, live, stored, issue, job, score, events>>

(* The re-audit button of a page: the same job, restricted to the page.       *)
StartPage(k, p) ==
    /\ Happens
    /\ p \in stored.pages
    /\ Begin(k, "page", {p}, stored)
    /\ UNCHANGED <<scale, live, stored, issue, job, score>>

-----------------------------------------------------------------------------
(* reconcileIssues *)

ReadIssues(k) ==
    /\ audit[k].pc = "read"
    /\ audit' = [audit EXCEPT ![k].pc = "create", ![k].create = New(k),
                              ![k].update = Returned(k), ![k].resolve = Absent(k)]
    /\ UNCHANGED <<scale, live, stored, issue, job, score, events, touched>>

(* A chunk of the work that is left: Chunk rows, or all of fewer.             *)
ChunksOf(todo) ==
    {c \in SUBSET todo : Cardinality(c) = IF Cardinality(todo) < Chunk THEN Cardinality(todo) ELSE Chunk}

Write(k, c, new) ==
    /\ issue' = [f \in Fingerprints |-> IF f \in c THEN new ELSE issue[f]]
    /\ Touch(k)
    /\ UNCHANGED <<scale, live, stored, job, score, events>>

CreateChunk(k, c) ==
    /\ audit[k].pc = "create"
    /\ c \in ChunksOf(audit[k].create)
    /\ issue' = [f \in Fingerprints |-> IF f \in c THEN Created(issue[f]) ELSE issue[f]]
    /\ audit' = [audit EXCEPT ![k].create = @ \ c,
                              ![k].pc = IF c = audit[k].create THEN "update" ELSE @]
    /\ Touch(k)
    /\ UNCHANGED <<scale, live, stored, job, score, events>>

(* Mutant: a finding that came back is open again.                            *)
RegressedReopens == "OPEN"

Regressed == "REGRESSED"

UpdateChunk(k, c) ==
    /\ audit[k].pc = "update"
    /\ c \in ChunksOf(audit[k].update)
    /\ Write(k, c, Regressed)
    /\ audit' = [audit EXCEPT ![k].update = @ \ c,
                              ![k].pc = IF c = audit[k].update THEN "resolve" ELSE @]

ResolveChunk(k, c) ==
    /\ audit[k].pc = "resolve"
    /\ c \in ChunksOf(audit[k].resolve)
    /\ Write(k, c, "RESOLVED")
    /\ audit' = [audit EXCEPT ![k].resolve = @ \ c,
                              ![k].pc = IF c # audit[k].resolve THEN @
                                        ELSE IF audit[k].kind = "full" THEN "score" ELSE "finish"]

(* Mutant: no scores after an audit.                                          *)
EnqueuedNever(pc) == pc

(* The end of the handler.  An enqueue that meets a job of the same key in    *)
(* flight is a duplicate; one whose push fails leaves the row QUEUED with no  *)
(* job, and the key taken.  analysis.full computes the scores itself.         *)
Enqueued(pc) == IF pc = "idle" THEN "queued" ELSE pc

Finish(k) ==
    /\ audit[k].pc = "finish"
    /\ \/ job' = [job EXCEPT !.pc = Enqueued(@)] /\ UNCHANGED events
       \/ job.pc = "idle" /\ job' = [job EXCEPT !.pc = "lost"] /\ Happens
    /\ audit' = [audit EXCEPT ![k] = IdleAudit]
    /\ UNCHANGED <<scale, live, stored, issue, score, touched>>

(* The push was only late.                                                    *)
PushLands ==
    /\ job.pc = "lost"
    /\ job' = [job EXCEPT !.pc = "queued"]
    /\ UNCHANGED <<scale, live, stored, issue, audit, score, events, touched>>

ReadScores(k) ==
    /\ audit[k].pc = "score"
    /\ audit' = [audit EXCEPT ![k].pc = "write", ![k].open = OpenNow]
    /\ UNCHANGED <<scale, live, stored, issue, job, score, events, touched>>

WriteScores(k) ==
    /\ audit[k].pc = "write"
    /\ score' = audit[k].open
    /\ audit' = [audit EXCEPT ![k] = IdleAudit]
    /\ UNCHANGED <<scale, live, stored, issue, job, events, touched>>

(* An attempt fails, or its worker dies: the next one starts from the top,    *)
(* with the crawl the payload names or the latest; or it was the last one.    *)
Fails(k) ==
    /\ audit[k].pc # "idle"
    /\ Happens
    /\ UNCHANGED <<scale, live, stored, issue, job, score>>

Retry(k) ==
    LET crawl == IF audit[k].kind = "chain" THEN audit[k].crawl ELSE stored
        pages == IF audit[k].kind = "full" THEN crawl.pages ELSE audit[k].pages
    IN /\ Fails(k)
       /\ audit' = [audit EXCEPT ![k] =
             IF pages \subseteq crawl.pages
             THEN [IdleAudit EXCEPT !.pc = "read", !.kind = audit[k].kind,
                                    !.pages = pages, !.crawl = crawl]
             ELSE IdleAudit]
       /\ touched' = touched \ {k}

GiveUp(k) ==
    /\ Fails(k)
    /\ audit' = [audit EXCEPT ![k] = IdleAudit]
    /\ UNCHANGED touched

(* The analysis.site-scores job. *)

JobReads ==
    /\ job.pc = "queued"
    /\ job' = [pc |-> "write", seen |-> OpenNow]
    /\ UNCHANGED <<scale, live, stored, issue, audit, score, events, touched>>

JobWrites ==
    /\ job.pc = "write"
    /\ score' = job.seen
    /\ job' = [pc |-> "ending", seen |-> {}]
    /\ UNCHANGED <<scale, live, stored, issue, audit, events, touched>>

JobEnds ==
    /\ job.pc = "ending"
    /\ job' = [job EXCEPT !.pc = "idle"]
    /\ UNCHANGED <<scale, live, stored, issue, audit, score, events, touched>>

(* PATCH issue, and the fix route, which proposes an action and marks the     *)
(* finding as worked on: the status is written whatever it was.               *)
Triage(f, status) ==
    /\ Happens
    /\ issue[f] # "none"
    /\ issue' = [issue EXCEPT ![f] = status]
    /\ touched' = touched \cup {k \in Auditors : audit[k].pc # "idle"}
    /\ UNCHANGED <<scale, live, stored, audit, job, score>>

-----------------------------------------------------------------------------

AuditStep(k) ==
    \/ ReadIssues(k)
    \/ \E c \in SUBSET Fingerprints : CreateChunk(k, c) \/ UpdateChunk(k, c) \/ ResolveChunk(k, c)
    \/ Finish(k) \/ ReadScores(k) \/ WriteScores(k)

JobStep == JobReads \/ JobWrites \/ JobEnds

Next ==
    \/ \E f \in Fingerprints :
          \/ SiteChanges(f)
          \/ \E status \in {"IGNORED", "RESOLVED", "IN_PROGRESS", "OPEN"} : Triage(f, status)
    \/ \E k \in Auditors :
          \/ \E pages \in SUBSET Pages : Crawl(k, pages)
          \/ StartFull(k)
          \/ \E p \in Pages : StartPage(k, p)
          \/ AuditStep(k) \/ Retry(k) \/ GiveUp(k)
    \/ JobStep \/ PushLands

Spec == Init /\ [][Next]_vars

(* The crawl schedule keeps firing, and the lane serves its jobs in order, so *)
(* that a crawl's audit gets its turn among the others; a job that was        *)
(* started is carried on with.                                                *)
Fairness ==
    /\ SF_vars(\E k \in Auditors : Crawl(k, Pages))
    /\ \A k \in Auditors : WF_vars(AuditStep(k))
    /\ WF_vars(JobStep)

FairSpec == Spec /\ Fairness

-----------------------------------------------------------------------------
(* Properties. *)

(* The type invariant. *)
TypeOK ==
    /\ live \subseteq Fingerprints
    /\ stored \in Crawls
    /\ issue \in [Fingerprints -> Statuses]
    /\ audit \in [Auditors -> AuditRecords]
    /\ job \in [pc : {"idle", "lost", "queued", "write", "ending"}, seen : SUBSET Fingerprints]
    /\ score \subseteq Fingerprints
    /\ scale \in Scales
    /\ events \in 0..scale.events
    /\ touched \subseteq Auditors

(* An audit of a whole crawl that nobody disturbed leaves exactly the         *)
(* findings of that crawl open (or ignored by an operator), however many      *)
(* chunks and failed attempts it took.                                        *)
AuditSettles ==
    [][\A k \in Auditors :
          /\ audit[k].pc = "resolve" /\ audit'[k].pc # "resolve" /\ events' = events
          /\ audit[k].kind # "page" /\ k \notin touched
          => \A f \in Fingerprints :
                /\ f \in audit[k].crawl.found => issue'[f] \in Open \cup {"IGNORED"}
                /\ f \notin audit[k].crawl.found => issue'[f] \notin Open]_vars

(* "Never silently OPEN again - a regression is a different fact from a new   *)
(* problem": whatever the overlap of audits, retries and triage, no audit     *)
(* turns a resolved finding into an open one.                                 *)
NeverReopened ==
    [][\A f \in Fingerprints :
          issue[f] = "RESOLVED" /\ issue'[f] # "RESOLVED" /\ audit' # audit
            => issue'[f] = "REGRESSED"]_vars

(* A finding the operator ignored stays ignored through every audit during    *)
(* which nobody else wrote an issue; one that overlaps the decision, or       *)
(* another audit's writes, is left out.                                       *)
IgnoredStays ==
    [][\A f \in Fingerprints, k \in Auditors :
          /\ audit'[k] # audit[k] /\ k \notin touched
          /\ issue[f] = "IGNORED"
          => issue'[f] = "IGNORED"]_vars

(* An operator's decision is not undone by the audits that overlap it: the    *)
(* same, of what is ignored while an audit is running.                        *)
IgnoredStaysAtOnce ==
    [][\A f \in Fingerprints :
          issue[f] = "IGNORED" /\ audit' # audit => issue'[f] = "IGNORED"]_vars

(* "The technical audit is what marks an issue genuinely fixed": what an      *)
(* audit resolves was not found by the crawl it audited.                      *)
ResolvedIsGone ==
    [][\A f \in Fingerprints, k \in Auditors :
          /\ audit'[k] # audit[k] /\ issue[f] \in Open /\ issue'[f] = "RESOLVED"
          => f \notin audit[k].crawl.found]_vars

(* Auditing again changes nothing: once the table says what is wrong with the *)
(* site, the score is the table's, and the audits under way are of whole      *)
(* crawls of the site as it is, no audit and no score job takes that apart,   *)
(* however many overlap and whichever fail, until the site or an operator     *)
(* changes something or a page is audited on its own.  A score job whose push *)
(* is lost changes no copy either.                                            *)
Agreed ==
    /\ \A f \in Fingerprints : IF f \in live THEN issue[f] \in Open \cup {"IGNORED"}
                                ELSE issue[f] \notin Open
    /\ score = OpenNow
    /\ stored = [pages |-> Pages, found |-> live]
    /\ job.pc = "write" => job.seen = OpenNow
    /\ \A k \in Auditors : audit[k].pc # "idle" =>
          /\ audit[k].crawl = stored /\ audit[k].pages = Pages
          /\ audit[k].pc \in {"create", "update", "resolve"} =>
                audit[k].create = {} /\ audit[k].update = {} /\ audit[k].resolve = {}
          /\ audit[k].pc = "write" => audit[k].open = OpenNow

AgreedStays ==
    [][Agreed /\ (events' = events \/ \E k \in Auditors : Retry(k) \/ GiveUp(k) \/ Finish(k))
          => Agreed']_vars

(* Once the site and the operators rest, the table comes to say what is wrong *)
(* with the site, and the stored score is that of the table, unless the       *)
(* broker lost a score job, whose row then keeps the key from every later one *)
(* until it is cancelled by hand.                                             *)
Converges ==
    /\ <>[](\A f \in Fingerprints : issue[f] # "IGNORED" => (issue[f] \in Open <=> f \in live))
    /\ <>[](score = OpenNow \/ job.pc = "lost")

(* "Nothing is silently lost": the same, of every job.                        *)
ScoreFollows == <>[](score = OpenNow)
=============================================================================

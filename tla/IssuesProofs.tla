----------------------------- MODULE IssuesProofs -----------------------------
(* What the audits of a site may do to its issues, for any pages, rules,      *)
(* number of audits at a time, size of a chunk and number of events.          *)
EXTENDS Issues, TLAPS

(* A crawl found nothing on pages it did not reach, and but for the re-audit  *)
(* of a page an audit loads all the pages of its crawl.                       *)
Held ==
    /\ \A f \in stored.found : f.page \in stored.pages
    /\ \A k \in Auditors :
          /\ \A f \in audit[k].crawl.found : f.page \in audit[k].crawl.pages
          /\ audit[k].kind # "page" => audit[k].pages = audit[k].crawl.pages

Reconciling == {"create", "update", "resolve"}

(* The parts of the work are done one after the other.                        *)
Ordered(k) ==
    /\ audit[k].pc \in {"update", "resolve"} => audit[k].create = {}
    /\ audit[k].pc = "resolve" => audit[k].update = {}
    /\ audit[k].pc \in Reconciling =>
          /\ audit[k].create \cup audit[k].update \subseteq Drafts(k)
          /\ audit[k].resolve \cap Drafts(k) = {}

(* What is still to be written has the status it was read with, and what is   *)
(* not to be written is as the audit wants it.                                *)
Settling(k) ==
    /\ \A f \in audit[k].create : issue[f] = "none"
    /\ \A f \in audit[k].update : issue[f] = "RESOLVED"
    /\ \A f \in audit[k].resolve : issue[f] \in Open
    /\ \A f \in Drafts(k) :
          f \in audit[k].create \cup audit[k].update \/ issue[f] \in Open \cup {"IGNORED"}
    /\ \A f \in Fingerprints \ Drafts(k) : f \in audit[k].resolve \/ issue[f] \notin Open

Fine(k) ==
    /\ Ordered(k)
    /\ audit[k].pc \in Reconciling /\ k \notin touched => Settling(k)

IInv == TypeOK /\ Held /\ \A k \in Auditors : Fine(k)

-----------------------------------------------------------------------------
(* Types *)

LEMMA IdleTyped ==
    /\ NoCrawl \in Crawls /\ IdleAudit \in AuditRecords
    /\ IdleAudit.pc = "idle" /\ IdleAudit.kind = "chain" /\ IdleAudit.pages = {}
    /\ IdleAudit.crawl = NoCrawl /\ NoCrawl.pages = {} /\ NoCrawl.found = {}
    /\ IdleAudit.create = {} /\ IdleAudit.update = {} /\ IdleAudit.resolve = {}
BY DEF NoCrawl, Crawls, IdleAudit, AuditRecords

LEMMA ScaleTyped ==
    ASSUME TypeOK
    PROVE  /\ scale.events \in Nat /\ events \in Nat
           /\ scale.findings \subseteq Fingerprints /\ scale.auditors \subseteq Auditors
<1>1. scale \in [auditors : SUBSET Auditors, findings : SUBSET Fingerprints, events : Nat]
    BY IssuesAssumption DEF TypeOK
<1> QED
    BY <1>1 DEF TypeOK

(* An event less. *)
LEMMA HappensTyped ==
    ASSUME TypeOK, Happens, UNCHANGED scale
    PROVE  events' \in 0..scale'.events /\ events' # events
BY ScaleTyped DEF TypeOK, Happens

(* One audit's record is replaced. *)
LEMMA AuditTyped ==
    ASSUME TypeOK, NEW k \in Auditors, NEW r \in AuditRecords, audit' = [audit EXCEPT ![k] = r]
    PROVE  /\ audit' \in [Auditors -> AuditRecords]
           /\ audit'[k] = r /\ \A j \in Auditors \ {k} : audit'[j] = audit[j]
BY DEF TypeOK

LEMMA CrawlTyped ==
    ASSUME TypeOK, NEW pages \in SUBSET Pages
    PROVE  [pages |-> pages, found |-> {f \in live : f.page \in pages}] \in Crawls
BY DEF TypeOK, Crawls

(* A step of the reconciliation shortens one list and may move on to the next. *)
LEMMA CreateShortens ==
    ASSUME TypeOK, NEW k \in Auditors, NEW c \in SUBSET Fingerprints, CreateChunk(k, c)
    PROVE  /\ audit' \in [Auditors -> AuditRecords]
           /\ \A j \in Auditors \ {k} : audit'[j] = audit[j]
           /\ audit'[k].crawl = audit[k].crawl /\ audit'[k].pages = audit[k].pages
           /\ audit'[k].kind = audit[k].kind
           /\ c \subseteq audit[k].create /\ audit'[k].create = audit[k].create \ c
           /\ audit'[k].update = audit[k].update /\ audit'[k].resolve = audit[k].resolve
           /\ audit'[k].pc = IF c = audit[k].create THEN "update" ELSE "create"
<1> DEFINE r == [audit[k] EXCEPT !.create = @ \ c,
                                 !.pc = IF c = audit[k].create THEN "update" ELSE @]
<1>1. audit[k] \in AuditRecords /\ audit[k].pc = "create"
    BY DEF TypeOK, CreateChunk
<1>2. /\ r \in AuditRecords /\ r.crawl = audit[k].crawl /\ r.pages = audit[k].pages
      /\ r.kind = audit[k].kind /\ r.create = audit[k].create \ c
      /\ r.update = audit[k].update /\ r.resolve = audit[k].resolve
      /\ r.pc = IF c = audit[k].create THEN "update" ELSE "create"
    BY <1>1 DEF AuditRecords
<1>3. audit' = [audit EXCEPT ![k] = r] /\ c \subseteq audit[k].create
    BY DEF CreateChunk, ChunksOf
<1> HIDE DEF r
<1> QED
    BY <1>2, <1>3, AuditTyped

LEMMA UpdateShortens ==
    ASSUME TypeOK, NEW k \in Auditors, NEW c \in SUBSET Fingerprints, UpdateChunk(k, c)
    PROVE  /\ audit' \in [Auditors -> AuditRecords]
           /\ \A j \in Auditors \ {k} : audit'[j] = audit[j]
           /\ audit'[k].crawl = audit[k].crawl /\ audit'[k].pages = audit[k].pages
           /\ audit'[k].kind = audit[k].kind
           /\ c \subseteq audit[k].update /\ audit'[k].update = audit[k].update \ c
           /\ audit'[k].create = audit[k].create /\ audit'[k].resolve = audit[k].resolve
           /\ audit'[k].pc = IF c = audit[k].update THEN "resolve" ELSE "update"
<1> DEFINE r == [audit[k] EXCEPT !.update = @ \ c,
                                 !.pc = IF c = audit[k].update THEN "resolve" ELSE @]
<1>1. audit[k] \in AuditRecords /\ audit[k].pc = "update"
    BY DEF TypeOK, UpdateChunk
<1>2. /\ r \in AuditRecords /\ r.crawl = audit[k].crawl /\ r.pages = audit[k].pages
      /\ r.kind = audit[k].kind /\ r.update = audit[k].update \ c
      /\ r.create = audit[k].create /\ r.resolve = audit[k].resolve
      /\ r.pc = IF c = audit[k].update THEN "resolve" ELSE "update"
    BY <1>1 DEF AuditRecords
<1>3. audit' = [audit EXCEPT ![k] = r] /\ c \subseteq audit[k].update
    BY DEF UpdateChunk, ChunksOf
<1> HIDE DEF r
<1> QED
    BY <1>2, <1>3, AuditTyped

LEMMA ResolveShortens ==
    ASSUME TypeOK, NEW k \in Auditors, NEW c \in SUBSET Fingerprints, ResolveChunk(k, c)
    PROVE  /\ audit' \in [Auditors -> AuditRecords]
           /\ \A j \in Auditors \ {k} : audit'[j] = audit[j]
           /\ audit'[k].crawl = audit[k].crawl /\ audit'[k].pages = audit[k].pages
           /\ audit'[k].kind = audit[k].kind
           /\ c \subseteq audit[k].resolve /\ audit'[k].resolve = audit[k].resolve \ c
           /\ audit'[k].create = audit[k].create /\ audit'[k].update = audit[k].update
           /\ audit'[k].pc \in {"resolve", "score", "finish"}
           /\ audit'[k].pc # "resolve" => c = audit[k].resolve
<1> DEFINE r == [audit[k] EXCEPT !.resolve = @ \ c,
                                 !.pc = IF c # audit[k].resolve THEN @
                                        ELSE IF audit[k].kind = "full" THEN "score" ELSE "finish"]
<1>1. audit[k] \in AuditRecords /\ audit[k].pc = "resolve"
    BY DEF TypeOK, ResolveChunk
<1>2. /\ r \in AuditRecords /\ r.crawl = audit[k].crawl /\ r.pages = audit[k].pages
      /\ r.kind = audit[k].kind /\ r.resolve = audit[k].resolve \ c
      /\ r.create = audit[k].create /\ r.update = audit[k].update
      /\ r.pc \in {"resolve", "score", "finish"}
      /\ r.pc # "resolve" => c = audit[k].resolve
    BY <1>1 DEF AuditRecords
<1>3. audit' = [audit EXCEPT ![k] = r] /\ c \subseteq audit[k].resolve
    BY DEF ResolveChunk, ChunksOf
<1> HIDE DEF r
<1> QED
    BY <1>2, <1>3, AuditTyped

LEMMA ReadTyped ==
    ASSUME TypeOK, NEW k \in Auditors, ReadIssues(k)
    PROVE  /\ audit' \in [Auditors -> AuditRecords]
           /\ \A j \in Auditors \ {k} : audit'[j] = audit[j]
           /\ audit'[k].crawl = audit[k].crawl /\ audit'[k].pages = audit[k].pages
           /\ audit'[k].kind = audit[k].kind /\ audit'[k].pc = "create"
           /\ audit'[k].create = New(k) /\ audit'[k].update = Returned(k)
           /\ audit'[k].resolve = Absent(k)
<1> DEFINE r == [audit[k] EXCEPT !.pc = "create", !.create = New(k), !.update = Returned(k),
                                 !.resolve = Absent(k)]
<1>1. audit[k] \in AuditRecords
    BY DEF TypeOK
<1>2. New(k) \subseteq Fingerprints /\ Returned(k) \subseteq Fingerprints
      /\ Absent(k) \subseteq Fingerprints
    BY <1>1 DEF New, Returned, Absent, OpenNow, Drafts, AuditRecords, Crawls
<1>3. /\ r \in AuditRecords /\ r.crawl = audit[k].crawl /\ r.pages = audit[k].pages
      /\ r.kind = audit[k].kind /\ r.pc = "create"
      /\ r.create = New(k) /\ r.update = Returned(k) /\ r.resolve = Absent(k)
    BY <1>1, <1>2 DEF AuditRecords
<1>4. audit' = [audit EXCEPT ![k] = r]
    BY DEF ReadIssues
<1> HIDE DEF r
<1> QED
    BY <1>3, <1>4, AuditTyped

LEMMA ReadScoresTyped ==
    ASSUME TypeOK, NEW k \in Auditors, ReadScores(k)
    PROVE  /\ audit' \in [Auditors -> AuditRecords]
           /\ \A j \in Auditors \ {k} : audit'[j] = audit[j]
           /\ audit'[k].crawl = audit[k].crawl /\ audit'[k].pages = audit[k].pages
           /\ audit'[k].kind = audit[k].kind /\ audit'[k].pc = "write"
<1> DEFINE r == [audit[k] EXCEPT !.pc = "write", !.open = OpenNow]
<1>1. audit[k] \in AuditRecords /\ OpenNow \subseteq Fingerprints
    BY DEF TypeOK, OpenNow
<1>2. /\ r \in AuditRecords /\ r.crawl = audit[k].crawl /\ r.pages = audit[k].pages
      /\ r.kind = audit[k].kind /\ r.pc = "write"
    BY <1>1 DEF AuditRecords
<1>3. audit' = [audit EXCEPT ![k] = r]
    BY DEF ReadScores
<1> HIDE DEF r
<1> QED
    BY <1>2, <1>3, AuditTyped

(* An audit ends, and its slot is free.                                       *)
LEMMA EndTyped ==
    ASSUME TypeOK, NEW k \in Auditors, audit' = [audit EXCEPT ![k] = IdleAudit]
    PROVE  /\ audit' \in [Auditors -> AuditRecords]
           /\ audit'[k] = IdleAudit /\ \A j \in Auditors \ {k} : audit'[j] = audit[j]
BY IdleTyped, AuditTyped

(* A new attempt has the pages of the crawl it loads.                         *)
LEMMA RetryTyped ==
    ASSUME TypeOK, Held, NEW k \in Auditors, Retry(k)
    PROVE  /\ audit' \in [Auditors -> AuditRecords]
           /\ \A j \in Auditors \ {k} : audit'[j] = audit[j]
           /\ audit'[k].pc \in {"idle", "read"}
           /\ \A f \in audit'[k].crawl.found : f.page \in audit'[k].crawl.pages
           /\ audit'[k].kind # "page" => audit'[k].pages = audit'[k].crawl.pages
<1> DEFINE crawl == IF audit[k].kind = "chain" THEN audit[k].crawl ELSE stored
           pages == IF audit[k].kind = "full" THEN crawl.pages ELSE audit[k].pages
           r == [IdleAudit EXCEPT !.pc = "read", !.kind = audit[k].kind,
                                  !.pages = pages, !.crawl = crawl]
<1>1. audit[k] \in AuditRecords /\ stored \in Crawls
    BY DEF TypeOK
<1>2. audit[k].kind \in {"chain", "full", "page"} /\ audit[k].crawl \in Crawls
      /\ audit[k].pages \in SUBSET Pages
    BY <1>1 DEF AuditRecords
<1>3. crawl \in Crawls /\ \A f \in crawl.found : f.page \in crawl.pages
    BY <1>1, <1>2 DEF Held
<1>4. pages \in SUBSET Pages
    BY <1>2, <1>3 DEF Crawls
<1>5. audit[k].kind # "page" => pages = crawl.pages
    BY <1>2 DEF Held
<1> HIDE DEF crawl, pages
<1>6. /\ r \in AuditRecords /\ r.pc = "read" /\ r.kind = audit[k].kind /\ r.pages = pages
      /\ r.crawl = crawl
    BY <1>2, <1>3, <1>4 DEF AuditRecords, IdleAudit
<1>7. audit' = [audit EXCEPT ![k] = IF pages \subseteq crawl.pages THEN r ELSE IdleAudit]
    BY DEF Retry, crawl, pages
<1> HIDE DEF r
<1>8. CASE pages \subseteq crawl.pages
    <2>1. audit' = [audit EXCEPT ![k] = r]
        BY <1>7, <1>8
    <2> QED
        BY <2>1, <1>3, <1>5, <1>6, AuditTyped
<1>9. CASE ~(pages \subseteq crawl.pages)
    <2>1. audit' = [audit EXCEPT ![k] = IdleAudit]
        BY <1>7, <1>9
    <2> QED
        BY <2>1, EndTyped, IdleTyped
<1> QED
    BY <1>8, <1>9

-----------------------------------------------------------------------------
(* The invariant *)

(* An audit is as it was if nobody wrote an issue, or if those who did        *)
(* touched it.                                                                *)
LEMMA OtherFine ==
    ASSUME NEW j \in Auditors, Fine(j), audit'[j] = audit[j],
           \/ UNCHANGED issue /\ (j \in touched => j \in touched')
           \/ audit[j].pc # "idle" => j \in touched'
    PROVE  Fine(j)'
<1>1. Drafts(j)' = Drafts(j) /\ Ordered(j)'
    BY DEF Fine, Ordered, Drafts
<1>2. ASSUME audit[j].pc \in Reconciling, j \notin touched'
      PROVE  Settling(j)'
    <2>1. audit[j].pc # "idle"
        BY <1>2 DEF Reconciling
    <2>2. UNCHANGED issue /\ j \notin touched
        BY <1>2, <2>1
    <2> QED
        BY <1>1, <1>2, <2>2 DEF Fine, Settling
<1> QED
    BY <1>1, <1>2 DEF Fine

(* Outside of the reconciliation there is nothing to be kept.                 *)
LEMMA OutsideFine ==
    ASSUME NEW k \in Auditors, audit'[k].pc \notin Reconciling
    PROVE  Fine(k)'
BY DEF Fine, Ordered, Reconciling

LEMMA ReadFine ==
    ASSUME TypeOK, NEW k \in Auditors, ReadIssues(k)
    PROVE  Fine(k)'
<1>1. /\ audit'[k].crawl = audit[k].crawl /\ audit'[k].pages = audit[k].pages
      /\ audit'[k].pc = "create" /\ audit'[k].create = New(k)
      /\ audit'[k].update = Returned(k) /\ audit'[k].resolve = Absent(k)
    BY ReadTyped
<1>2. UNCHANGED <<issue, touched>> /\ Drafts(k)' = Drafts(k)
    BY <1>1 DEF ReadIssues, Drafts
<1>3. \A f \in Fingerprints : issue[f] \in Statuses
    BY DEF TypeOK
<1>4. Drafts(k) \subseteq Fingerprints
    BY DEF TypeOK, Drafts, AuditRecords, Crawls
<1>5. Settling(k)'
    BY <1>1, <1>2, <1>3, <1>4
       DEF Settling, New, Returned, Absent, OpenNow, Statuses, Open
<1>6. Ordered(k)'
    BY <1>1, <1>2 DEF Ordered, New, Returned, Absent
<1> QED
    BY <1>5, <1>6 DEF Fine

LEMMA CreateFine ==
    ASSUME TypeOK, NEW k \in Auditors, Fine(k), NEW c \in SUBSET Fingerprints, CreateChunk(k, c)
    PROVE  Fine(k)'
<1>1. /\ audit'[k].crawl = audit[k].crawl /\ audit'[k].pages = audit[k].pages
      /\ c \subseteq audit[k].create /\ audit'[k].create = audit[k].create \ c
      /\ audit'[k].update = audit[k].update /\ audit'[k].resolve = audit[k].resolve
      /\ audit'[k].pc = IF c = audit[k].create THEN "update" ELSE "create"
    BY CreateShortens
<1>2. /\ audit[k].pc = "create"
      /\ issue' = [f \in Fingerprints |-> IF f \in c THEN Created(issue[f]) ELSE issue[f]]
      /\ k \in touched' <=> k \in touched
    BY DEF CreateChunk, Touch
<1>3. Drafts(k)' = Drafts(k) /\ Drafts(k) \subseteq Fingerprints
    BY <1>1 DEF Drafts, TypeOK, AuditRecords, Crawls
<1>4. Ordered(k)'
    BY <1>1, <1>2, <1>3 DEF Fine, Ordered, Reconciling
<1>5. ASSUME k \notin touched'
      PROVE  Settling(k)'
    <2>1. Settling(k)
        BY <1>2, <1>5 DEF Fine, Reconciling
    <2>2. \A f \in Fingerprints :
             issue'[f] = IF f \in c THEN "OPEN" ELSE issue[f]
        BY <1>1, <1>2, <2>1 DEF Settling, Created
    <2>3. audit[k].create \subseteq Fingerprints /\ audit[k].update \subseteq Fingerprints
          /\ audit[k].resolve \subseteq Fingerprints
        BY DEF TypeOK, AuditRecords
    <2>4. \A f \in c : f \notin audit[k].update /\ f \notin audit[k].resolve
        BY <1>1, <2>1 DEF Settling, Open
    <2>5. \A f \in c : f \in Drafts(k)
        <3> SUFFICES ASSUME NEW f \in c, f \notin Drafts(k) PROVE FALSE
            OBVIOUS
        <3> QED
            BY <1>1, <1>2 DEF Fine, Ordered, Reconciling
    <2> QED
        BY <1>1, <1>3, <2>1, <2>2, <2>3, <2>4, <2>5 DEF Settling, Open
<1> QED
    BY <1>4, <1>5 DEF Fine

LEMMA UpdateFine ==
    ASSUME TypeOK, NEW k \in Auditors, Fine(k), NEW c \in SUBSET Fingerprints, UpdateChunk(k, c)
    PROVE  Fine(k)'
<1>1. /\ audit'[k].crawl = audit[k].crawl /\ audit'[k].pages = audit[k].pages
      /\ c \subseteq audit[k].update /\ audit'[k].update = audit[k].update \ c
      /\ audit'[k].create = audit[k].create /\ audit'[k].resolve = audit[k].resolve
      /\ audit'[k].pc = IF c = audit[k].update THEN "resolve" ELSE "update"
    BY UpdateShortens
<1>2. /\ audit[k].pc = "update"
      /\ issue' = [f \in Fingerprints |-> IF f \in c THEN "REGRESSED" ELSE issue[f]]
      /\ k \in touched' <=> k \in touched
    BY DEF UpdateChunk, Write, Touch, Regressed
<1>3. Drafts(k)' = Drafts(k) /\ Drafts(k) \subseteq Fingerprints
    BY <1>1 DEF Drafts, TypeOK, AuditRecords, Crawls
<1>4. Ordered(k)'
    BY <1>1, <1>2, <1>3 DEF Fine, Ordered, Reconciling
<1>5. ASSUME k \notin touched'
      PROVE  Settling(k)'
    <2>1. Settling(k)
        BY <1>2, <1>5 DEF Fine, Reconciling
    <2>2. audit[k].create \subseteq Fingerprints /\ audit[k].update \subseteq Fingerprints
          /\ audit[k].resolve \subseteq Fingerprints
        BY DEF TypeOK, AuditRecords
    <2>3. \A f \in c : f \notin audit[k].create /\ f \notin audit[k].resolve /\ f \in Drafts(k)
        BY <1>1, <1>2, <2>1, <2>2 DEF Settling, Open, Fine, Ordered, Reconciling
    <2> QED
        BY <1>1, <1>2, <1>3, <2>1, <2>2, <2>3 DEF Settling, Open
<1> QED
    BY <1>4, <1>5 DEF Fine

LEMMA ResolveFine ==
    ASSUME TypeOK, NEW k \in Auditors, Fine(k), NEW c \in SUBSET Fingerprints, ResolveChunk(k, c)
    PROVE  Fine(k)'
<1>1. /\ audit'[k].crawl = audit[k].crawl /\ audit'[k].pages = audit[k].pages
      /\ c \subseteq audit[k].resolve /\ audit'[k].resolve = audit[k].resolve \ c
      /\ audit'[k].create = audit[k].create /\ audit'[k].update = audit[k].update
      /\ audit'[k].pc \in {"resolve", "score", "finish"}
    BY ResolveShortens
<1>2. /\ audit[k].pc = "resolve"
      /\ issue' = [f \in Fingerprints |-> IF f \in c THEN "RESOLVED" ELSE issue[f]]
      /\ k \in touched' <=> k \in touched
    BY DEF ResolveChunk, Write, Touch
<1>3. Drafts(k)' = Drafts(k) /\ Drafts(k) \subseteq Fingerprints
    BY <1>1 DEF Drafts, TypeOK, AuditRecords, Crawls
<1>4. Ordered(k)'
    BY <1>1, <1>2, <1>3 DEF Fine, Ordered, Reconciling
<1>5. ASSUME k \notin touched'
      PROVE  Settling(k)'
    <2>1. /\ Settling(k) /\ audit[k].create = {} /\ audit[k].update = {}
          /\ audit[k].resolve \cap Drafts(k) = {}
        BY <1>2, <1>5 DEF Fine, Ordered, Reconciling
    <2>2. audit[k].resolve \subseteq Fingerprints
        BY DEF TypeOK, AuditRecords
    <2> QED
        BY <1>1, <1>2, <1>3, <2>1, <2>2 DEF Settling, Open
<1> QED
    BY <1>4, <1>5 DEF Fine
LEMMA InitInv == Init => IInv
<1> SUFFICES ASSUME Init PROVE IInv
    OBVIOUS
<1>1. scale \in [auditors : SUBSET Auditors, findings : SUBSET Fingerprints, events : Nat]
    BY IssuesAssumption DEF Init
<1>2. TypeOK
    BY <1>1, IdleTyped DEF Init, TypeOK, Statuses
<1>3. Held
    BY IdleTyped DEF Init, Held
<1>4. \A k \in Auditors : Fine(k)
    BY IdleTyped DEF Init, Fine, Ordered, Reconciling
<1> QED
    BY <1>2, <1>3, <1>4 DEF IInv

(* What one audit does keeps the invariant, if it keeps its own part.         *)
OwnPart(k) ==
    /\ Fine(k)'
    /\ \A f \in audit'[k].crawl.found : f.page \in audit'[k].crawl.pages
    /\ audit'[k].kind # "page" => audit'[k].pages = audit'[k].crawl.pages

LEMMA OneAudit ==
    ASSUME IInv, TypeOK', NEW k \in Auditors, OwnPart(k),
           \A j \in Auditors \ {k} : audit'[j] = audit[j],
           \/ UNCHANGED issue /\ \A j \in Auditors \ {k} : j \in touched => j \in touched'
           \/ Touch(k),
           \A f \in stored'.found : f.page \in stored'.pages
    PROVE  IInv'
<1>1. Held'
    BY DEF IInv, Held, OwnPart
<1>2. ASSUME NEW j \in Auditors
      PROVE  Fine(j)'
    <2>1. CASE j = k
        BY <2>1 DEF OwnPart
    <2>2. CASE j # k
        <3>1. \/ UNCHANGED issue /\ (j \in touched => j \in touched')
              \/ audit[j].pc # "idle" => j \in touched'
            BY <2>2 DEF Touch
        <3>2. Fine(j) /\ audit'[j] = audit[j]
            BY <2>2 DEF IInv
        <3> QED
            BY <3>1, <3>2, OtherFine
    <2> QED
        BY <2>1, <2>2
<1> QED
    BY <1>1, <1>2 DEF IInv

(* What nobody of the audits does.                                            *)
LEMMA NoAudit ==
    ASSUME IInv, TypeOK', UNCHANGED <<audit, stored>>,
           \/ UNCHANGED <<issue, touched>>
           \/ touched' = touched \cup {k \in Auditors : audit[k].pc # "idle"}
    PROVE  IInv'
<1>1. Held'
    BY DEF IInv, Held
<1>2. ASSUME NEW j \in Auditors
      PROVE  Fine(j)'
    <2>1. \/ UNCHANGED issue /\ (j \in touched => j \in touched')
          \/ audit[j].pc # "idle" => j \in touched'
        OBVIOUS
    <2>2. Fine(j) /\ audit'[j] = audit[j]
        BY DEF IInv
    <2> QED
        BY <2>1, <2>2, OtherFine
<1> QED
    BY <1>1, <1>2 DEF IInv

LEMMA ReconcileInv ==
    ASSUME IInv, NEW k \in Auditors, NEW c \in SUBSET Fingerprints,
           ReadIssues(k) \/ CreateChunk(k, c) \/ UpdateChunk(k, c) \/ ResolveChunk(k, c)
    PROVE  IInv'
<1> USE DEF IInv
<1>1. CASE ReadIssues(k)
    <2>1. /\ audit' \in [Auditors -> AuditRecords] /\ \A j \in Auditors \ {k} : audit'[j] = audit[j]
          /\ audit'[k].crawl = audit[k].crawl /\ audit'[k].pages = audit[k].pages
          /\ audit'[k].kind = audit[k].kind
        BY <1>1, ReadTyped
    <2>2. UNCHANGED <<scale, live, stored, issue, job, score, events, touched>>
        BY <1>1 DEF ReadIssues
    <2>3. TypeOK'
        BY <2>1, <2>2 DEF TypeOK
    <2>4. OwnPart(k)
        BY <1>1, <2>1, ReadFine DEF OwnPart, Held
    <2> QED
        BY <2>1, <2>2, <2>3, <2>4, OneAudit DEF Held
<1>2. CASE CreateChunk(k, c)
    <2>1. /\ audit' \in [Auditors -> AuditRecords] /\ \A j \in Auditors \ {k} : audit'[j] = audit[j]
          /\ audit'[k].crawl = audit[k].crawl /\ audit'[k].pages = audit[k].pages
          /\ audit'[k].kind = audit[k].kind
        BY <1>2, CreateShortens
    <2>2. /\ UNCHANGED <<scale, live, stored, job, score, events>> /\ Touch(k)
          /\ issue' = [f \in Fingerprints |-> IF f \in c THEN Created(issue[f]) ELSE issue[f]]
        BY <1>2 DEF CreateChunk
    <2>3. TypeOK'
        BY <2>1, <2>2 DEF TypeOK, Created, Statuses, Open, Touch
    <2>4. OwnPart(k)
        BY <1>2, <2>1, CreateFine DEF OwnPart, Held
    <2> QED
        BY <2>1, <2>2, <2>3, <2>4, OneAudit DEF Held
<1>3. CASE UpdateChunk(k, c)
    <2>1. /\ audit' \in [Auditors -> AuditRecords] /\ \A j \in Auditors \ {k} : audit'[j] = audit[j]
          /\ audit'[k].crawl = audit[k].crawl /\ audit'[k].pages = audit[k].pages
          /\ audit'[k].kind = audit[k].kind
        BY <1>3, UpdateShortens
    <2>2. /\ UNCHANGED <<scale, live, stored, job, score, events>> /\ Touch(k)
          /\ issue' = [f \in Fingerprints |-> IF f \in c THEN Regressed ELSE issue[f]]
        BY <1>3 DEF UpdateChunk, Write
    <2>3. TypeOK'
        BY <2>1, <2>2 DEF TypeOK, Regressed, Statuses, Open, Touch
    <2>4. OwnPart(k)
        BY <1>3, <2>1, UpdateFine DEF OwnPart, Held
    <2> QED
        BY <2>1, <2>2, <2>3, <2>4, OneAudit DEF Held
<1>4. CASE ResolveChunk(k, c)
    <2>1. /\ audit' \in [Auditors -> AuditRecords] /\ \A j \in Auditors \ {k} : audit'[j] = audit[j]
          /\ audit'[k].crawl = audit[k].crawl /\ audit'[k].pages = audit[k].pages
          /\ audit'[k].kind = audit[k].kind
        BY <1>4, ResolveShortens
    <2>2. /\ UNCHANGED <<scale, live, stored, job, score, events>> /\ Touch(k)
          /\ issue' = [f \in Fingerprints |-> IF f \in c THEN "RESOLVED" ELSE issue[f]]
        BY <1>4 DEF ResolveChunk, Write
    <2>3. TypeOK'
        BY <2>1, <2>2 DEF TypeOK, Statuses, Open, Touch
    <2>4. OwnPart(k)
        BY <1>4, <2>1, ResolveFine DEF OwnPart, Held
    <2> QED
        BY <2>1, <2>2, <2>3, <2>4, OneAudit DEF Held
<1> QED
    BY <1>1, <1>2, <1>3, <1>4

LEMMA EndInv ==
    ASSUME IInv, NEW k \in Auditors,
           Finish(k) \/ ReadScores(k) \/ WriteScores(k) \/ Retry(k) \/ GiveUp(k)
    PROVE  IInv'
<1> USE DEF IInv
<1>1. CASE Finish(k) \/ WriteScores(k) \/ GiveUp(k)
    <2>1. audit' = [audit EXCEPT ![k] = IdleAudit]
        BY <1>1 DEF Finish, WriteScores, GiveUp
    <2>2. /\ audit' \in [Auditors -> AuditRecords]
          /\ audit'[k] = IdleAudit /\ \A j \in Auditors \ {k} : audit'[j] = audit[j]
        BY <2>1, EndTyped
    <2>3. UNCHANGED <<scale, live, stored, issue, touched>>
        BY <1>1 DEF Finish, WriteScores, GiveUp, Fails
    <2>4. events' \in 0..scale'.events
        BY <1>1, <2>3, HappensTyped DEF Finish, WriteScores, GiveUp, Fails, TypeOK
    <2>5. job' \in [pc : {"idle", "lost", "queued", "write", "ending"}, seen : SUBSET Fingerprints]
        BY <1>1 DEF Finish, Enqueued, WriteScores, GiveUp, Fails, TypeOK
    <2>6. score' \subseteq Fingerprints
        BY <1>1 DEF Finish, WriteScores, GiveUp, Fails, TypeOK, AuditRecords
    <2>7. TypeOK'
        BY <2>2, <2>3, <2>4, <2>5, <2>6 DEF TypeOK
    <2>8. OwnPart(k)
        BY <2>2, IdleTyped, OutsideFine DEF OwnPart, Reconciling
    <2> QED
        BY <2>2, <2>3, <2>7, <2>8, OneAudit DEF Held
<1>2. CASE ReadScores(k)
    <2>1. /\ audit' \in [Auditors -> AuditRecords] /\ \A j \in Auditors \ {k} : audit'[j] = audit[j]
          /\ audit'[k].crawl = audit[k].crawl /\ audit'[k].pages = audit[k].pages
          /\ audit'[k].kind = audit[k].kind /\ audit'[k].pc = "write"
        BY <1>2, ReadScoresTyped
    <2>2. UNCHANGED <<scale, live, stored, issue, job, score, events, touched>>
        BY <1>2 DEF ReadScores
    <2>3. TypeOK'
        BY <2>1, <2>2 DEF TypeOK
    <2>4. OwnPart(k)
        BY <2>1, OutsideFine DEF OwnPart, Held, Reconciling
    <2> QED
        BY <2>1, <2>2, <2>3, <2>4, OneAudit DEF Held
<1>3. CASE Retry(k)
    <2>1. /\ audit' \in [Auditors -> AuditRecords] /\ \A j \in Auditors \ {k} : audit'[j] = audit[j]
          /\ audit'[k].pc \in {"idle", "read"}
          /\ \A f \in audit'[k].crawl.found : f.page \in audit'[k].crawl.pages
          /\ audit'[k].kind # "page" => audit'[k].pages = audit'[k].crawl.pages
        BY <1>3, RetryTyped
    <2>2. /\ UNCHANGED <<scale, live, stored, issue, job, score>> /\ Happens
          /\ touched' = touched \ {k}
        BY <1>3 DEF Retry, Fails
    <2>3. TypeOK'
        BY <2>1, <2>2, HappensTyped DEF TypeOK
    <2>4. OwnPart(k)
        BY <2>1, OutsideFine DEF OwnPart, Reconciling
    <2> QED
        BY <2>1, <2>2, <2>3, <2>4, OneAudit DEF Held
<1> QED
    BY <1>1, <1>2, <1>3

LEMMA StartInv ==
    ASSUME IInv, NEW k \in Auditors,
           (\E pages \in SUBSET Pages : Crawl(k, pages)) \/ StartFull(k)
               \/ \E p \in Pages : StartPage(k, p)
    PROVE  IInv'
<1> USE DEF IInv
<1>1. ASSUME NEW kind \in {"chain", "full", "page"}, NEW pages \in SUBSET Pages,
             NEW c \in Crawls, Begin(k, kind, pages, c), kind # "page" => pages = c.pages,
             \A f \in c.found : f.page \in c.pages,
             stored' \in Crawls, \A f \in stored'.found : f.page \in stored'.pages,
             UNCHANGED <<scale, live, issue, job, score>>, events' \in 0..scale'.events
      PROVE  IInv'
    <2>1. /\ audit' \in [Auditors -> AuditRecords] /\ touched' \subseteq Auditors
          /\ audit'[k].pc = "read" /\ audit'[k].kind = kind /\ audit'[k].pages = pages
          /\ audit'[k].crawl = c
          /\ \A j \in Auditors \ {k} :
                audit'[j] = audit[j] /\ (j \in touched' <=> j \in touched)
        <3> DEFINE r == [IdleAudit EXCEPT !.pc = "read", !.kind = kind, !.pages = pages, !.crawl = c]
        <3>1. /\ r \in AuditRecords /\ r.pc = "read" /\ r.kind = kind /\ r.pages = pages
              /\ r.crawl = c
            BY DEF AuditRecords, IdleAudit
        <3>2. audit' = [audit EXCEPT ![k] = r] /\ touched' = touched \ {k} /\ TypeOK
            BY <1>1 DEF Begin, IInv
        <3> HIDE DEF r
        <3>3. /\ audit' \in [Auditors -> AuditRecords]
              /\ audit'[k] = r /\ \A j \in Auditors \ {k} : audit'[j] = audit[j]
            BY <3>1, <3>2 DEF TypeOK
        <3>4. touched' \subseteq Auditors /\ \A j \in Auditors \ {k} : j \in touched' <=> j \in touched
            BY <3>2 DEF TypeOK
        <3> QED
            BY <3>1, <3>3, <3>4
    <2>2. TypeOK'
        BY <1>1, <2>1 DEF TypeOK
    <2>3. OwnPart(k)
        BY <1>1, <2>1, OutsideFine DEF OwnPart, Reconciling
    <2> QED
        BY <1>1, <2>1, <2>2, <2>3, OneAudit
<1>2. events \in 0..scale.events /\ stored \in Crawls
    BY DEF TypeOK
<1>3. ASSUME NEW pages \in SUBSET Pages, Crawl(k, pages)
      PROVE  IInv'
    <2> DEFINE c == [pages |-> pages, found |-> {f \in live : f.page \in pages}]
    <2>1. c \in Crawls /\ c.pages = pages /\ \A f \in c.found : f.page \in c.pages
        BY CrawlTyped
    <2>2. /\ stored' = c /\ Begin(k, "chain", pages, c)
          /\ UNCHANGED <<scale, live, issue, job, score>>
          /\ UNCHANGED events \/ Happens
        BY <1>3 DEF Crawl
    <2> HIDE DEF c
    <2>3. events' \in 0..scale'.events
        BY <1>2, <2>2, HappensTyped
    <2> QED
        BY <1>1, <2>1, <2>2, <2>3
<1>4. CASE StartFull(k)
    <2>1. /\ Begin(k, "full", stored.pages, stored)
          /\ UNCHANGED <<scale, live, stored, issue, job, score, events>>
        BY <1>4 DEF StartFull
    <2>2. stored.pages \in SUBSET Pages
        BY <1>2 DEF Crawls
    <2> QED
        BY <1>1, <1>2, <2>1, <2>2 DEF Held
<1>5. ASSUME NEW p \in Pages, StartPage(k, p)
      PROVE  IInv'
    <2>1. /\ Begin(k, "page", {p}, stored) /\ Happens
          /\ UNCHANGED <<scale, live, stored, issue, job, score>>
        BY <1>5 DEF StartPage
    <2>2. events' \in 0..scale'.events /\ {p} \in SUBSET Pages
        BY <2>1, HappensTyped
    <2> QED
        BY <1>1, <1>2, <2>1, <2>2 DEF Held
<1> QED
    BY <1>3, <1>4, <1>5

LEMMA OthersInv ==
    ASSUME IInv,
           \/ \E f \in Fingerprints :
                 \/ SiteChanges(f)
                 \/ \E status \in {"IGNORED", "RESOLVED", "IN_PROGRESS", "OPEN"} :
                       Triage(f, status)
           \/ JobStep \/ PushLands
    PROVE  IInv'
<1> USE DEF IInv
<1>1. ASSUME NEW f \in Fingerprints, SiteChanges(f)
      PROVE  IInv'
    <2>1. UNCHANGED <<scale, stored, issue, audit, job, score, touched>> /\ Happens
        BY <1>1 DEF SiteChanges
    <2>2. live' \subseteq Fingerprints
        BY <1>1 DEF SiteChanges, TypeOK
    <2>3. TypeOK'
        BY <2>1, <2>2, HappensTyped DEF TypeOK
    <2> QED
        BY <2>1, <2>3, NoAudit
<1>2. ASSUME NEW f \in Fingerprints, NEW status \in {"IGNORED", "RESOLVED", "IN_PROGRESS", "OPEN"},
             Triage(f, status)
      PROVE  IInv'
    <2>1. /\ Happens /\ UNCHANGED <<scale, live, stored, audit, job, score>>
          /\ issue' = [issue EXCEPT ![f] = status]
          /\ touched' = touched \cup {k \in Auditors : audit[k].pc # "idle"}
        BY <1>2 DEF Triage
    <2>2. TypeOK'
        BY <2>1, HappensTyped DEF TypeOK, Statuses, Open
    <2> QED
        BY <2>1, <2>2, NoAudit
<1>3. CASE JobStep \/ PushLands
    <2>1. UNCHANGED <<scale, live, stored, issue, audit, events, touched>>
        BY <1>3 DEF JobStep, JobReads, JobWrites, JobEnds, PushLands
    <2>2. job' \in [pc : {"idle", "lost", "queued", "write", "ending"}, seen : SUBSET Fingerprints]
          /\ score' \subseteq Fingerprints
        BY <1>3 DEF JobStep, JobReads, JobWrites, JobEnds, PushLands, OpenNow, TypeOK
    <2>3. TypeOK'
        BY <2>1, <2>2 DEF TypeOK
    <2> QED
        BY <2>1, <2>3, NoAudit
<1> QED
    BY <1>1, <1>2, <1>3

LEMMA NextInv == IInv /\ [Next]_vars => IInv'
<1> SUFFICES ASSUME IInv, [Next]_vars PROVE IInv'
    OBVIOUS
<1>1. ASSUME NEW k \in Auditors, AuditStep(k)
      PROVE  IInv'
    BY <1>1, ReconcileInv, EndInv DEF AuditStep
<1>2. CASE UNCHANGED vars
    BY <1>2, NoAudit DEF vars, IInv, TypeOK
<1> QED
    BY <1>1, <1>2, EndInv, StartInv, OthersInv DEF Next

LEMMA Invariance == Spec => []IInv
<1>1. Init => IInv
    BY InitInv
<1>2. IInv /\ [Next]_vars => IInv'
    BY NextInv
<1> QED
    BY <1>1, <1>2, PTL DEF Spec

(* Type correctness, and that a crawl found nothing where it was not.         *)
THEOREM TypeCorrect == Spec => [](TypeOK /\ Held)
<1>1. IInv => TypeOK /\ Held
    BY DEF IInv
<1> QED
    BY <1>1, Invariance, PTL

-----------------------------------------------------------------------------
(* What a step does to an issue and to an audit.                              *)

LEMMA WhoWrites ==
    ASSUME IInv, Next, issue' # issue, audit' # audit
    PROVE  \E k \in Auditors, c \in SUBSET Fingerprints :
              CreateChunk(k, c) \/ UpdateChunk(k, c) \/ ResolveChunk(k, c)
<1>1. /\ \A f \in Fingerprints, status \in {"IGNORED", "RESOLVED", "IN_PROGRESS", "OPEN"} :
            ~SiteChanges(f) /\ ~Triage(f, status)
      /\ ~JobStep /\ ~PushLands
    BY DEF SiteChanges, Triage, JobStep, JobReads, JobWrites, JobEnds, PushLands
<1>2. \A k \in Auditors :
         /\ \A pages \in SUBSET Pages : ~Crawl(k, pages)
         /\ ~StartFull(k)
         /\ \A p \in Pages : ~StartPage(k, p)
         /\ ~ReadIssues(k) /\ ~Finish(k) /\ ~ReadScores(k) /\ ~WriteScores(k)
         /\ ~Retry(k) /\ ~GiveUp(k)
    BY DEF Crawl, StartFull, StartPage, ReadIssues, Finish, ReadScores, WriteScores, Retry,
           GiveUp, Fails
<1> QED
    BY <1>1, <1>2 DEF Next, AuditStep

(* No audit turns a resolved finding into an open one, whatever the overlap   *)
(* of audits, retries and triage (reconcileIssues).                           *)
THEOREM RegressionsShow == Spec => NeverReopened
<1>1. ASSUME IInv, [Next]_vars, NEW f \in Fingerprints,
             issue[f] = "RESOLVED", issue'[f] # "RESOLVED", audit' # audit
      PROVE  issue'[f] = "REGRESSED"
    <2>1. Next
        BY <1>1 DEF vars
    <2>2. PICK k \in Auditors, c \in SUBSET Fingerprints :
             CreateChunk(k, c) \/ UpdateChunk(k, c) \/ ResolveChunk(k, c)
        BY <1>1, <2>1, WhoWrites
    <2> QED
        BY <1>1, <2>2 DEF CreateChunk, Created, UpdateChunk, ResolveChunk, Write, Regressed
<1>2. IInv /\ [Next]_vars =>
         [\A f \in Fingerprints :
             issue[f] = "RESOLVED" /\ issue'[f] # "RESOLVED" /\ audit' # audit
                 => issue'[f] = "REGRESSED"]_vars
    BY <1>1
<1> QED
    BY <1>2, Invariance, PTL DEF Spec, NeverReopened

(* A finding that the operator ignored stays so through every audit that      *)
(* began after the decision: what such an audit writes, it read.              *)
LEMMA IgnoredUnwritten ==
    ASSUME IInv, [Next]_vars, NEW f \in Fingerprints, NEW k \in Auditors,
           audit'[k] # audit[k], k \notin touched, issue[f] = "IGNORED"
    PROVE  issue'[f] = "IGNORED"
<1>1. SUFFICES ASSUME issue' # issue PROVE issue'[f] = "IGNORED"
    OBVIOUS
<1>2. Next /\ audit' # audit
    BY <1>1 DEF vars
<1>3. PICK j \in Auditors, c \in SUBSET Fingerprints :
         CreateChunk(j, c) \/ UpdateChunk(j, c) \/ ResolveChunk(j, c)
    BY <1>1, <1>2, WhoWrites
<1>4. j = k
    BY <1>3, CreateShortens, UpdateShortens, ResolveShortens DEF IInv
<1>5. Fine(k)
    BY DEF IInv
<1>6. CASE CreateChunk(k, c)
    BY <1>6 DEF CreateChunk, Created
<1>7. CASE UpdateChunk(k, c)
    <2>1. c \subseteq audit[k].update /\ Settling(k)
        BY <1>5, <1>7, UpdateShortens DEF IInv, Fine, Reconciling, UpdateChunk
    <2>2. f \notin c
        BY <2>1 DEF Settling
    <2> QED
        BY <1>7, <2>2 DEF UpdateChunk, Write
<1>8. CASE ResolveChunk(k, c)
    <2>1. c \subseteq audit[k].resolve /\ Settling(k)
        BY <1>5, <1>8, ResolveShortens DEF IInv, Fine, Reconciling, ResolveChunk
    <2>2. f \notin c
        BY <2>1 DEF Settling, Open
    <2> QED
        BY <1>8, <2>2 DEF ResolveChunk, Write
<1> QED
    BY <1>3, <1>4, <1>6, <1>7, <1>8

THEOREM IgnoredHolds == Spec => IgnoredStays
<1>1. IInv /\ [Next]_vars =>
         [\A f \in Fingerprints, k \in Auditors :
             /\ audit'[k] # audit[k] /\ k \notin touched
             /\ issue[f] = "IGNORED"
             => issue'[f] = "IGNORED"]_vars
    BY IgnoredUnwritten
<1> QED
    BY <1>1, Invariance, PTL DEF Spec, IgnoredStays

(* An audit of a whole crawl that nobody disturbed leaves the findings of     *)
(* that crawl open or ignored and nothing else open, whatever the chunks and  *)
(* the attempts it took.                                                      *)
LEMMA LastChunk ==
    ASSUME IInv, [Next]_vars, NEW k \in Auditors,
           audit[k].pc = "resolve", audit'[k].pc # "resolve", events' = events,
           audit[k].kind # "page", k \notin touched
    PROVE  \A f \in Fingerprints :
              /\ f \in audit[k].crawl.found => issue'[f] \in Open \cup {"IGNORED"}
              /\ f \notin audit[k].crawl.found => issue'[f] \notin Open
<1>1. PICK c \in SUBSET Fingerprints : ResolveChunk(k, c)
    <2>1. Next /\ audit' # audit
        BY DEF vars
    <2>2. ~Happens
        BY ScaleTyped DEF IInv, Happens
    <2>3. PICK j \in Auditors : (AuditStep(j) \/ (\E p \in SUBSET Pages : Crawl(j, p)) \/ StartFull(j))
        BY <2>1, <2>2 DEF Next, SiteChanges, Triage, StartPage, Retry, GiveUp, Fails, JobStep,
                          JobReads, JobWrites, JobEnds, PushLands
    <2>4. ~((\E p \in SUBSET Pages : Crawl(j, p)) \/ StartFull(j))
        BY DEF Crawl, StartFull, Begin, IInv, TypeOK
    <2>5. j = k
        <3> SUFFICES ASSUME j # k PROVE FALSE
            OBVIOUS
        <3>1. audit'[k] = audit[k]
            BY <2>3, <2>4, ReadTyped, ReadScoresTyped, CreateShortens, UpdateShortens,
               ResolveShortens, EndTyped DEF AuditStep, Finish, WriteScores, IInv
        <3> QED
            BY <3>1
    <2> QED
        BY <2>3, <2>4, <2>5
           DEF AuditStep, ReadIssues, CreateChunk, UpdateChunk, Finish, ReadScores, WriteScores
<1>2. c = audit[k].resolve
    BY <1>1, ResolveShortens DEF IInv
<1>3. /\ Settling(k) /\ audit[k].create = {} /\ audit[k].update = {}
      /\ audit[k].resolve \cap Drafts(k) = {}
    BY DEF IInv, Fine, Ordered, Reconciling
<1>4. Drafts(k) = audit[k].crawl.found
    BY DEF IInv, Held, Drafts
<1>5. issue' = [f \in Fingerprints |-> IF f \in c THEN "RESOLVED" ELSE issue[f]]
    BY <1>1 DEF ResolveChunk, Write
<1> QED
    BY <1>2, <1>3, <1>4, <1>5 DEF Settling, Open

THEOREM AuditsSettle == Spec => AuditSettles
<1>1. IInv /\ [Next]_vars =>
         [\A k \in Auditors :
             /\ audit[k].pc = "resolve" /\ audit'[k].pc # "resolve" /\ events' = events
             /\ audit[k].kind # "page" /\ k \notin touched
             => \A f \in Fingerprints :
                   /\ f \in audit[k].crawl.found => issue'[f] \in Open \cup {"IGNORED"}
                   /\ f \notin audit[k].crawl.found => issue'[f] \notin Open]_vars
    BY LastChunk
<1> QED
    BY <1>1, Invariance, PTL DEF Spec, AuditSettles

-----------------------------------------------------------------------------
(* What an audit holds when the table says what is wrong with the site.       *)
Calm(k) ==
    audit[k].pc # "idle" =>
        /\ audit[k].crawl = stored /\ audit[k].pages = Pages
        /\ audit[k].pc \in Reconciling =>
              audit[k].create = {} /\ audit[k].update = {} /\ audit[k].resolve = {}
        /\ audit[k].pc = "write" => audit[k].open = OpenNow

TableSays ==
    /\ \A f \in Fingerprints : IF f \in live THEN issue[f] \in Open \cup {"IGNORED"}
                                ELSE issue[f] \notin Open
    /\ score = OpenNow
    /\ stored = [pages |-> Pages, found |-> live]
    /\ job.pc = "write" => job.seen = OpenNow

LEMMA AgreedParts == Agreed <=> TableSays /\ \A k \in Auditors : Calm(k)
BY DEF Agreed, TableSays, Calm, Reconciling

(* The steps of one audit: the table, the crawl and the site are as they      *)
(* were, and only its record changes.                                         *)
LEMMA OneCalm ==
    ASSUME Agreed, NEW k \in Auditors, UNCHANGED <<live, stored, issue>>, score' = score,
           job'.pc = "write" => job.pc = "write" /\ job'.seen = job.seen,
           \A j \in Auditors \ {k} : audit'[j] = audit[j], Calm(k)'
    PROVE  Agreed'
<1>1. OpenNow' = OpenNow
    BY DEF OpenNow
<1>2. TableSays /\ \A j \in Auditors : Calm(j)
    BY AgreedParts
<1>3. TableSays'
    BY <1>1, <1>2 DEF TableSays
<1>4. ASSUME NEW j \in Auditors, j # k
      PROVE  Calm(j)'
    BY <1>1, <1>2, <1>4 DEF Calm
<1>5. \A j \in Auditors : Calm(j)'
    BY <1>4
<1> QED
    BY <1>3, <1>5 DEF Agreed, TableSays, Calm, Reconciling

(* An audit that reads the statuses then finds nothing to write.              *)
LEMMA NothingToDo ==
    ASSUME IInv, Agreed, NEW k \in Auditors, audit[k].pc # "idle"
    PROVE  New(k) = {} /\ Returned(k) = {} /\ Absent(k) = {}
<1>1. /\ audit[k].crawl = stored /\ audit[k].pages = Pages
      /\ stored = [pages |-> Pages, found |-> live]
      /\ \A f \in Fingerprints : IF f \in live THEN issue[f] \in Open \cup {"IGNORED"}
                                  ELSE issue[f] \notin Open
    BY DEF Agreed
<1>2. live \subseteq Fingerprints
    BY DEF IInv, TypeOK
<1>3. \A f \in live : f.page \in Pages
    BY <1>2 DEF Fingerprints
<1>4. Drafts(k) = live
    BY <1>1, <1>3 DEF Drafts
<1> QED
    BY <1>1, <1>2, <1>4 DEF New, Returned, Absent, OpenNow, Open

(* An audit that starts, or starts again, on the latest crawl, all of it.     *)
LEMMA StartCalm ==
    ASSUME TypeOK, NEW k \in Auditors, NEW kind \in {"chain", "full", "page"},
           stored' = stored, stored \in Crawls,
           audit' = [audit EXCEPT ![k] = [IdleAudit EXCEPT !.pc = "read", !.kind = kind,
                                                           !.pages = Pages, !.crawl = stored]]
    PROVE  Calm(k)' /\ \A j \in Auditors \ {k} : audit'[j] = audit[j]
<1> DEFINE r == [IdleAudit EXCEPT !.pc = "read", !.kind = kind, !.pages = Pages, !.crawl = stored]
<1>1. Pages \in SUBSET Pages
    OBVIOUS
<1>2. r \in AuditRecords /\ r.pc = "read" /\ r.pages = Pages /\ r.crawl = stored
    BY <1>1 DEF AuditRecords, IdleAudit
<1>3. audit' = [audit EXCEPT ![k] = r]
    OBVIOUS
<1> HIDE DEF r
<1>4. audit'[k] = r /\ \A j \in Auditors \ {k} : audit'[j] = audit[j]
    BY <1>2, <1>3, AuditTyped
<1> QED
    BY <1>2, <1>4 DEF Calm, Reconciling

LEMMA RetryAgrees ==
    ASSUME IInv, Agreed, NEW k \in Auditors, Retry(k)
    PROVE  Agreed'
<1>1. audit[k].pc # "idle" /\ UNCHANGED <<live, stored, issue, job, score>>
    BY DEF Retry, Fails
<1>2. /\ audit[k].crawl = stored /\ audit[k].pages = Pages
      /\ stored = [pages |-> Pages, found |-> live]
    BY <1>1 DEF Agreed
<1>3. TypeOK /\ stored \in Crawls /\ audit[k].kind \in {"chain", "full", "page"}
    BY DEF IInv, TypeOK, AuditRecords
<1>4. stored.pages = Pages
    BY <1>2
<1>5. audit' = [audit EXCEPT ![k] = [IdleAudit EXCEPT !.pc = "read", !.kind = audit[k].kind,
                                                      !.pages = Pages, !.crawl = stored]]
    BY <1>2, <1>4 DEF Retry
<1>6. Calm(k)' /\ \A j \in Auditors \ {k} : audit'[j] = audit[j]
    BY <1>1, <1>3, <1>5, StartCalm
<1> QED
    BY <1>1, <1>6, OneCalm

LEMMA EndAgrees ==
    ASSUME IInv, Agreed, NEW k \in Auditors, Finish(k) \/ WriteScores(k) \/ GiveUp(k)
    PROVE  Agreed'
<1>1. audit' = [audit EXCEPT ![k] = IdleAudit] /\ TypeOK
    BY DEF Finish, WriteScores, GiveUp, IInv
<1>2. audit'[k] = IdleAudit /\ \A j \in Auditors \ {k} : audit'[j] = audit[j]
    BY <1>1, EndTyped
<1>3. Calm(k)'
    BY <1>2, IdleTyped DEF Calm
<1>4. UNCHANGED <<live, stored, issue>>
    BY DEF Finish, WriteScores, GiveUp, Fails
<1>5. score' = score
    BY DEF Finish, WriteScores, GiveUp, Fails, Agreed
<1>6. job'.pc = "write" => job.pc = "write" /\ job'.seen = job.seen
    BY <1>1 DEF Finish, Enqueued, WriteScores, GiveUp, Fails, TypeOK
<1> QED
    BY <1>2, <1>3, <1>4, <1>5, <1>6, OneCalm

LEMMA ReadAgrees ==
    ASSUME IInv, Agreed, NEW k \in Auditors, ReadIssues(k) \/ ReadScores(k)
    PROVE  Agreed'
<1>1. TypeOK /\ audit[k].pc # "idle"
    BY DEF IInv, ReadIssues, ReadScores
<1>2. /\ UNCHANGED <<live, stored, issue, job, score>>
      /\ audit[k].crawl = stored /\ audit[k].pages = Pages
    BY <1>1 DEF Agreed, ReadIssues, ReadScores
<1>3. CASE ReadIssues(k)
    <2>1. /\ \A j \in Auditors \ {k} : audit'[j] = audit[j]
          /\ audit'[k].crawl = audit[k].crawl /\ audit'[k].pages = audit[k].pages
          /\ audit'[k].pc = "create"
          /\ audit'[k].create = {} /\ audit'[k].update = {} /\ audit'[k].resolve = {}
        BY <1>1, <1>3, ReadTyped, NothingToDo
    <2>2. Calm(k)'
        BY <1>2, <2>1 DEF Calm
    <2> QED
        BY <1>2, <2>1, <2>2, OneCalm
<1>4. CASE ReadScores(k)
    <2>1. /\ \A j \in Auditors \ {k} : audit'[j] = audit[j]
          /\ audit'[k].crawl = audit[k].crawl /\ audit'[k].pages = audit[k].pages
          /\ audit'[k].pc = "write"
        BY <1>1, <1>4, ReadScoresTyped
    <2>2. audit'[k].open = OpenNow
        BY <1>1, <1>4 DEF ReadScores, TypeOK, AuditRecords
    <2>3. OpenNow' = OpenNow
        BY <1>2 DEF OpenNow
    <2>4. Calm(k)'
        BY <1>2, <2>1, <2>2, <2>3 DEF Calm, Reconciling
    <2> QED
        BY <1>2, <2>1, <2>4, OneCalm
<1> QED
    BY <1>3, <1>4

(* The chunks are of nothing.                                                 *)
LEMMA ChunkAgrees ==
    ASSUME IInv, Agreed, NEW k \in Auditors, NEW c \in SUBSET Fingerprints,
           CreateChunk(k, c) \/ UpdateChunk(k, c) \/ ResolveChunk(k, c)
    PROVE  Agreed'
<1>1. TypeOK /\ audit[k].pc \in Reconciling
    BY DEF IInv, CreateChunk, UpdateChunk, ResolveChunk, Reconciling
<1>2. /\ audit[k].crawl = stored /\ audit[k].pages = Pages
      /\ audit[k].create = {} /\ audit[k].update = {} /\ audit[k].resolve = {}
    BY <1>1 DEF Agreed, Reconciling
<1>3. /\ \A j \in Auditors \ {k} : audit'[j] = audit[j]
      /\ audit'[k].crawl = audit[k].crawl /\ audit'[k].pages = audit[k].pages
      /\ audit'[k].create = {} /\ audit'[k].update = {} /\ audit'[k].resolve = {}
      /\ audit'[k].pc # "write" /\ c = {}
    BY <1>1, <1>2, CreateShortens, UpdateShortens, ResolveShortens
<1>4. issue' = issue
    BY <1>1, <1>3 DEF CreateChunk, UpdateChunk, ResolveChunk, Write, TypeOK
<1>5. UNCHANGED <<live, stored, job, score>>
    BY DEF CreateChunk, UpdateChunk, ResolveChunk, Write
<1>6. Calm(k)'
    BY <1>2, <1>3, <1>5 DEF Calm
<1> QED
    BY <1>3, <1>4, <1>5, <1>6, OneCalm

(* A crawl of all the pages finds what the last one found.                    *)
LEMMA CrawlAgrees ==
    ASSUME IInv, Agreed, NEW k \in Auditors, Crawl(k, Pages) \/ StartFull(k)
    PROVE  Agreed'
<1>1. /\ TypeOK /\ stored \in Crawls /\ live \subseteq Fingerprints
      /\ stored = [pages |-> Pages, found |-> live]
    BY DEF IInv, TypeOK, Agreed
<1>2. stored.pages = Pages /\ {f \in live : f.page \in Pages} = live
    BY <1>1 DEF Fingerprints
<1>3. UNCHANGED <<live, issue, job, score>>
    BY DEF Crawl, StartFull
<1>4. stored' = stored
    BY <1>1, <1>2 DEF Crawl, StartFull
<1>5. Begin(k, "chain", Pages, stored) \/ Begin(k, "full", Pages, stored)
    BY <1>1, <1>2 DEF Crawl, StartFull
<1>6. Calm(k)' /\ \A j \in Auditors \ {k} : audit'[j] = audit[j]
    BY <1>1, <1>4, <1>5, StartCalm DEF Begin
<1> QED
    BY <1>3, <1>4, <1>6, OneCalm

LEMMA JobAgrees ==
    ASSUME IInv, Agreed, JobStep \/ PushLands
    PROVE  Agreed'
<1>1. UNCHANGED <<live, stored, issue, audit>> /\ OpenNow' = OpenNow
    BY DEF JobStep, JobReads, JobWrites, JobEnds, PushLands, OpenNow
<1>2. TableSays /\ \A k \in Auditors : Calm(k)
    BY AgreedParts
<1>3. score' = score /\ (job'.pc = "write" => job'.seen = OpenNow)
    BY <1>2 DEF JobStep, JobReads, JobWrites, JobEnds, PushLands, TableSays, IInv, TypeOK
<1>4. TableSays'
    BY <1>1, <1>2, <1>3 DEF TableSays
<1>5. \A k \in Auditors : Calm(k)'
    BY <1>1, <1>2 DEF Calm
<1> QED
    BY <1>4, <1>5 DEF Agreed, TableSays, Calm, Reconciling

(* Once the table, the latest crawl, the score and what is under way agree    *)
(* with the site, no audit and no score job takes that apart, whichever       *)
(* overlap, whichever fail and whichever push is lost.                        *)
THEOREM AgreementHolds == Spec => AgreedStays
<1>1. ASSUME IInv, [Next]_vars, Agreed,
             events' = events \/ \E k \in Auditors : Retry(k) \/ GiveUp(k) \/ Finish(k)
      PROVE  Agreed'
    <2>1. CASE UNCHANGED vars
        <3>1. Agreed' = Agreed
            BY <2>1 DEF vars, Agreed, OpenNow
        <3> QED
            BY <1>1, <3>1
    <2>2. CASE \E k \in Auditors : Retry(k) \/ GiveUp(k) \/ Finish(k)
        BY <1>1, <2>2, RetryAgrees, EndAgrees
    <2>3. CASE Next /\ events' = events
        <3>1. ~Happens
            BY <1>1, <2>3, ScaleTyped DEF IInv, Happens
        <3>2. CASE JobStep \/ PushLands
            BY <1>1, <3>2, JobAgrees
        <3>3. ASSUME NEW k \in Auditors, AuditStep(k)
              PROVE  Agreed'
            BY <1>1, <3>3, ReadAgrees, ChunkAgrees, EndAgrees DEF AuditStep
        <3>4. ASSUME NEW k \in Auditors, NEW pages \in SUBSET Pages, Crawl(k, pages)
              PROVE  Agreed'
            BY <1>1, <3>1, <3>4, CrawlAgrees DEF Crawl
        <3>5. ASSUME NEW k \in Auditors, StartFull(k)
              PROVE  Agreed'
            BY <1>1, <3>5, CrawlAgrees
        <3>6. /\ \A f \in Fingerprints :
                    /\ ~SiteChanges(f)
                    /\ \A status \in {"IGNORED", "RESOLVED", "IN_PROGRESS", "OPEN"} :
                          ~Triage(f, status)
              /\ \A k \in Auditors :
                    ~Retry(k) /\ ~GiveUp(k) /\ \A p \in Pages : ~StartPage(k, p)
            BY <3>1 DEF SiteChanges, Triage, Retry, GiveUp, Fails, StartPage
        <3> QED
            BY <2>3, <3>2, <3>3, <3>4, <3>5, <3>6 DEF Next
    <2> QED
        BY <1>1, <2>1, <2>2, <2>3
<1>2. IInv /\ [Next]_vars =>
         [Agreed /\ (events' = events \/ \E k \in Auditors : Retry(k) \/ GiveUp(k) \/ Finish(k))
              => Agreed']_vars
    BY <1>1
<1> QED
    BY <1>2, Invariance, PTL DEF Spec, AgreedStays
=============================================================================

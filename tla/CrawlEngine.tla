----------------------------- MODULE CrawlEngine -----------------------------
(* One run of crawlWebsite (packages/crawler/src/crawler.ts): the frontier by *)
(* depth, the admission of URLs and the skips that may be retracted, the      *)
(* fetch tasks in flight, the page limit, cancellation, the leftovers, and    *)
(* the probes of assets and external links through mapWithConcurrency         *)
(* (packages/shared/src/concurrency.ts).                                      *)
(*                                                                            *)
(* The process is single-threaded.  Between two awaits nothing else runs, so  *)
(* `pc` says where the synchronous stretch is, and a fetch can only settle    *)
(* while the loop is parked in Promise.race or Promise.allSettled.            *)
EXTENDS Integers, FiniteSets, Sequences

CONSTANTS
    Pages,          \* own URLs that pass every filter
    Home,           \* config.startUrl
    Refused,        \* own URLs that a pattern, the trap check or robots.txt refuses
    Disallowed,     \* those of them that only robots.txt refuses
    Unmatched,      \* pages that match no include pattern
    Assets,         \* own URLs with a non-HTML extension
    Externals,      \* URLs of other hosts
    LinkSets,       \* for each page, the sets of links its HTML may carry
    ImageSets,      \* for each page, the sets of own images it may carry
    Moves,          \* for each page, where it may redirect to
    Sitemaps,       \* the sets of URLs the sitemaps may list
    Configs,        \* the crawl configurations
    SeedMultiple,   \* SITEMAP_SEED_MULTIPLE
    MaxSkipRecords, \* MAX_SKIPPED_RECORDS
    MaxProbes       \* maxAssetChecks, maxExternalChecks

Own  == Pages \cup Refused \cup Assets
Urls == Own \cup Externals

ASSUME SiteAssumption ==
    /\ Home \in Pages
    /\ Unmatched \subseteq Pages
    /\ Disallowed \subseteq Refused
    /\ Pages \cap (Refused \cup Assets \cup Externals) = {}
    /\ Refused \cap (Assets \cup Externals) = {}
    /\ Assets \cap Externals = {}
    /\ LinkSets \in [Pages -> SUBSET SUBSET Urls]
    /\ ImageSets \in [Pages -> SUBSET SUBSET Own]
    /\ Moves \in [Pages -> SUBSET Urls]
    /\ Sitemaps \subseteq SUBSET Urls

ASSUME ConfigAssumption ==
    /\ Configs \subseteq [concurrency : Nat \ {0}, maxPages : Nat \ {0},
                          maxDepth : Nat, probes : BOOLEAN]
    /\ SeedMultiple \in Nat \ {0}
    /\ MaxSkipRecords \in Nat
    /\ MaxProbes \in Nat

VARIABLES
    config,        \* the configuration of this run
    pc,            \* where the engine is
    back,          \* where a page's links return to: "race" or "settle"
    offers,        \* URLs of the current stretch still to be offered
    seeded,        \* sitemapSeeded
    seen,          \* URLs accepted once
    frontier,      \* accepted and not started
    inFlight,      \* started and not settled
    started,       \* how many fetches were started
    woken,         \* whether a task settled since Promise.race was entered
    rows,          \* pages: one record per PageAnalysis of the crawl
    edges,         \* linkGraph, as pairs of URLs
    skips,         \* skipKeys, with the reason of each
    recorded,      \* the keys of skipRecords
    skippedCount,
    assets,        \* assetTargets
    externals,     \* externalTargets
    waiting,       \* the limiter's queue
    running,       \* the limiter's active probes
    answers,       \* probes that were answered
    assetRows,     \* pages: the rows made of asset probes
    checks,        \* externalLinks
    aborted,       \* signal.aborted
    cancelled,
    limitReached

loopVars  == <<back, inFlight, started, woken, rows, edges>>
admitVars == <<seen, frontier, skips, recorded, skippedCount, assets>>
probeVars == <<waiting, running, answers, assetRows, checks>>
flagVars  == <<cancelled, limitReached>>
vars == <<config, pc, offers, seeded, externals, aborted,
          loopVars, admitVars, probeVars, flagVars>>

Items   == [url : Urls, depth : Nat]
Offers  == [url : Urls, depth : Nat,
            via : {"sitemap", "redirect", "link", "image"}]
Rows    == [url : Urls, depth : Nat, result : {"page", "redirect", "failed"}]
Reasons == {"off-site", "non-html-extension", "refused", "max-depth",
            "max-pages", "cancelled"}

Item(u, d)     == [url |-> u, depth |-> d]
Offer(u, d, v) == [url |-> u, depth |-> d, via |-> v]
Row(t, r)      == [url |-> t.url, depth |-> t.depth, result |-> r]

Init ==
    /\ config \in Configs
    /\ pc = "sitemap" /\ back = "race"
    /\ offers = {} /\ seeded = 0
    /\ seen = {} /\ frontier = {}
    /\ inFlight = {} /\ started = 0 /\ woken = FALSE
    /\ rows = {} /\ edges = {}
    /\ skips = [u \in Urls |-> "none"] /\ recorded = {} /\ skippedCount = 0
    /\ assets = {} /\ externals = {}
    /\ waiting = <<>> /\ running = {} /\ answers = {}
    /\ assetRows = {} /\ checks = {}
    /\ aborted = FALSE /\ cancelled = FALSE /\ limitReached = FALSE

-----------------------------------------------------------------------------
(* Admission of URLs. *)

Skipped(u) == skips[u] # "none"

RecordSkip(u, reason) ==
    IF Skipped(u)
    THEN UNCHANGED <<skips, recorded, skippedCount>>
    ELSE /\ skips' = [skips EXCEPT ![u] = reason]
         /\ skippedCount' = skippedCount + 1
         /\ recorded' = IF Cardinality(recorded) < MaxSkipRecords
                        THEN recorded \cup {u} ELSE recorded

(* The count only goes back when the record was kept. *)
RetractSkip(u) ==
    /\ skips' = [skips EXCEPT ![u] = "none"]
    /\ recorded' = recorded \ {u}
    /\ skippedCount' = IF u \in recorded THEN skippedCount - 1 ELSE skippedCount

TrackAsset(u) ==
    assets' = IF config.probes /\ Cardinality(assets) < MaxProbes /\ u \notin seen
              THEN assets \cup {u} ELSE assets

TrackExternal(u) ==
    externals' = IF config.probes /\ Cardinality(externals) < MaxProbes
                 THEN externals \cup {u} ELSE externals

Verdict(u, depth, isSeed) ==
    IF u \in Externals THEN "off-site"
    ELSE IF u \in Assets THEN "non-html-extension"
    ELSE IF u \in Refused \ Disallowed \/ (u \in Unmatched /\ ~isSeed) THEN "refused"
    ELSE IF depth > config.maxDepth THEN "max-depth"
    ELSE IF u \in Disallowed THEN "refused"
    ELSE "ok"

Accepts(u, depth, isSeed) == u \notin seen /\ Verdict(u, depth, isSeed) = "ok"

(* Mutant: the URL is marked seen before the verdict is looked at.            *)
EnqueueMarksFirst(u, depth, isSeed) ==
    \/ /\ u \in seen
       /\ UNCHANGED admitVars
    \/ /\ u \notin seen
       /\ seen' = seen \cup {u}
       /\ IF Accepts(u, depth, isSeed)
          THEN /\ frontier' = frontier \cup {Item(u, depth)}
               /\ RetractSkip(u)
          ELSE /\ RecordSkip(u, Verdict(u, depth, isSeed))
               /\ UNCHANGED frontier
       /\ UNCHANGED assets

(* A URL accepted before is neither a new page nor a new skip; one that is    *)
(* accepted now loses the skip it may have from a deeper path.                *)
Enqueue(u, depth, isSeed) ==
    \/ /\ u \in seen
       /\ UNCHANGED admitVars
    \/ /\ u \notin seen
       /\ ~Accepts(u, depth, isSeed)
       /\ RecordSkip(u, Verdict(u, depth, isSeed))
       /\ IF u \in Assets THEN TrackAsset(u) ELSE UNCHANGED assets
       /\ UNCHANGED <<seen, frontier>>
    \/ /\ Accepts(u, depth, isSeed)
       /\ seen' = seen \cup {u}
       /\ frontier' = frontier \cup {Item(u, depth)}
       /\ RetractSkip(u)
       /\ UNCHANGED assets

(* robots.txt and the sitemaps, then the start URL. *)
ReadSitemap ==
    /\ pc = "sitemap"
    /\ pc' = "seed"
    /\ \E listed \in IF aborted THEN {{}} ELSE Sitemaps :
          offers' = {Offer(u, 1, "sitemap") : u \in listed}
    /\ Enqueue(Home, 0, TRUE)
    /\ UNCHANGED <<config, seeded, externals, aborted, loopVars, probeVars, flagVars>>

SeedFromSitemap(o) ==
    /\ o.via = "sitemap"
    /\ UNCHANGED externals
    /\ \/ /\ seeded >= SeedMultiple * config.maxPages
          /\ IF o.url \in seen THEN UNCHANGED <<skips, recorded, skippedCount>>
                               ELSE RecordSkip(o.url, "max-pages")
          /\ UNCHANGED <<seeded, seen, frontier, assets>>
       \/ /\ seeded < SeedMultiple * config.maxPages
          /\ Enqueue(o.url, o.depth, FALSE)
          /\ seeded' = seeded + (IF Accepts(o.url, o.depth, FALSE) THEN 1 ELSE 0)

FollowLink(o) ==
    /\ o.via \in {"redirect", "link"}
    /\ \/ /\ o.url \in Own
          /\ Enqueue(o.url, o.depth, FALSE)
          /\ UNCHANGED externals
       \/ /\ o.url \in Externals
          /\ RecordSkip(o.url, "off-site")
          /\ TrackExternal(o.url)
          /\ UNCHANGED <<seen, frontier, assets>>
    /\ UNCHANGED seeded

(* A page's images come after its links. *)
SeeImage(o) ==
    /\ o.via = "image"
    /\ \A p \in offers : p.via = "image"
    /\ TrackAsset(o.url)
    /\ UNCHANGED <<seeded, externals, seen, frontier, skips, recorded, skippedCount>>

TakeOffer(o) ==
    /\ pc \in {"seed", "links"}
    /\ offers' = offers \ {o}
    /\ SeedFromSitemap(o) \/ FollowLink(o) \/ SeeImage(o)
    /\ UNCHANGED <<config, pc, aborted, loopVars, probeVars, flagVars>>

OffersTaken ==
    /\ pc \in {"seed", "links"}
    /\ offers = {}
    /\ pc' = IF pc = "seed" THEN "fill" ELSE back
    /\ UNCHANGED <<config, offers, seeded, externals, aborted,
                   loopVars, admitVars, probeVars, flagVars>>

-----------------------------------------------------------------------------
(* The main loop. *)

Shallowest == {i \in frontier : \A j \in frontier : i.depth <= j.depth}

(* Mutants: one slot too many; the limit compared with the rows there are.    *)
SlotFreeOneMore == Cardinality(inFlight) <= config.concurrency
MayStartByRows  == Cardinality(rows) < config.maxPages

SlotFree  == Cardinality(inFlight) < config.concurrency
MayStart  == started < config.maxPages

(* Mutant: the loop is left without setting the flag.                         *)
CancelUnflagged ==
    /\ pc = "fill"
    /\ aborted
    /\ pc' = "settle"
    /\ UNCHANGED <<config, offers, seeded, externals, aborted, flagVars,
                   loopVars, admitVars, probeVars>>

Cancel ==
    /\ pc = "fill"
    /\ aborted
    /\ cancelled' = TRUE
    /\ pc' = "settle"
    /\ UNCHANGED <<config, offers, seeded, externals, aborted, limitReached,
                   loopVars, admitVars, probeVars>>

StartTask ==
    /\ pc = "fill"
    /\ ~aborted
    /\ SlotFree
    /\ MayStart
    /\ \E item \in Shallowest :
          /\ frontier' = frontier \ {item}
          /\ inFlight' = inFlight \cup {item}
    /\ started' = started + 1
    /\ UNCHANGED <<config, pc, offers, seeded, externals, aborted, back, woken, rows,
                   edges, seen, skips, recorded, skippedCount, assets, probeVars, flagVars>>

(* Mutant: the loop only ends on an empty frontier.                           *)
ParkUntilEmpty ==
    /\ pc = "fill"
    /\ ~aborted
    /\ frontier = {} \/ ~SlotFree \/ ~MayStart
    /\ limitReached' = (limitReached \/ (frontier # {} /\ SlotFree))
    /\ pc' = IF inFlight = {} /\ frontier = {} THEN "settle" ELSE "race"
    /\ woken' = FALSE
    /\ UNCHANGED <<config, offers, seeded, externals, aborted, back, inFlight,
                   started, rows, edges, cancelled, admitVars, probeVars>>

(* Nothing more can be started: wait for a task, or leave the loop. *)
Park ==
    /\ pc = "fill"
    /\ ~aborted
    /\ frontier = {} \/ ~SlotFree \/ ~MayStart
    /\ limitReached' = (limitReached \/ (frontier # {} /\ SlotFree))
    /\ pc' = IF inFlight = {} THEN "settle" ELSE "race"
    /\ woken' = FALSE
    /\ UNCHANGED <<config, offers, seeded, externals, aborted, back, inFlight,
                   started, rows, edges, cancelled, admitVars, probeVars>>

Wake ==
    /\ pc = "race"
    /\ woken
    /\ pc' = "fill"
    /\ UNCHANGED <<config, offers, seeded, externals, aborted,
                   loopVars, admitVars, probeVars, flagVars>>

(* A task settles, in one of four ways.  processUrl never rejects. *)
Settles(t) ==
    /\ pc \in {"race", "settle"}
    /\ inFlight' = inFlight \ {t}
    /\ woken' = TRUE
    /\ UNCHANGED <<config, seeded, externals, aborted, started, probeVars, flagVars>>

(* Mutant: a cancelled fetch just returns.                                    *)
FetchCancelledSilently(t) ==
    /\ Settles(t)
    /\ aborted
    /\ UNCHANGED <<pc, offers, back, rows, edges, admitVars>>

FetchCancelled(t) ==
    /\ Settles(t)
    /\ aborted
    /\ RecordSkip(t.url, "cancelled")
    /\ UNCHANGED <<pc, offers, back, rows, edges, seen, frontier, assets>>

(* No response, or a page the analysis choked on. *)
FetchFailed(t) ==
    /\ Settles(t)
    /\ rows' = rows \cup {Row(t, "failed")}
    /\ UNCHANGED <<pc, offers, back, edges, admitVars>>

FetchMoved(t) ==
    /\ Settles(t)
    /\ \E v \in Moves[t.url] \ {t.url} :
          offers' = {Offer(u, t.depth, "redirect") : u \in {v} \cap Own}
    /\ rows' = rows \cup {Row(t, "redirect")}
    /\ pc' = "links"
    /\ back' = pc
    /\ UNCHANGED <<edges, admitVars>>

FetchPage(t) ==
    /\ Settles(t)
    /\ \E links \in LinkSets[t.url], images \in ImageSets[t.url] :
          /\ offers' = {Offer(u, t.depth + 1, "link") : u \in links}
                       \cup {Offer(u, t.depth + 1, "image") : u \in images}
          /\ edges' = edges \cup {<<t.url, u>> : u \in links}
    /\ rows' = rows \cup {Row(t, "page")}
    /\ pc' = "links"
    /\ back' = pc
    /\ UNCHANGED admitVars

Fetch(t) == FetchCancelled(t) \/ FetchFailed(t) \/ FetchMoved(t) \/ FetchPage(t)

(* Promise.allSettled, and what is left in the frontier. *)
AllSettled ==
    /\ pc = "settle"
    /\ inFlight = {}
    /\ pc' = "drain"
    /\ limitReached' = (limitReached \/ (frontier # {} /\ ~cancelled))
    /\ UNCHANGED <<config, offers, seeded, externals, aborted, cancelled,
                   loopVars, admitVars, probeVars>>

DrainOne ==
    /\ pc = "drain"
    /\ \E item \in Shallowest :
          /\ frontier' = frontier \ {item}
          /\ RecordSkip(item.url, IF cancelled THEN "cancelled" ELSE "max-pages")
    /\ UNCHANGED <<config, pc, offers, seeded, externals, aborted, seen, assets,
                   loopVars, probeVars, flagVars>>

-----------------------------------------------------------------------------
(* Probes, through mapWithConcurrency and its limiter. *)

Orders(S) == {q \in [1..Cardinality(S) -> S] : \A i, j \in DOMAIN q : i # j => q[i] # q[j]}

(* The first calls run at once, the others are queued. *)
Launch(targets) ==
    \E q \in Orders(targets) :
       /\ running' = {q[i] : i \in {k \in DOMAIN q : k <= config.concurrency}}
       /\ waiting' = SubSeq(q, config.concurrency + 1, Cardinality(targets))
       /\ answers' = {}

(* Mutant: assets that were crawled as pages are probed again.                *)
ProbeAssetsUnfiltered ==
    /\ pc = "drain"
    /\ frontier = {}
    /\ pc' = "assets"
    /\ Launch(IF cancelled THEN {} ELSE assets)
    /\ UNCHANGED <<config, offers, seeded, externals, aborted, assetRows, checks,
                   loopVars, admitVars, flagVars>>

(* A URL tracked as an asset may have been crawled as a page since. *)
ProbeAssets ==
    /\ pc = "drain"
    /\ frontier = {}
    /\ pc' = "assets"
    /\ Launch(IF cancelled THEN {} ELSE assets \ seen)
    /\ UNCHANGED <<config, offers, seeded, externals, aborted, assetRows, checks,
                   loopVars, admitVars, flagVars>>

(* Mutant: the limiter hands the slot on only after an answer.                *)
ProbeSettlesNoHandover(u) ==
    /\ u \in running
    /\ \/ /\ waiting # <<>>
          /\ running' = (running \ {u}) \cup {Head(waiting)}
          /\ waiting' = Tail(waiting)
          /\ answers' = answers \cup {u}
       \/ /\ waiting = <<>> \/ aborted
          /\ running' = running \ {u}
          /\ UNCHANGED <<waiting, answers>>
    /\ UNCHANGED <<config, pc, offers, seeded, externals, aborted, assetRows, checks,
                   loopVars, admitVars, flagVars>>

(* limiter: the slot goes to the head of the queue.  An aborted probe leaves  *)
(* no answer.                                                                 *)
ProbeSettles(u) ==
    /\ u \in running
    /\ IF waiting = <<>>
       THEN /\ running' = running \ {u}
            /\ UNCHANGED waiting
       ELSE /\ running' = (running \ {u}) \cup {Head(waiting)}
            /\ waiting' = Tail(waiting)
    /\ \/ answers' = answers \cup {u}
       \/ aborted /\ UNCHANGED answers
    /\ UNCHANGED <<config, pc, offers, seeded, externals, aborted, assetRows, checks,
                   loopVars, admitVars, flagVars>>

ProbeExternals ==
    /\ pc = "assets"
    /\ running = {}
    /\ pc' = "externals"
    /\ assetRows' = answers
    /\ Launch(IF cancelled THEN {} ELSE externals)
    /\ UNCHANGED <<config, offers, seeded, externals, aborted, checks,
                   loopVars, admitVars, flagVars>>

Return ==
    /\ pc = "externals"
    /\ running = {}
    /\ pc' = "done"
    /\ checks' = answers
    /\ UNCHANGED <<config, offers, seeded, externals, aborted, waiting, running,
                   answers, assetRows, loopVars, admitVars, flagVars>>

(* The worker's signal; nothing in the engine can be between two awaits while *)
(* it fills its slots.                                                        *)
Abort ==
    /\ ~aborted
    /\ pc \notin {"fill", "done"}
    /\ aborted' = TRUE
    /\ UNCHANGED <<config, pc, offers, seeded, externals,
                   loopVars, admitVars, probeVars, flagVars>>

-----------------------------------------------------------------------------

LoopStep ==
    \/ ReadSitemap
    \/ \E o \in offers : TakeOffer(o)
    \/ OffersTaken
    \/ Cancel \/ StartTask \/ Park \/ Wake
    \/ AllSettled \/ DrainOne
    \/ ProbeAssets \/ ProbeExternals \/ Return

Next ==
    \/ LoopStep
    \/ \E t \in inFlight : Fetch(t)
    \/ \E u \in running : ProbeSettles(u)
    \/ Abort

Spec == Init /\ [][Next]_vars

(* The event loop runs what is ready, and every request ends: the fetcher     *)
(* puts a deadline on each.  Nobody has to abort.                             *)
Fairness ==
    /\ WF_vars(LoopStep)
    /\ \A u \in Urls : WF_vars(\E t \in inFlight : t.url = u /\ Fetch(t))
    /\ \A u \in Urls : WF_vars(ProbeSettles(u))

FairSpec == Spec /\ Fairness

-----------------------------------------------------------------------------
(* Properties. *)

(* The type invariant. *)
TypeOK ==
    /\ config \in Configs
    /\ pc \in {"sitemap", "seed", "fill", "race", "links", "settle", "drain",
               "assets", "externals", "done"}
    /\ back \in {"race", "settle"}
    /\ offers \subseteq Offers
    /\ seeded \in Nat
    /\ seen \subseteq Pages
    /\ frontier \subseteq Items
    /\ inFlight \subseteq Items
    /\ started \in Nat
    /\ woken \in BOOLEAN
    /\ rows \subseteq Rows
    /\ edges \subseteq Urls \X Urls
    /\ skips \in [Urls -> Reasons \cup {"none"}]
    /\ recorded \subseteq Urls
    /\ skippedCount \in Int
    /\ assets \subseteq Own
    /\ externals \subseteq Externals
    /\ waiting \in Seq(Urls)
    /\ running \subseteq Urls
    /\ answers \subseteq Urls
    /\ assetRows \subseteq Urls
    /\ checks \subseteq Urls
    /\ aborted \in BOOLEAN
    /\ cancelled \in BOOLEAN
    /\ limitReached \in BOOLEAN

Queued(u) == \E i \in frontier : i.url = u
Flying(u) == \E t \in inFlight : t.url = u
Rowed(u)  == \E r \in rows : r.url = u

(* "Nothing is dropped silently": an accepted URL is queued, in flight, a row *)
(* or a skip, so that at the end it is a row or a skip.                       *)
AcceptedKept == \A u \in seen : Queued(u) \/ Flying(u) \/ Rowed(u) \/ Skipped(u)

(* ... and in one of these places only: never crawled and skipped both.       *)
OnePlace ==
    \A u \in Urls :
        /\ Queued(u)  => ~Flying(u) /\ ~Rowed(u) /\ ~Skipped(u)
        /\ Flying(u)  => ~Rowed(u) /\ ~Skipped(u)
        /\ Rowed(u)   => ~Skipped(u)

NothingDropped == AcceptedKept /\ OnePlace

(* A link of a page that was read is accepted, skipped or about to be        *)
(* offered, and a page is only refused for its depth if every page that links *)
(* to it is as deep as the limit.                                             *)
LinksAccounted ==
    \A e \in edges :
        \/ \E o \in offers : o.url = e[2]
        \/ /\ e[2] \in seen \/ Skipped(e[2])
           /\ skips[e[2]] = "max-depth" /\ e[2] \in Pages =>
                 \A r \in rows : r.url = e[1] => r.depth >= config.maxDepth

(* CrawlPage is unique per URL: the outcome has no two rows for one URL, the  *)
(* probed assets included.                                                    *)
OneRowPerUrl ==
    /\ \A r, s \in rows : r.url = s.url => r = s
    /\ \A u \in assetRows : ~Rowed(u)

(* The page limit bounds the rows, however many fetches run side by side.     *)
PageLimitHolds == Cardinality(rows) <= config.maxPages

(* The worker deactivates the pages it did not see if the outcome is neither  *)
(* cancelled nor at its limit: then every URL that passed was fetched.        *)
CompleteWhenSaid ==
    pc = "done" /\ ~cancelled /\ ~limitReached =>
        /\ \A u \in seen : Rowed(u)
        /\ \A u \in Urls : skips[u] \notin {"cancelled", "max-pages"}

(* A crawl is breadth-first: no page is filed deeper than one click below a   *)
(* page that links to it.                                                     *)
DepthIsLeast ==
    pc = "done" =>
        \A e \in edges : \A r, s \in rows :
            r.url = e[1] /\ s.url = e[2] => s.depth <= r.depth + 1

(* crawler.test.ts: "never reports a URL as both crawled and skipped", with   *)
(* the rows of the asset probes.                                              *)
NeverBoth == \A u \in Urls : Skipped(u) => ~Rowed(u) /\ u \notin assetRows

(* pagesSkipped "still counts every skip" beyond the records that are kept.   *)
SkipCountExact == skippedCount = Cardinality({u \in Urls : Skipped(u)})

(* The crawl ends, cancelled or not.                                          *)
CrawlEnds == <>(pc = "done")

(* The slots of the crawl loop and of the probes are a counting semaphore,    *)
(* and a queued probe gets its slot.                                          *)
Limiter == INSTANCE Semaphore WITH
    Users   <- Urls,
    permits <- config.concurrency,
    waiting <- {waiting[i] : i \in DOMAIN waiting},
    holding <- {t.url : t \in inFlight} \cup running

LimiterIsSemaphore == Limiter!SemSpec
LimiterServes == Limiter!Served
=============================================================================

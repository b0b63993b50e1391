-------------------------- MODULE CrawlEngineProofs --------------------------
(* What holds of a crawl of any site, with any configuration.                 *)
EXTENDS CrawlEngine, FiniteSetTheorems, SequenceTheorems, TLAPS

-----------------------------------------------------------------------------
(* Types.  What is queued or in flight was accepted, and only a page's images *)
(* are offered as images.                                                     *)

Accepted == \A i \in frontier \cup inFlight : i.url \in seen
OffersOwn == \A o \in offers : o.via = "image" => o.url \in Own

Typed == TypeOK /\ Accepted /\ OffersOwn

(* A configuration's fields. *)
LEMMA ConfigTyped ==
    ASSUME Typed
    PROVE  /\ config.concurrency \in Nat \ {0} /\ config.maxPages \in Nat \ {0}
           /\ config.maxDepth \in Nat /\ config.probes \in BOOLEAN
BY ConfigAssumption DEF Typed, TypeOK

(* A URL that passes is a page. *)
LEMMA AcceptedArePages ==
    ASSUME NEW u \in Urls, NEW d, NEW isSeed, Accepts(u, d, isSeed)
    PROVE  u \in Pages /\ u \notin seen
BY DEF Accepts, Verdict, Urls, Own

(* The verdict on any other URL is a reason to skip it. *)
LEMMA RefusalsAreReasons ==
    ASSUME NEW u \in Urls, NEW d, NEW isSeed, u \notin seen, ~Accepts(u, d, isSeed)
    PROVE  Verdict(u, d, isSeed) \in Reasons
BY DEF Accepts, Verdict, Reasons

(* Recording and retracting a skip. *)
LEMMA RecordSkipTyped ==
    ASSUME Typed, NEW u \in Urls, NEW why \in Reasons, RecordSkip(u, why)
    PROVE  /\ skips' \in [Urls -> Reasons \cup {"none"}]
           /\ recorded' \subseteq Urls
           /\ skippedCount' \in Int
BY DEF Typed, TypeOK, RecordSkip

LEMMA RetractSkipTyped ==
    ASSUME Typed, NEW u \in Urls, RetractSkip(u)
    PROVE  /\ skips' \in [Urls -> Reasons \cup {"none"}]
           /\ recorded' \subseteq Urls
           /\ skippedCount' \in Int
BY DEF Typed, TypeOK, RetractSkip

(* enqueue keeps the shape of what it writes, and what it queues is accepted. *)
AdmitTyped ==
    /\ seen' \subseteq Pages /\ seen \subseteq seen'
    /\ frontier' \subseteq Items
    /\ skips' \in [Urls -> Reasons \cup {"none"}]
    /\ recorded' \subseteq Urls
    /\ skippedCount' \in Int
    /\ assets' \subseteq Own
    /\ \A i \in frontier' : i.url \in seen'

LEMMA EnqueueTyped ==
    ASSUME Typed, NEW u \in Urls, NEW d \in Nat, NEW isSeed \in BOOLEAN, Enqueue(u, d, isSeed)
    PROVE  AdmitTyped
<1>1. CASE u \in seen /\ UNCHANGED admitVars
    BY <1>1 DEF AdmitTyped, Typed, TypeOK, Accepted, admitVars
<1>2. CASE /\ u \notin seen
           /\ ~Accepts(u, d, isSeed)
           /\ RecordSkip(u, Verdict(u, d, isSeed))
           /\ IF u \in Assets THEN TrackAsset(u) ELSE UNCHANGED assets
           /\ UNCHANGED <<seen, frontier>>
    <2>1. assets' \subseteq Own
        BY <1>2 DEF TrackAsset, Typed, TypeOK, Own
    <2> QED
        BY <1>2, <2>1, RefusalsAreReasons, RecordSkipTyped DEF AdmitTyped, Typed, TypeOK, Accepted
<1>3. CASE /\ Accepts(u, d, isSeed)
           /\ seen' = seen \cup {u}
           /\ frontier' = frontier \cup {Item(u, d)}
           /\ RetractSkip(u)
           /\ UNCHANGED assets
    BY <1>3, AcceptedArePages, RetractSkipTyped
       DEF AdmitTyped, Typed, TypeOK, Accepted, Item, Items
<1> QED
    BY <1>1, <1>2, <1>3 DEF Enqueue

LEMMA InitTyped == Init => Typed
<1> SUFFICES ASSUME Init PROVE Typed
    OBVIOUS
<1>1. waiting \in Seq(Urls)
    BY EmptySeq DEF Init
<1>2. skips \in [Urls -> Reasons \cup {"none"}]
    BY DEF Init
<1>3. Accepted /\ OffersOwn
    BY DEF Init, Accepted, OffersOwn
<1>4. /\ config \in Configs
      /\ pc \in {"sitemap", "seed", "fill", "race", "links", "settle", "drain",
                  "assets", "externals", "done"}
      /\ back \in {"race", "settle"}
    BY DEF Init
<1>5. seeded \in Nat /\ started \in Nat /\ skippedCount \in Int
    BY DEF Init
<1> QED
    BY <1>1, <1>2, <1>3, <1>4, <1>5, Zenon DEF Init, Typed, TypeOK

(* The offers of the three sources. *)
LEMMA TakeOfferTyped ==
    ASSUME Typed, NEW o \in offers, TakeOffer(o)
    PROVE  Typed'
<1>1. o \in Offers /\ o.url \in Urls /\ o.depth \in Nat
    BY DEF Typed, TypeOK, Offers
<1>2. offers' \subseteq Offers /\ OffersOwn'
    BY DEF Typed, TypeOK, TakeOffer, OffersOwn
<1>3. AdmitTyped /\ seeded' \in Nat /\ externals' \subseteq Externals
    <2>1. CASE SeedFromSitemap(o)
        <3>1. CASE /\ seeded >= SeedMultiple * config.maxPages
                   /\ IF o.url \in seen THEN UNCHANGED <<skips, recorded, skippedCount>>
                                        ELSE RecordSkip(o.url, "max-pages")
                   /\ UNCHANGED <<seeded, seen, frontier, assets>>
            BY <1>1, <2>1, <3>1, RecordSkipTyped
               DEF SeedFromSitemap, AdmitTyped, Typed, TypeOK, Accepted, Reasons
        <3>2. CASE /\ Enqueue(o.url, o.depth, FALSE)
                   /\ seeded' = seeded + (IF Accepts(o.url, o.depth, FALSE) THEN 1 ELSE 0)
            <4>1. seeded' = seeded \/ seeded' = seeded + 1
                <5>1. seeded \in Nat
                    BY DEF Typed, TypeOK
                <5>2. CASE Accepts(o.url, o.depth, FALSE)
                    BY <3>2, <5>2
                <5>3. CASE ~Accepts(o.url, o.depth, FALSE)
                    <6>1. seeded' = seeded + 0
                        BY <3>2, <5>3
                    <6> QED
                        BY <5>1, <6>1
                <5> QED
                    BY <5>2, <5>3
            <4>2. seeded' \in Nat
                BY <4>1 DEF Typed, TypeOK
            <4>3. AdmitTyped
                BY <1>1, <3>2, EnqueueTyped
            <4> QED
                BY <2>1, <4>2, <4>3 DEF SeedFromSitemap, Typed, TypeOK
        <3> QED
            BY <2>1, <3>1, <3>2 DEF SeedFromSitemap
    <2>2. CASE FollowLink(o)
        <3>1. CASE o.url \in Own /\ Enqueue(o.url, o.depth, FALSE) /\ UNCHANGED externals
            BY <1>1, <2>2, <3>1, EnqueueTyped DEF FollowLink, Typed, TypeOK
        <3>2. CASE /\ o.url \in Externals
                   /\ RecordSkip(o.url, "off-site")
                   /\ TrackExternal(o.url)
                   /\ UNCHANGED <<seen, frontier, assets>>
            <4>1. externals' \subseteq Externals
                BY <3>2 DEF TrackExternal, Typed, TypeOK
            <4> QED
                BY <1>1, <2>2, <3>2, <4>1, RecordSkipTyped
                   DEF FollowLink, AdmitTyped, Typed, TypeOK, Accepted, Reasons
        <3> QED
            BY <2>2, <3>1, <3>2 DEF FollowLink
    <2>3. CASE SeeImage(o)
        <3>1. o.url \in Own
            BY <2>3 DEF SeeImage, Typed, OffersOwn
        <3>2. assets' \subseteq Own
            BY <2>3, <3>1 DEF SeeImage, TrackAsset, Typed, TypeOK
        <3> QED
            BY <2>3, <3>2 DEF SeeImage, AdmitTyped, Typed, TypeOK, Accepted
    <2> QED
        BY <2>1, <2>2, <2>3 DEF TakeOffer
<1>4. Accepted'
    BY <1>3 DEF AdmitTyped, Accepted, Typed, TakeOffer, loopVars
<1> QED
    BY <1>2, <1>3, <1>4
       DEF AdmitTyped, Typed, TypeOK, TakeOffer, loopVars, probeVars, flagVars

(* A task that settles. *)
LEMMA FetchTyped ==
    ASSUME Typed, NEW t \in inFlight, Fetch(t)
    PROVE  Typed'
<1>1. t \in Items /\ t.url \in Pages /\ t.url \in Urls /\ t.depth \in Nat
    BY DEF Typed, TypeOK, Accepted, Items, Urls, Own
<1>2. \A why \in {"page", "redirect", "failed"} : Row(t, why) \in Rows
    BY <1>1 DEF Row, Rows
<1>3. CASE FetchCancelled(t)
    BY <1>1, <1>3, RecordSkipTyped
       DEF FetchCancelled, Settles, Typed, TypeOK, Accepted, OffersOwn, Reasons, probeVars, flagVars
<1>4. CASE FetchFailed(t)
    BY <1>2, <1>4
       DEF FetchFailed, Settles, Typed, TypeOK, Accepted, OffersOwn, admitVars, probeVars, flagVars
<1>5. CASE FetchMoved(t)
    <2>1. PICK v \in Moves[t.url] \ {t.url} :
             offers' = {Offer(u, t.depth, "redirect") : u \in {v} \cap Own}
        BY <1>5 DEF FetchMoved
    <2>2. offers' \subseteq Offers /\ OffersOwn'
        BY <1>1, <2>1 DEF Offers, Offer, OffersOwn, Urls
    <2>3. pc' = "links" /\ back' \in {"race", "settle"}
        BY <1>5 DEF FetchMoved, Settles
    <2> QED
        BY <1>2, <1>5, <2>2, <2>3
           DEF FetchMoved, Settles, Typed, TypeOK, Accepted, admitVars, probeVars, flagVars
<1>6. CASE FetchPage(t)
    <2>1. PICK links \in LinkSets[t.url], images \in ImageSets[t.url] :
             /\ offers' = {Offer(u, t.depth + 1, "link") : u \in links}
                          \cup {Offer(u, t.depth + 1, "image") : u \in images}
             /\ edges' = edges \cup {<<t.url, u>> : u \in links}
        BY <1>6 DEF FetchPage
    <2>2. links \subseteq Urls /\ images \subseteq Own
        BY <1>1, <2>1, SiteAssumption
    <2>3. offers' \subseteq Offers /\ OffersOwn'
        BY <1>1, <2>1, <2>2 DEF Offers, Offer, OffersOwn, Urls
    <2>4. edges' \subseteq Urls \X Urls
        BY <1>1, <2>1, <2>2 DEF Typed, TypeOK
    <2>5. pc' = "links" /\ back' \in {"race", "settle"}
        BY <1>6 DEF FetchPage, Settles
    <2> QED
        BY <1>2, <1>6, <2>3, <2>4, <2>5
           DEF FetchPage, Settles, Typed, TypeOK, Accepted, admitVars, probeVars, flagVars
<1> QED
    BY <1>3, <1>4, <1>5, <1>6 DEF Fetch

(* Launching the probes of a set. *)
LEMMA LaunchTyped ==
    ASSUME Typed, NEW T \in SUBSET Urls, IsFiniteSet(T), Launch(T)
    PROVE  running' \subseteq T /\ waiting' \in Seq(T) /\ answers' = {}
<1>1. PICK q \in Orders(T) :
         /\ running' = {q[i] : i \in {k \in DOMAIN q : k <= config.concurrency}}
         /\ waiting' = SubSeq(q, config.concurrency + 1, Cardinality(T))
         /\ answers' = {}
    BY DEF Launch
<1>2. q \in [1..Cardinality(T) -> T] /\ Cardinality(T) \in Nat
    BY FS_CardinalityType DEF Orders
<1>3. \A i \in config.concurrency + 1 .. Cardinality(T) : q[i] \in T
    BY <1>2, ConfigTyped
<1>4. waiting' \in Seq(T)
    <2>1. config.concurrency + 1 \in Int /\ Cardinality(T) \in Int
        BY <1>2, ConfigTyped
    <2> QED
        BY <1>1, <1>3, <2>1, SubSeqProperties
<1> QED
    BY <1>1, <1>2, <1>4

LEMMA ReadSitemapTyped == Typed /\ ReadSitemap => Typed'
<1> SUFFICES ASSUME Typed, ReadSitemap PROVE Typed'
    OBVIOUS
<1>1. PICK listed \in IF aborted THEN {{}} ELSE Sitemaps :
         offers' = {Offer(u, 1, "sitemap") : u \in listed}
    BY DEF ReadSitemap
<1>2. listed \subseteq Urls
    BY <1>1, SiteAssumption
<1>3. offers' \subseteq Offers /\ OffersOwn'
    BY <1>1, <1>2 DEF Offers, Offer, OffersOwn
<1>4. AdmitTyped
    BY EnqueueTyped, SiteAssumption DEF ReadSitemap, Urls, Own
<1>5. Accepted'
    BY <1>4 DEF AdmitTyped, Accepted, Typed, ReadSitemap, loopVars
<1> QED
    BY <1>3, <1>4, <1>5
       DEF ReadSitemap, AdmitTyped, Typed, TypeOK, loopVars, probeVars, flagVars

(* Probes: one that settles hands its slot to the next. *)
LEMMA ProbeTyped ==
    ASSUME Typed, NEW u \in running, ProbeSettles(u)
    PROVE  Typed'
<1>1. running' \subseteq Urls /\ waiting' \in Seq(Urls) /\ answers' \subseteq Urls
    <2>1. waiting # <<>> => Head(waiting) \in Urls /\ Tail(waiting) \in Seq(Urls)
        BY HeadTailProperties DEF Typed, TypeOK
    <2> QED
        BY <2>1 DEF ProbeSettles, Typed, TypeOK
<1> QED
    BY <1>1 DEF ProbeSettles, Typed, TypeOK, Accepted, OffersOwn, loopVars, admitVars, flagVars

(* The tracked URLs are finitely many. *)
Finite ==
    /\ IsFiniteSet(assets) /\ IsFiniteSet(externals) /\ IsFiniteSet(seen)
    /\ IsFiniteSet(rows) /\ IsFiniteSet(inFlight)

(* The steps of the loop. *)
LEMMA LoopTyped ==
    ASSUME Typed, Finite, LoopStep
    PROVE  Typed'
<1>1. CASE ReadSitemap
    BY <1>1, ReadSitemapTyped
<1>2. ASSUME NEW o \in offers, TakeOffer(o) PROVE Typed'
    BY <1>2, TakeOfferTyped
<1>3. CASE OffersTaken
    BY <1>3 DEF OffersTaken, Typed, TypeOK, Accepted, OffersOwn, loopVars, admitVars, probeVars,
                flagVars
<1>4. CASE Cancel
    BY <1>4 DEF Cancel, Typed, TypeOK, Accepted, OffersOwn, loopVars, admitVars, probeVars
<1>5. CASE StartTask
    <2>1. PICK item \in Shallowest :
             frontier' = frontier \ {item} /\ inFlight' = inFlight \cup {item}
        BY <1>5 DEF StartTask
    <2>2. item \in frontier
        BY <2>1 DEF Shallowest
    <2> QED
        BY <1>5, <2>1, <2>2
           DEF StartTask, Typed, TypeOK, Accepted, OffersOwn, probeVars, flagVars
<1>6. CASE Park
    BY <1>6 DEF Park, Typed, TypeOK, Accepted, OffersOwn, admitVars, probeVars
<1>7. CASE Wake
    BY <1>7 DEF Wake, Typed, TypeOK, Accepted, OffersOwn, loopVars, admitVars, probeVars, flagVars
<1>8. CASE AllSettled
    BY <1>8 DEF AllSettled, Typed, TypeOK, Accepted, OffersOwn, loopVars, admitVars, probeVars
<1>9. CASE DrainOne
    <2>1. PICK item \in Shallowest :
             /\ frontier' = frontier \ {item}
             /\ RecordSkip(item.url, IF cancelled THEN "cancelled" ELSE "max-pages")
        BY <1>9 DEF DrainOne
    <2>2. item \in frontier /\ item.url \in Urls
        BY <2>1 DEF Shallowest, Typed, TypeOK, Items
    <2>3. (IF cancelled THEN "cancelled" ELSE "max-pages") \in Reasons
        BY DEF Reasons
    <2> QED
        BY <1>9, <2>1, <2>2, <2>3, RecordSkipTyped
           DEF DrainOne, Typed, TypeOK, Accepted, OffersOwn, loopVars, probeVars, flagVars
<1>10. CASE ProbeAssets
    <2>1. PICK T : T \in {{}, assets \ seen} /\ Launch(T)
        BY <1>10 DEF ProbeAssets
    <2>2. T \in SUBSET Urls /\ IsFiniteSet(T)
        <3>1. IsFiniteSet(assets \ seen)
            BY FS_Difference DEF Finite
        <3> QED
            BY <2>1, <3>1, FS_EmptySet DEF Typed, TypeOK, Urls
    <2>3. running' \subseteq Urls /\ waiting' \in Seq(Urls) /\ answers' \subseteq Urls
        <3>1. running' \subseteq T /\ waiting' \in Seq(T) /\ answers' = {}
            BY <2>1, <2>2, LaunchTyped
        <3> QED
            BY <2>2, <3>1
    <2> QED
        BY <1>10, <2>3
           DEF ProbeAssets, Typed, TypeOK, Accepted, OffersOwn, loopVars, admitVars, flagVars
<1>11. CASE ProbeExternals
    <2>1. PICK T : T \in {{}, externals} /\ Launch(T)
        BY <1>11 DEF ProbeExternals
    <2>2. T \in SUBSET Urls /\ IsFiniteSet(T)
        BY <2>1, FS_EmptySet DEF Finite, Typed, TypeOK, Urls
    <2>3. running' \subseteq Urls /\ waiting' \in Seq(Urls) /\ answers' \subseteq Urls
        <3>1. running' \subseteq T /\ waiting' \in Seq(T) /\ answers' = {}
            BY <2>1, <2>2, LaunchTyped
        <3> QED
            BY <2>2, <3>1
    <2> QED
        BY <1>11, <2>3
           DEF ProbeExternals, Typed, TypeOK, Accepted, OffersOwn, loopVars, admitVars, flagVars
<1>12. CASE Return
    BY <1>12 DEF Return, Typed, TypeOK, Accepted, OffersOwn, loopVars, admitVars, flagVars
<1> QED
    BY <1>1, <1>2, <1>3, <1>4, <1>5, <1>6, <1>7, <1>8, <1>9, <1>10, <1>11, <1>12 DEF LoopStep

-----------------------------------------------------------------------------
(* Nothing is dropped.  What is queued, in flight or a row is so under one    *)
(* depth only, and a row is of an accepted URL.                               *)

OnceEach(S) == \A i, j \in S : i.url = j.url => i = j

Once == OnceEach(frontier) /\ OnceEach(inFlight) /\ OnceEach(rows)
RowsSeen == \A r \in rows : r.url \in seen

Kept == NothingDropped /\ Once /\ RowsSeen

(* A step that touches none of the places keeps them apart. *)
LEMMA SameKeeps ==
    ASSUME Kept, UNCHANGED <<seen, frontier, inFlight, rows, skips>>
    PROVE  Kept'
BY DEF Kept, NothingDropped, AcceptedKept, OnePlace, Once, OnceEach, RowsSeen, Queued, Flying,
       Rowed, Skipped

(* Nor does the skip of a URL that was never accepted matter to them. *)
LEMMA SkipKeeps ==
    ASSUME Typed, Kept, NEW u \in Urls, u \notin seen, NEW why \in Reasons,
           RecordSkip(u, why), UNCHANGED <<seen, frontier, inFlight, rows>>
    PROVE  Kept'
<1>1. ~Queued(u) /\ ~Flying(u) /\ ~Rowed(u)
    BY DEF Typed, Accepted, Kept, RowsSeen, Queued, Flying, Rowed
<1>2. \A v \in Urls : v # u => skips'[v] = skips[v]
    BY DEF RecordSkip, Typed, TypeOK
<1>3. seen \subseteq Urls
    BY DEF Typed, TypeOK, Urls, Own
<1>4. \A v \in Urls : /\ Queued(v)' <=> Queued(v)
                      /\ Flying(v)' <=> Flying(v)
                      /\ Rowed(v)' <=> Rowed(v)
                      /\ v # u => (Skipped(v)' <=> Skipped(v))
    BY <1>2 DEF Queued, Flying, Rowed, Skipped
<1>5. AcceptedKept'
    BY <1>3, <1>4 DEF Kept, NothingDropped, AcceptedKept
<1>6. OnePlace'
    BY <1>1, <1>4 DEF Kept, NothingDropped, OnePlace
<1> QED
    BY <1>5, <1>6 DEF Kept, NothingDropped, Once, OnceEach, RowsSeen

(* A URL that is accepted is queued, and nowhere else. *)
LEMMA EnqueueKeeps ==
    ASSUME Typed, Kept, NEW u \in Urls, NEW d \in Nat, NEW isSeed \in BOOLEAN,
           Enqueue(u, d, isSeed), UNCHANGED <<inFlight, rows>>
    PROVE  Kept'
<1>1. CASE u \in seen /\ UNCHANGED admitVars
    BY <1>1, SameKeeps DEF admitVars
<1>2. CASE /\ u \notin seen
           /\ ~Accepts(u, d, isSeed)
           /\ RecordSkip(u, Verdict(u, d, isSeed))
           /\ UNCHANGED <<seen, frontier>>
    BY <1>2, RefusalsAreReasons, SkipKeeps
<1>3. CASE /\ Accepts(u, d, isSeed)
           /\ seen' = seen \cup {u}
           /\ frontier' = frontier \cup {Item(u, d)}
           /\ RetractSkip(u)
    <2>1. u \notin seen
        BY <1>3 DEF Accepts
    <2>2. ~Queued(u) /\ ~Flying(u) /\ ~Rowed(u)
        BY <2>1 DEF Typed, Accepted, Kept, RowsSeen, Queued, Flying, Rowed
    <2>3. Item(u, d).url = u
        BY DEF Item
    <2>4. \A v \in Urls : /\ Queued(v)' <=> (Queued(v) \/ v = u)
                          /\ Flying(v)' <=> Flying(v)
                          /\ Rowed(v)' <=> Rowed(v)
                          /\ Skipped(v)' <=> (Skipped(v) /\ v # u)
        BY <1>3, <2>3 DEF Queued, Flying, Rowed, Skipped, RetractSkip, Typed, TypeOK
    <2>5. seen \subseteq Urls
        BY DEF Typed, TypeOK, Urls, Own
    <2>6. AcceptedKept'
        BY <1>3, <2>4, <2>5 DEF Kept, NothingDropped, AcceptedKept
    <2>7. OnePlace'
        BY <2>2, <2>4 DEF Kept, NothingDropped, OnePlace
    <2>8. OnceEach(frontier)'
        BY <1>3, <2>2, <2>3 DEF Kept, Once, OnceEach, Queued
    <2>9. RowsSeen'
        BY <1>3 DEF Kept, RowsSeen
    <2> QED
        BY <2>6, <2>7, <2>8, <2>9 DEF Kept, NothingDropped, Once, OnceEach
<1> QED
    BY <1>1, <1>2, <1>3 DEF Enqueue

LEMMA TakeOfferKeeps ==
    ASSUME Typed, Kept, NEW o \in offers, TakeOffer(o)
    PROVE  Kept'
<1>1. o.url \in Urls /\ o.depth \in Nat /\ UNCHANGED <<inFlight, rows>>
    BY DEF Typed, TypeOK, Offers, TakeOffer, loopVars
<1>2. CASE SeedFromSitemap(o)
    <2>1. CASE /\ IF o.url \in seen THEN UNCHANGED <<skips, recorded, skippedCount>>
                                     ELSE RecordSkip(o.url, "max-pages")
               /\ UNCHANGED <<seeded, seen, frontier, assets>>
        BY <1>1, <2>1, SameKeeps, SkipKeeps DEF Reasons
    <2>2. CASE Enqueue(o.url, o.depth, FALSE)
        BY <1>1, <2>2, EnqueueKeeps
    <2> QED
        BY <1>2, <2>1, <2>2 DEF SeedFromSitemap
<1>3. CASE FollowLink(o)
    <2>1. CASE Enqueue(o.url, o.depth, FALSE)
        BY <1>1, <2>1, EnqueueKeeps
    <2>2. CASE o.url \in Externals /\ RecordSkip(o.url, "off-site") /\ UNCHANGED <<seen, frontier>>
        <3>1. o.url \notin seen
            BY <2>2, SiteAssumption DEF Typed, TypeOK
        <3> QED
            BY <1>1, <2>2, <3>1, SkipKeeps DEF Reasons
    <2> QED
        BY <1>3, <2>1, <2>2 DEF FollowLink
<1>4. CASE SeeImage(o)
    BY <1>1, <1>4, SameKeeps DEF SeeImage
<1> QED
    BY <1>2, <1>3, <1>4 DEF TakeOffer

(* An item leaves the frontier for a slot. *)
LEMMA StartKeeps == Typed /\ Kept /\ StartTask => Kept'
<1> SUFFICES ASSUME Typed, Kept, StartTask PROVE Kept'
    OBVIOUS
<1>1. PICK item \in Shallowest :
         frontier' = frontier \ {item} /\ inFlight' = inFlight \cup {item}
    BY DEF StartTask
<1>2. item \in frontier /\ item.url \in Urls /\ UNCHANGED <<seen, rows, skips>>
    BY <1>1 DEF Shallowest, StartTask, Typed, TypeOK, Items
<1>3. Queued(item.url) /\ ~Flying(item.url) /\ ~Rowed(item.url) /\ ~Skipped(item.url)
    BY <1>2 DEF Queued, Kept, NothingDropped, OnePlace
<1>4. \A v \in Urls : /\ Queued(v)' <=> (Queued(v) /\ v # item.url)
                      /\ Flying(v)' <=> (Flying(v) \/ v = item.url)
                      /\ Rowed(v)' <=> Rowed(v)
                      /\ Skipped(v)' <=> Skipped(v)
    BY <1>1, <1>2 DEF Queued, Flying, Rowed, Skipped, Kept, Once, OnceEach
<1>5. seen \subseteq Urls
    BY DEF Typed, TypeOK, Urls, Own
<1>6. AcceptedKept'
    BY <1>2, <1>4, <1>5 DEF Kept, NothingDropped, AcceptedKept
<1>7. OnePlace'
    BY <1>3, <1>4 DEF Kept, NothingDropped, OnePlace
<1>8. Once'
    BY <1>1, <1>2, <1>3 DEF Kept, Once, OnceEach, Flying
<1> QED
    BY <1>2, <1>6, <1>7, <1>8 DEF Kept, NothingDropped, RowsSeen

(* A slot's item becomes a row or a skip. *)
LEMMA FetchKeeps ==
    ASSUME Typed, Kept, NEW t \in inFlight, Fetch(t)
    PROVE  Kept'
<1>1. t.url \in Urls /\ t.url \in seen /\ seen \subseteq Urls
    BY DEF Typed, TypeOK, Items, Accepted, Urls, Own
<1>2. inFlight' = inFlight \ {t} /\ UNCHANGED <<seen, frontier>>
    BY DEF Fetch, FetchCancelled, FetchFailed, FetchMoved, FetchPage, Settles, admitVars
<1>3. Flying(t.url) /\ ~Queued(t.url) /\ ~Rowed(t.url) /\ ~Skipped(t.url)
    BY <1>1 DEF Flying, Kept, NothingDropped, OnePlace
<1>4. \A v \in Urls : /\ Queued(v)' <=> Queued(v)
                      /\ Flying(v)' <=> (Flying(v) /\ v # t.url)
    BY <1>2 DEF Queued, Flying, Kept, Once, OnceEach
<1>5. CASE FetchCancelled(t)
    <2>1. UNCHANGED rows /\ RecordSkip(t.url, "cancelled")
        BY <1>5 DEF FetchCancelled
    <2>2. \A v \in Urls : /\ Rowed(v)' <=> Rowed(v)
                          /\ Skipped(v)' <=> (Skipped(v) \/ v = t.url)
        BY <1>1, <1>3, <2>1 DEF Rowed, Skipped, RecordSkip, Typed, TypeOK
    <2>3. AcceptedKept'
        BY <1>1, <1>2, <1>4, <2>2 DEF Kept, NothingDropped, AcceptedKept
    <2>4. OnePlace'
        BY <1>3, <1>4, <2>2 DEF Kept, NothingDropped, OnePlace
    <2> QED
        BY <1>2, <2>1, <2>3, <2>4 DEF Kept, NothingDropped, Once, OnceEach, RowsSeen
<1>6. ASSUME NEW how \in {"page", "redirect", "failed"}, rows' = rows \cup {Row(t, how)},
             UNCHANGED skips
      PROVE  Kept'
    <2>1. Row(t, how).url = t.url
        BY DEF Row
    <2>2. \A v \in Urls : /\ Rowed(v)' <=> (Rowed(v) \/ v = t.url)
                          /\ Skipped(v)' <=> Skipped(v)
        BY <1>6, <2>1 DEF Rowed, Skipped
    <2>3. AcceptedKept'
        BY <1>1, <1>2, <1>4, <2>2 DEF Kept, NothingDropped, AcceptedKept
    <2>4. OnePlace'
        BY <1>3, <1>4, <2>2 DEF Kept, NothingDropped, OnePlace
    <2>5. OnceEach(rows)'
        BY <1>3, <1>6, <2>1 DEF Kept, Once, OnceEach, Rowed
    <2>6. RowsSeen'
        BY <1>1, <1>2, <1>6, <2>1 DEF Kept, RowsSeen
    <2> QED
        BY <1>2, <2>3, <2>4, <2>5, <2>6 DEF Kept, NothingDropped, Once, OnceEach
<1> QED
    BY <1>5, <1>6 DEF Fetch, FetchFailed, FetchMoved, FetchPage, admitVars

(* What is left in the frontier is skipped. *)
LEMMA DrainKeeps == Typed /\ Kept /\ DrainOne => Kept'
<1> SUFFICES ASSUME Typed, Kept, DrainOne PROVE Kept'
    OBVIOUS
<1>1. PICK item \in Shallowest :
         /\ frontier' = frontier \ {item}
         /\ RecordSkip(item.url, IF cancelled THEN "cancelled" ELSE "max-pages")
    BY DEF DrainOne
<1>2. item \in frontier /\ item.url \in Urls /\ UNCHANGED <<seen, rows, inFlight>>
    BY <1>1 DEF Shallowest, DrainOne, loopVars, Typed, TypeOK, Items
<1>3. Queued(item.url) /\ ~Flying(item.url) /\ ~Rowed(item.url) /\ ~Skipped(item.url)
    BY <1>2 DEF Queued, Kept, NothingDropped, OnePlace
<1>4. \A v \in Urls : /\ Queued(v)' <=> (Queued(v) /\ v # item.url)
                      /\ Flying(v)' <=> Flying(v)
                      /\ Rowed(v)' <=> Rowed(v)
    BY <1>1, <1>2 DEF Queued, Flying, Rowed, Kept, Once, OnceEach
<1>5. \A v \in Urls : Skipped(v)' <=> (Skipped(v) \/ v = item.url)
    BY <1>1, <1>2, <1>3 DEF Skipped, RecordSkip, Typed, TypeOK
<1>6. seen \subseteq Urls
    BY DEF Typed, TypeOK, Urls, Own
<1>7. AcceptedKept'
    BY <1>2, <1>4, <1>5, <1>6 DEF Kept, NothingDropped, AcceptedKept
<1>8. OnePlace'
    BY <1>3, <1>4, <1>5 DEF Kept, NothingDropped, OnePlace
<1> QED
    BY <1>1, <1>2, <1>7, <1>8 DEF Kept, NothingDropped, Once, OnceEach, RowsSeen

LEMMA NextKeeps == Typed /\ Kept /\ [Next]_vars => Kept'
<1> SUFFICES ASSUME Typed, Kept, [Next]_vars PROVE Kept'
    OBVIOUS
<1>1. CASE ReadSitemap
    BY <1>1, EnqueueKeeps, SiteAssumption DEF ReadSitemap, loopVars, Urls, Own
<1>2. CASE \E o \in offers : TakeOffer(o)
    BY <1>2, TakeOfferKeeps
<1>3. CASE StartTask
    BY <1>3, StartKeeps
<1>4. CASE DrainOne
    BY <1>4, DrainKeeps
<1>5. CASE \E t \in inFlight : Fetch(t)
    BY <1>5, FetchKeeps
<1>6. CASE OffersTaken \/ Cancel \/ Park \/ Wake \/ AllSettled \/ ProbeAssets \/ ProbeExternals
           \/ Return \/ (\E u \in running : ProbeSettles(u)) \/ Abort \/ UNCHANGED vars
    BY <1>6, SameKeeps
       DEF OffersTaken, Cancel, Park, Wake, AllSettled, ProbeAssets, ProbeExternals, Return,
           ProbeSettles, Abort, vars, loopVars, admitVars
<1> QED
    BY <1>1, <1>2, <1>3, <1>4, <1>5, <1>6 DEF Next, LoopStep

-----------------------------------------------------------------------------
(* Counting.  A fetch that was started is in flight, a row or was cancelled.  *)

Counted ==
    /\ Cardinality(rows) + Cardinality(inFlight) <= started
    /\ started <= config.maxPages

LEMMA EnqueueFinite ==
    ASSUME Typed, Finite, NEW u, NEW d, NEW isSeed, Enqueue(u, d, isSeed)
    PROVE  IsFiniteSet(seen') /\ IsFiniteSet(assets')
<1>1. seen' = seen \/ seen' = seen \cup {u}
    BY DEF Enqueue, admitVars
<1>2. assets' = assets \/ assets' = assets \cup {u}
    BY DEF Enqueue, admitVars, TrackAsset
<1> QED
    BY <1>1, <1>2, FS_AddElement DEF Finite

LEMMA TakeOfferFinite ==
    ASSUME Typed, Finite, NEW o \in offers, TakeOffer(o)
    PROVE  Finite'
<1>1. UNCHANGED <<rows, inFlight>>
    BY DEF TakeOffer, loopVars
<1>2. IsFiniteSet(externals')
    <2>1. externals' = externals \/ externals' = externals \cup {o.url}
        BY DEF TakeOffer, SeedFromSitemap, FollowLink, SeeImage, TrackExternal
    <2> QED
        BY <2>1, FS_AddElement DEF Finite
<1>3. IsFiniteSet(seen') /\ IsFiniteSet(assets')
    <2>1. CASE Enqueue(o.url, o.depth, FALSE)
        BY <2>1, EnqueueFinite
    <2>2. CASE UNCHANGED <<seen, assets>>
        BY <2>2 DEF Finite
    <2>3. CASE SeeImage(o)
        <3>1. UNCHANGED seen /\ (assets' = assets \/ assets' = assets \cup {o.url})
            BY <2>3 DEF SeeImage, TrackAsset
        <3> QED
            BY <3>1, FS_AddElement DEF Finite
    <2> QED
        BY <2>1, <2>2, <2>3 DEF TakeOffer, SeedFromSitemap, FollowLink
<1> QED
    BY <1>1, <1>2, <1>3 DEF Finite

(* The sets stay finite, and started counts what it should. *)
LEMMA FetchCounts ==
    ASSUME Typed, Finite, Counted, NEW t \in inFlight, Fetch(t)
    PROVE  Finite' /\ Counted'
<1>1. inFlight' = inFlight \ {t} /\ UNCHANGED <<assets, externals, seen, started, config>>
    BY DEF Fetch, FetchCancelled, FetchFailed, FetchMoved, FetchPage, Settles, admitVars
<1>2. PICK r : rows' = rows \/ rows' = rows \cup {r}
    BY DEF Fetch, FetchCancelled, FetchFailed, FetchMoved, FetchPage
<1>3. IsFiniteSet(inFlight') /\ Cardinality(inFlight') = Cardinality(inFlight) - 1
    BY <1>1, FS_RemoveElement DEF Finite
<1>4. /\ IsFiniteSet(rows')
      /\ Cardinality(rows') = Cardinality(rows) \/ Cardinality(rows') = Cardinality(rows) + 1
    BY <1>2, FS_AddElement DEF Finite
<1>5. /\ Cardinality(rows) \in Nat /\ Cardinality(inFlight) \in Nat /\ started \in Nat
      /\ config.maxPages \in Nat
    BY FS_CardinalityType, ConfigTyped DEF Finite, Typed, TypeOK
<1> QED
    BY <1>1, <1>3, <1>4, <1>5 DEF Finite, Counted

LEMMA StartCounts ==
    ASSUME Typed, Finite, Counted, StartTask
    PROVE  Finite' /\ Counted'
<1>1. PICK item \in Shallowest : inFlight' = inFlight \cup {item}
    BY DEF StartTask
<1>2. /\ started' = started + 1 /\ started < config.maxPages
      /\ UNCHANGED <<rows, assets, externals, seen, config>>
    BY DEF StartTask, MayStart
<1>3. /\ IsFiniteSet(inFlight')
      /\ \/ Cardinality(inFlight') = Cardinality(inFlight)
         \/ Cardinality(inFlight') = Cardinality(inFlight) + 1
    BY <1>1, FS_AddElement DEF Finite
<1>4. /\ Cardinality(rows) \in Nat /\ Cardinality(inFlight) \in Nat /\ started \in Nat
      /\ config.maxPages \in Nat
    BY FS_CardinalityType, ConfigTyped DEF Finite, Typed, TypeOK
<1> QED
    BY <1>2, <1>3, <1>4 DEF Finite, Counted

LEMMA NextCounts == Typed /\ Finite /\ Counted /\ [Next]_vars => Finite' /\ Counted'
<1> SUFFICES ASSUME Typed, Finite, Counted, [Next]_vars PROVE Finite' /\ Counted'
    OBVIOUS
<1>1. CASE ReadSitemap
    <2>1. IsFiniteSet(seen') /\ IsFiniteSet(assets')
        BY <1>1, EnqueueFinite DEF ReadSitemap
    <2> QED
        BY <1>1, <2>1 DEF ReadSitemap, Finite, Counted, loopVars
<1>2. ASSUME NEW o \in offers, TakeOffer(o) PROVE Finite' /\ Counted'
    BY <1>2, TakeOfferFinite DEF TakeOffer, Counted, loopVars
<1>3. CASE StartTask
    BY <1>3, StartCounts
<1>4. CASE \E t \in inFlight : Fetch(t)
    BY <1>4, FetchCounts
<1>5. CASE OffersTaken \/ Cancel \/ Park \/ Wake \/ AllSettled \/ DrainOne \/ ProbeAssets
           \/ ProbeExternals \/ Return \/ (\E u \in running : ProbeSettles(u)) \/ Abort
           \/ UNCHANGED vars
    BY <1>5
       DEF OffersTaken, Cancel, Park, Wake, AllSettled, DrainOne, ProbeAssets, ProbeExternals, Return,
           ProbeSettles, Abort, vars, loopVars, admitVars, Finite, Counted
<1> QED
    BY <1>1, <1>2, <1>3, <1>4, <1>5 DEF Next, LoopStep

(* Types are kept by every step. *)
LEMMA NextTyped == Typed /\ Finite /\ [Next]_vars => Typed'
<1> SUFFICES ASSUME Typed, Finite, [Next]_vars PROVE Typed'
    OBVIOUS
<1>1. CASE LoopStep
    BY <1>1, LoopTyped
<1>2. CASE \E t \in inFlight : Fetch(t)
    BY <1>2, FetchTyped
<1>3. CASE \E u \in running : ProbeSettles(u)
    BY <1>3, ProbeTyped
<1>4. CASE Abort
    BY <1>4 DEF Abort, Typed, TypeOK, Accepted, OffersOwn, loopVars, admitVars, probeVars, flagVars
<1>5. CASE UNCHANGED vars
    BY <1>5
       DEF vars, Typed, TypeOK, Accepted, OffersOwn, loopVars, admitVars, probeVars, flagVars
<1> QED
    BY <1>1, <1>2, <1>3, <1>4, <1>5 DEF Next

-----------------------------------------------------------------------------
(* The probes.  Before them no probe is known; while assets are probed none   *)
(* of the targets was accepted, and nothing is accepted any more.             *)

Early == {"sitemap", "seed", "fill", "race", "links", "settle"}
Queue == {waiting[i] : i \in DOMAIN waiting}

Probing ==
    /\ pc \in Early \cup {"drain"} => waiting = <<>> /\ running = {}
    /\ pc \notin Early => inFlight = {}
    /\ pc \notin {"externals", "done"} => assetRows = {}
    /\ pc = "assets" => (Queue \cup running \cup answers) \cap seen = {}
    /\ assetRows \cap seen = {}

IInv == Typed /\ Finite /\ Counted /\ Kept /\ Probing

(* A launch queues and runs targets only. *)
LEMMA LaunchTargets ==
    ASSUME Typed, NEW T \in SUBSET Urls, IsFiniteSet(T), Launch(T)
    PROVE  Queue' \subseteq T /\ running' \subseteq T /\ answers' = {}
<1>1. running' \subseteq T /\ waiting' \in Seq(T) /\ answers' = {}
    BY LaunchTyped
<1> QED
    BY <1>1 DEF Queue

LEMMA ProbeTargets ==
    ASSUME Typed, NEW u \in running, ProbeSettles(u)
    PROVE  (Queue \cup running \cup answers)' \subseteq Queue \cup running \cup answers
<1>1. CASE waiting = <<>>
    BY <1>1 DEF ProbeSettles, Queue
<1>2. CASE waiting # <<>>
    <2>1. waiting \in Seq(Urls)
        BY DEF Typed, TypeOK
    <2>2. /\ Len(waiting) \in Nat \ {0} /\ DOMAIN waiting = 1..Len(waiting)
          /\ Head(waiting) = waiting[1]
        BY <1>2, <2>1, EmptySeq
    <2>3. /\ Tail(waiting) \in Seq(Urls) /\ Len(Tail(waiting)) = Len(waiting) - 1
          /\ \A i \in 1..Len(Tail(waiting)) : Tail(waiting)[i] = waiting[i + 1]
        BY <1>2, <2>1, HeadTailProperties
    <2>4. Head(waiting) \in Queue
        BY <2>2 DEF Queue
    <2>5. waiting' = Tail(waiting)
        BY <1>2 DEF ProbeSettles
    <2>6. Queue' \subseteq Queue
        <3>1. \A i \in DOMAIN Tail(waiting) : i + 1 \in DOMAIN waiting
                                              /\ Tail(waiting)[i] = waiting[i + 1]
            BY <2>2, <2>3
        <3> QED
            BY <2>5, <3>1 DEF Queue
    <2> QED
        BY <1>2, <2>4, <2>6 DEF ProbeSettles
<1> QED
    BY <1>1, <1>2

LEMMA NextProbes == Typed /\ Finite /\ Probing /\ [Next]_vars => Probing'
<1> SUFFICES ASSUME Typed, Finite, Probing, [Next]_vars PROVE Probing'
    OBVIOUS
<1>1. CASE pc' = pc /\ UNCHANGED <<waiting, running, answers, assetRows, inFlight, seen>>
    BY <1>1 DEF Probing, Queue
<1>2. CASE \E o \in offers : TakeOffer(o)
    BY <1>2 DEF TakeOffer, Probing, Early, Queue, probeVars, loopVars
<1>3. CASE ReadSitemap \/ OffersTaken \/ Cancel \/ StartTask \/ Park \/ Wake \/ AllSettled
    BY <1>3 DEF ReadSitemap, OffersTaken, Cancel, StartTask, Park, Wake, AllSettled, Probing, Early,
                Queue, probeVars, loopVars, Typed, TypeOK
<1>4. ASSUME NEW t \in inFlight, Fetch(t) PROVE Probing'
    <2>1. pc \in {"race", "settle"} /\ pc' \in {pc, "links"} /\ UNCHANGED probeVars
        BY <1>4 DEF Fetch, FetchCancelled, FetchFailed, FetchMoved, FetchPage, Settles
    <2> QED
        BY <2>1 DEF Probing, Early, Queue, probeVars
<1>5. CASE ProbeAssets
    <2>1. PICK T : T \in {{}, assets \ seen} /\ Launch(T)
        BY <1>5 DEF ProbeAssets
    <2>2. T \in SUBSET Urls /\ IsFiniteSet(T) /\ T \cap seen = {}
        <3>1. IsFiniteSet(assets \ seen)
            BY FS_Difference DEF Finite
        <3> QED
            BY <2>1, <3>1, FS_EmptySet DEF Typed, TypeOK, Urls
    <2>3. Queue' \subseteq T /\ running' \subseteq T /\ answers' = {}
        BY <2>1, <2>2, LaunchTargets
    <2> QED
        BY <1>5, <2>2, <2>3 DEF ProbeAssets, Probing, Early, loopVars, admitVars
<1>6. ASSUME NEW u \in running, ProbeSettles(u) PROVE Probing'
    <2>1. (Queue \cup running \cup answers)' \subseteq Queue \cup running \cup answers
        BY <1>6, ProbeTargets
    <2>2. pc \in {"assets", "externals", "done"} /\ UNCHANGED <<pc, seen, assetRows, inFlight>>
        BY <1>6 DEF ProbeSettles, Probing, Early, loopVars, admitVars, Typed, TypeOK
    <2> QED
        BY <2>1, <2>2 DEF Probing, Early
<1>7. CASE ProbeExternals
    BY <1>7 DEF ProbeExternals, Probing, Early, loopVars, admitVars
<1>8. CASE Return
    BY <1>8 DEF Return, Probing, Early, loopVars, admitVars
<1>9. CASE DrainOne \/ Abort \/ UNCHANGED vars
    BY <1>1, <1>9 DEF DrainOne, Abort, vars, loopVars, admitVars, probeVars
<1> QED
    BY <1>2, <1>3, <1>4, <1>5, <1>6, <1>7, <1>8, <1>9 DEF Next, LoopStep

LEMMA InitInv == Init => IInv
<1> SUFFICES ASSUME Init PROVE IInv
    OBVIOUS
<1>1. Typed
    BY InitTyped
<1>2. Finite
    BY FS_EmptySet DEF Init, Finite
<1>3. Counted
    BY FS_EmptySet, <1>1, ConfigTyped DEF Init, Counted
<1>4. Kept
    BY DEF Init, Kept, NothingDropped, AcceptedKept, OnePlace, Once, OnceEach, RowsSeen, Queued,
           Flying, Rowed
<1>5. Probing
    BY DEF Init, Probing, Early
<1> QED
    BY <1>1, <1>2, <1>3, <1>4, <1>5 DEF IInv

(* The inductive invariant holds of every run of the engine. *)
THEOREM Invariance == Spec => []IInv
<1>1. IInv /\ [Next]_vars => IInv'
    BY NextTyped, NextCounts, NextKeeps, NextProbes DEF IInv
<1> QED
    BY InitInv, <1>1, PTL DEF Spec

(* Type correctness, for every site and configuration. *)
THEOREM TypeCorrect == Spec => []TypeOK
<1>1. IInv => TypeOK
    BY DEF IInv, Typed
<1> QED
    BY Invariance, <1>1, PTL

(* Nothing is dropped silently, and nothing is both crawled and skipped: an   *)
(* accepted URL is at every moment queued, in flight, a row or a skip of the  *)
(* outcome, and in one of these places only.                                  *)
THEOREM NothingIsDropped == Spec => []NothingDropped
<1>1. IInv => NothingDropped
    BY DEF IInv, Kept
<1> QED
    BY Invariance, <1>1, PTL

(* The page limit bounds the rows, whatever the concurrency. *)
THEOREM LimitHolds == Spec => []PageLimitHolds
<1>1. IInv => PageLimitHolds
    <2> SUFFICES ASSUME IInv PROVE PageLimitHolds
        OBVIOUS
    <2>1. /\ Cardinality(rows) \in Nat /\ Cardinality(inFlight) \in Nat /\ started \in Nat
          /\ config.maxPages \in Nat
        BY FS_CardinalityType, ConfigTyped DEF IInv, Finite, Typed, TypeOK
    <2> QED
        BY <2>1 DEF IInv, Counted, PageLimitHolds
<1> QED
    BY Invariance, <1>1, PTL

(* The outcome never has two rows for one URL, probed assets included, so     *)
(* that the rows of a crawl can be stored under their unique key.             *)
THEOREM RowsAreUnique == Spec => []OneRowPerUrl
<1>1. IInv => OneRowPerUrl
    BY DEF IInv, Kept, Once, OnceEach, RowsSeen, Probing, OneRowPerUrl, Rowed
<1> QED
    BY Invariance, <1>1, PTL

-----------------------------------------------------------------------------
(* Completeness.  The flags of the outcome say why an accepted URL was not    *)
(* fetched, and the sitemaps only run into their limit when more URLs than    *)
(* the crawl may fetch were accepted from them.                               *)

Pending  == pc \in {"race", "fill"} \/ (pc = "links" /\ back = "race")
Settling == pc = "settle" \/ (pc = "links" /\ back = "settle")

Seeding ==
    /\ pc = "sitemap" => seen = {} /\ seeded = 0
    /\ pc # "sitemap" => Cardinality(seen) > seeded

Reasoned ==
    /\ \A u \in Urls : skips[u] = "cancelled" => cancelled \/ (aborted /\ Pending)
    /\ \A u \in Urls : skips[u] = "max-pages" =>
          \/ cancelled
          \/ limitReached
          \/ u \notin seen /\ Cardinality(seen) > config.maxPages
    /\ \A u \in seen : skips[u] \in {"none", "cancelled", "max-pages"}

Flagged ==
    /\ Settling /\ inFlight # {} => cancelled
    /\ pc = "drain" /\ frontier # {} => cancelled \/ limitReached
    /\ pc \in {"assets", "externals", "done"} => frontier = {}

Honest == Seeding /\ Reasoned /\ Flagged

(* A skip that enqueue records has none of the two reasons. *)
LEMMA VerdictReasons ==
    ASSUME NEW u, NEW d, NEW isSeed
    PROVE  Verdict(u, d, isSeed) \in {"off-site", "non-html-extension", "refused", "max-depth", "ok"}
BY DEF Verdict

(* What enqueue does to the reasons: it accepts one URL more, or skips one    *)
(* that was not accepted, or nothing.                                         *)
LEMMA EnqueueReasons ==
    ASSUME Typed, Finite, Reasoned, NEW u \in Urls, NEW d \in Nat, NEW isSeed \in BOOLEAN,
           Enqueue(u, d, isSeed), UNCHANGED <<config, aborted, cancelled, limitReached>>,
           Pending => Pending'
    PROVE  /\ Reasoned'
           /\ Accepts(u, d, isSeed) => Cardinality(seen') = Cardinality(seen) + 1
           /\ ~Accepts(u, d, isSeed) => seen' = seen
<1>1. Cardinality(seen) \in Nat /\ config.maxPages \in Nat
    BY FS_CardinalityType, ConfigTyped DEF Finite
<1>2. CASE u \in seen /\ UNCHANGED admitVars
    BY <1>2 DEF admitVars, Reasoned, Accepts
<1>3. CASE /\ u \notin seen
           /\ ~Accepts(u, d, isSeed)
           /\ RecordSkip(u, Verdict(u, d, isSeed))
           /\ UNCHANGED <<seen, frontier>>
    <2>1. Verdict(u, d, isSeed) \notin {"cancelled", "max-pages"}
        BY VerdictReasons
    <2>2. \A v \in Urls : skips'[v] = skips[v] \/ (v = u /\ skips'[v] \notin {"cancelled", "max-pages"})
        BY <1>3, <2>1 DEF RecordSkip, Typed, TypeOK
    <2>3. seen \subseteq Urls
        BY DEF Typed, TypeOK, Urls, Own
    <2> QED
        BY <1>3, <2>2, <2>3 DEF Reasoned
<1>4. CASE /\ Accepts(u, d, isSeed)
           /\ seen' = seen \cup {u}
           /\ RetractSkip(u)
    <2>1. u \notin seen
        BY <1>4 DEF Accepts
    <2>2. Cardinality(seen') = Cardinality(seen) + 1
        BY <1>4, <2>1, FS_AddElement DEF Finite
    <2>3. \A v \in Urls : skips'[v] = IF v = u THEN "none" ELSE skips[v]
        BY <1>4 DEF RetractSkip, Typed, TypeOK
    <2>4. seen \subseteq Urls
        BY DEF Typed, TypeOK, Urls, Own
    <2>5. Reasoned'
        <3>1. \A v \in Urls : skips'[v] = "cancelled" => cancelled' \/ (aborted' /\ Pending')
            BY <2>3 DEF Reasoned
        <3>2. \A v \in Urls : skips'[v] = "max-pages" =>
                 \/ cancelled'
                 \/ limitReached'
                 \/ v \notin seen' /\ Cardinality(seen') > config'.maxPages
            BY <1>1, <1>4, <2>2, <2>3 DEF Reasoned
        <3>3. \A v \in seen' : skips'[v] \in {"none", "cancelled", "max-pages"}
            BY <1>4, <2>3, <2>4 DEF Reasoned
        <3> QED
            BY <3>1, <3>2, <3>3 DEF Reasoned
    <2> QED
        BY <1>4, <2>2, <2>5
<1> QED
    BY <1>2, <1>3, <1>4 DEF Enqueue

LEMMA TakeOfferHonest ==
    ASSUME Typed, Finite, Honest, NEW o \in offers, TakeOffer(o)
    PROVE  Honest'
<1>1. /\ o.url \in Urls /\ o.depth \in Nat /\ pc \in {"seed", "links"}
      /\ UNCHANGED <<config, pc, aborted, cancelled, limitReached, back, inFlight>>
    BY DEF Typed, TypeOK, Offers, TakeOffer, loopVars, flagVars
<1>2. Pending => Pending'
    BY <1>1 DEF Pending
<1>3. /\ Cardinality(seen) \in Nat /\ seeded \in Nat /\ config.maxPages \in Nat
      /\ Cardinality(seen) > seeded
    BY <1>1, FS_CardinalityType, ConfigTyped DEF Finite, Typed, TypeOK, Honest, Seeding
<1>4. Flagged'
    BY <1>1 DEF Honest, Flagged, Settling
<1>5. Reasoned' /\ Cardinality(seen') > seeded'
    <2>1. CASE SeedFromSitemap(o)
        <3>1. CASE /\ seeded >= SeedMultiple * config.maxPages
                   /\ IF o.url \in seen THEN UNCHANGED <<skips, recorded, skippedCount>>
                                        ELSE RecordSkip(o.url, "max-pages")
                   /\ UNCHANGED <<seeded, seen, frontier, assets>>
            <4>1. SeedMultiple * config.maxPages >= config.maxPages
                <5>1. SeedMultiple \in Nat \ {0}
                    BY ConfigAssumption
                <5>2. \A m \in Nat \ {0}, n \in Nat : m * n >= n
                    <6>1. \A m \in Nat \ {0}, n \in Nat : m * n = (m - 1) * n + n /\ (m - 1) * n >= 0
                        OBVIOUS
                    <6> QED
                        BY <6>1
                <5> QED
                    BY <1>3, <5>1, <5>2
            <4>2. Cardinality(seen) > config.maxPages
                <5>1. SeedMultiple * config.maxPages \in Nat
                    BY <1>3, ConfigAssumption
                <5> QED
                    BY <1>3, <3>1, <4>1, <5>1
            <4>3. \A v \in Urls : \/ skips'[v] = skips[v]
                                  \/ v \notin seen /\ skips'[v] = "max-pages"
                BY <1>1, <3>1 DEF RecordSkip, Typed, TypeOK
            <4>4. seen \subseteq Urls
                BY DEF Typed, TypeOK, Urls, Own
            <4> QED
                BY <1>1, <1>2, <1>3, <3>1, <4>2, <4>3, <4>4 DEF Honest, Reasoned
        <3>2. CASE /\ Enqueue(o.url, o.depth, FALSE)
                   /\ seeded' = seeded + (IF Accepts(o.url, o.depth, FALSE) THEN 1 ELSE 0)
            <4>1. /\ Reasoned'
                  /\ Accepts(o.url, o.depth, FALSE) => Cardinality(seen') = Cardinality(seen) + 1
                  /\ ~Accepts(o.url, o.depth, FALSE) => seen' = seen
                BY <1>1, <1>2, <3>2, EnqueueReasons DEF Honest
            <4>2. CASE Accepts(o.url, o.depth, FALSE)
                <5>1. seeded' = seeded + 1
                    BY <3>2, <4>2
                <5> QED
                    BY <1>3, <4>1, <4>2, <5>1
            <4>3. CASE ~Accepts(o.url, o.depth, FALSE)
                <5>1. seeded' = seeded + 0
                    BY <3>2, <4>3
                <5> QED
                    BY <1>3, <4>1, <4>3, <5>1
            <4> QED
                BY <4>2, <4>3
        <3> QED
            BY <2>1, <3>1, <3>2 DEF SeedFromSitemap
    <2>2. CASE FollowLink(o)
        <3>1. CASE Enqueue(o.url, o.depth, FALSE)
            <4>1. /\ Reasoned'
                  /\ Cardinality(seen') = Cardinality(seen) + 1 \/ seen' = seen
                BY <1>1, <1>2, <3>1, EnqueueReasons DEF Honest
            <4> QED
                BY <1>3, <2>2, <4>1 DEF FollowLink
        <3>2. CASE o.url \in Externals /\ RecordSkip(o.url, "off-site") /\ UNCHANGED <<seen, frontier>>
            <4>1. o.url \notin seen
                BY <3>2, SiteAssumption DEF Typed, TypeOK
            <4>2. \A v \in Urls : \/ skips'[v] = skips[v]
                                  \/ v = o.url /\ skips'[v] = "off-site"
                BY <1>1, <3>2 DEF RecordSkip, Typed, TypeOK
            <4>3. seen \subseteq Urls
                BY DEF Typed, TypeOK, Urls, Own
            <4> QED
                BY <1>1, <1>2, <1>3, <2>2, <3>2, <4>1, <4>2, <4>3 DEF FollowLink, Honest, Reasoned
        <3> QED
            BY <2>2, <3>1, <3>2 DEF FollowLink
    <2>3. CASE SeeImage(o)
        BY <1>1, <1>2, <1>3, <2>3 DEF SeeImage, Honest, Reasoned
    <2> QED
        BY <2>1, <2>2, <2>3 DEF TakeOffer
<1> QED
    BY <1>1, <1>4, <1>5 DEF Honest, Seeding

(* The start URL is always accepted. *)
LEMMA ReadSitemapHonest == Typed /\ Finite /\ Honest /\ ReadSitemap => Honest'
<1> SUFFICES ASSUME Typed, Finite, Honest, ReadSitemap PROVE Honest'
    OBVIOUS
<1>1. /\ pc = "sitemap" /\ pc' = "seed" /\ seen = {} /\ seeded = 0 /\ Enqueue(Home, 0, TRUE)
      /\ UNCHANGED <<config, aborted, cancelled, limitReached, back, inFlight, seeded>>
    BY DEF ReadSitemap, Honest, Seeding, loopVars, flagVars
<1>2. Accepts(Home, 0, TRUE)
    <2>1. /\ Home \in Pages /\ Home \notin Externals /\ Home \notin Assets /\ Home \notin Refused
          /\ Home \notin Disallowed
        BY SiteAssumption
    <2>2. ~(0 > config.maxDepth)
        BY ConfigTyped
    <2> QED
        BY <1>1, <2>1, <2>2 DEF Accepts, Verdict
<1>3. Reasoned' /\ Cardinality(seen') = Cardinality(seen) + 1
    BY <1>1, <1>2, EnqueueReasons, SiteAssumption DEF Honest, Pending, Urls, Own
<1>4. Cardinality(seen') > seeded'
    BY <1>1, <1>3, FS_EmptySet
<1> QED
    BY <1>1, <1>3, <1>4 DEF Honest, Seeding, Flagged, Settling

LEMMA FetchHonest ==
    ASSUME Typed, Honest, NEW t \in inFlight, Fetch(t)
    PROVE  Honest'
<1>1. /\ pc \in {"race", "settle"} /\ inFlight' = inFlight \ {t}
      /\ UNCHANGED <<config, seeded, seen, frontier, aborted, cancelled, limitReached>>
      /\ \/ pc' = pc
         \/ pc' = "links" /\ back' = pc
    BY DEF Fetch, FetchCancelled, FetchFailed, FetchMoved, FetchPage, Settles, admitVars, flagVars
<1>2. (Pending => Pending') /\ (Settling <=> Settling') /\ (Pending \/ Settling)
    BY <1>1 DEF Pending, Settling
<1>3. \A u \in Urls : \/ skips'[u] = skips[u]
                      \/ skips'[u] = "cancelled" /\ aborted
    BY DEF Fetch, FetchCancelled, FetchFailed, FetchMoved, FetchPage, RecordSkip, Typed, TypeOK,
           admitVars
<1>4. Settling => cancelled
    BY DEF Honest, Flagged
<1>5. seen \subseteq Urls
    BY DEF Typed, TypeOK, Urls, Own
<1>6. Reasoned'
    BY <1>1, <1>2, <1>3, <1>4, <1>5 DEF Honest, Reasoned
<1>7. Flagged'
    BY <1>1, <1>2, <1>4 DEF Honest, Flagged
<1> QED
    BY <1>1, <1>6, <1>7 DEF Honest, Seeding

LEMMA NextHonest == Typed /\ Finite /\ Honest /\ Probing /\ [Next]_vars => Honest'
<1> SUFFICES ASSUME Typed, Finite, Honest, Probing, [Next]_vars PROVE Honest'
    OBVIOUS
<1>1. CASE ReadSitemap
    BY <1>1, ReadSitemapHonest
<1>2. CASE \E o \in offers : TakeOffer(o)
    BY <1>2, TakeOfferHonest
<1>3. CASE \E t \in inFlight : Fetch(t)
    BY <1>3, FetchHonest
<1>4. CASE OffersTaken
    BY <1>4 DEF OffersTaken, Honest, Seeding, Reasoned, Flagged, Pending, Settling, loopVars,
                admitVars, flagVars, Typed, TypeOK, Probing, Early
<1>5. CASE Cancel
    BY <1>5 DEF Cancel, Honest, Seeding, Reasoned, Flagged, Pending, Settling, loopVars, admitVars
<1>6. CASE StartTask
    BY <1>6 DEF StartTask, Honest, Seeding, Reasoned, Flagged, Pending, Settling, flagVars
<1>7. CASE Park
    BY <1>7 DEF Park, Honest, Seeding, Reasoned, Flagged, Pending, Settling, admitVars
<1>8. CASE Wake
    BY <1>8 DEF Wake, Honest, Seeding, Reasoned, Flagged, Pending, Settling, loopVars, admitVars,
                flagVars
<1>9. CASE AllSettled
    BY <1>9 DEF AllSettled, Honest, Seeding, Reasoned, Flagged, Pending, Settling, loopVars, admitVars
<1>10. CASE DrainOne
    <2>1. PICK item \in Shallowest :
             /\ frontier' = frontier \ {item}
             /\ RecordSkip(item.url, IF cancelled THEN "cancelled" ELSE "max-pages")
        BY <1>10 DEF DrainOne
    <2>2. item \in frontier /\ pc = "drain" /\ cancelled \in BOOLEAN
        BY <1>10, <2>1 DEF Shallowest, DrainOne, Typed, TypeOK
    <2>3. cancelled \/ limitReached
        BY <2>2 DEF Honest, Flagged
    <2>4. \A v \in Urls : \/ skips'[v] = skips[v]
                          \/ skips'[v] = IF cancelled THEN "cancelled" ELSE "max-pages"
        BY <2>1 DEF RecordSkip, Typed, TypeOK
    <2>5. seen \subseteq Urls
        BY DEF Typed, TypeOK, Urls, Own
    <2>6. UNCHANGED <<config, pc, seeded, aborted, seen, cancelled, limitReached, back, inFlight>>
        BY <1>10 DEF DrainOne, loopVars, flagVars
    <2>7. Reasoned'
        <3>1. CASE cancelled
            <4>1. \A v \in Urls : skips'[v] = skips[v] \/ skips'[v] = "cancelled"
                BY <2>4, <3>1
            <4> QED
                BY <2>5, <2>6, <3>1, <4>1 DEF Honest, Reasoned
        <3>2. CASE ~cancelled
            <4>1. \A v \in Urls : skips'[v] = skips[v] \/ skips'[v] = "max-pages"
                BY <2>4, <3>2
            <4>2. ~Pending /\ limitReached
                BY <2>2, <2>3, <3>2 DEF Pending
            <4> QED
                BY <2>5, <2>6, <3>2, <4>1, <4>2 DEF Honest, Reasoned
        <3> QED
            BY <3>1, <3>2
    <2>8. Flagged'
        BY <2>1, <2>2, <2>3, <2>6 DEF Honest, Flagged, Settling
    <2> QED
        BY <2>6, <2>7, <2>8 DEF Honest, Seeding
<1>11. CASE ProbeAssets \/ ProbeExternals \/ Return
    BY <1>11 DEF ProbeAssets, ProbeExternals, Return, Honest, Seeding, Reasoned, Flagged, Pending,
                 Settling, loopVars, admitVars, flagVars
<1>12. CASE \E u \in running : ProbeSettles(u)
    BY <1>12 DEF ProbeSettles, Honest, Seeding, Reasoned, Flagged, Pending, Settling, loopVars,
                 admitVars, flagVars
<1>13. CASE Abort
    BY <1>13 DEF Abort, Honest, Seeding, Reasoned, Flagged, Pending, Settling, loopVars,
                 admitVars, flagVars
<1>14. CASE UNCHANGED vars
    BY <1>14 DEF vars, Honest, Seeding, Reasoned, Flagged, Pending, Settling, loopVars,
                 admitVars, flagVars
<1> QED
    BY <1>1, <1>2, <1>3, <1>4, <1>5, <1>6, <1>7, <1>8, <1>9, <1>10, <1>11, <1>12, <1>13, <1>14
       DEF Next, LoopStep

LEMMA InitHonest == Init => Honest
<1> SUFFICES ASSUME Init PROVE Honest
    OBVIOUS
<1>1. \A u \in Urls : skips[u] = "none"
    BY DEF Init
<1> QED
    BY <1>1 DEF Init, Honest, Seeding, Reasoned, Flagged, Settling

LEMMA HonestHolds == Spec => []Honest
<1>1. IInv /\ Honest /\ [Next]_vars => Honest'
    BY NextHonest DEF IInv
<1> QED
    BY InitHonest, Invariance, <1>1, PTL DEF Spec

(* Each accepted URL that is a row has one of its own. *)
LEMMA SeenWithinRows ==
    ASSUME Typed, Finite, \A u \in seen : Rowed(u)
    PROVE  Cardinality(seen) <= Cardinality(rows)
<1> DEFINE f == [u \in seen |-> CHOOSE r \in rows : r.url = u]
<1>1. \A u \in seen : f[u] \in rows /\ f[u].url = u
    BY DEF Rowed
<1>2. f \in [seen -> rows]
    BY <1>1
<1>3. f \in Injection(seen, rows)
    BY <1>1, <1>2 DEF Injection, IsInjective
<1> HIDE DEF f
<1> QED
    BY <1>3, FS_Injection DEF Finite

(* An outcome that is neither cancelled nor at its page limit is complete:    *)
(* every accepted URL was fetched and none was left out for either reason.    *)
(* This is what entitles the worker to deactivate the pages it did not see.   *)
THEOREM CompleteIsComplete == Spec => []CompleteWhenSaid
<1>1. IInv /\ Honest => CompleteWhenSaid
    <2> SUFFICES ASSUME IInv, Honest, pc = "done", ~cancelled, ~limitReached
                 PROVE  /\ \A u \in seen : Rowed(u)
                        /\ \A u \in Urls : skips[u] \notin {"cancelled", "max-pages"}
        BY DEF CompleteWhenSaid
    <2>1. frontier = {} /\ inFlight = {} /\ ~Pending
        BY DEF IInv, Honest, Flagged, Probing, Early, Pending
    <2>2. seen \subseteq Urls
        BY DEF IInv, Typed, TypeOK, Urls, Own
    <2>3. \A u \in Urls : skips[u] # "cancelled"
        BY <2>1 DEF Honest, Reasoned
    <2>4. \A u \in seen : Rowed(u)
        BY <2>1, <2>2, <2>3
           DEF IInv, Kept, NothingDropped, AcceptedKept, Queued, Flying, Skipped, Honest, Reasoned
    <2>5. /\ Cardinality(seen) \in Nat /\ Cardinality(rows) \in Nat
          /\ Cardinality(inFlight) \in Nat /\ started \in Nat /\ config.maxPages \in Nat
        BY FS_CardinalityType, ConfigTyped DEF IInv, Finite, Typed, TypeOK
    <2>6. Cardinality(seen) <= Cardinality(rows)
        BY <2>4, SeenWithinRows DEF IInv
    <2>7. ~(Cardinality(seen) > config.maxPages)
        BY <2>5, <2>6 DEF IInv, Counted
    <2>8. \A u \in Urls : skips[u] # "max-pages"
        BY <2>7 DEF Honest, Reasoned
    <2> QED
        BY <2>3, <2>4, <2>8
<1> QED
    BY Invariance, HonestHolds, <1>1, PTL

-----------------------------------------------------------------------------
(* The slots of the engine implement the counting semaphore: every step is a  *)
(* join, a leave or a stutter of Semaphore.                                   *)

Injective(q) == \A i, j \in DOMAIN q : q[i] = q[j] => i = j

(* What the refinement needs beyond the engine's own invariant. *)
Slots ==
    /\ Cardinality(inFlight) <= config.concurrency
    /\ IsFiniteSet(running)
    /\ Cardinality(running) <= config.concurrency
    /\ waiting # <<>> => Cardinality(running) = config.concurrency
    /\ Injective(waiting)
    /\ Queue \cap running = {}

Holding == {t.url : t \in inFlight} \cup running

(* An injection of 1..n into a set of n elements is onto.                     *)
LEMMA OrderIsOnto ==
    ASSUME NEW T, IsFiniteSet(T), NEW q \in Orders(T)
    PROVE  \A t \in T : \E i \in 1..Cardinality(T) : q[i] = t
<1> DEFINE n == Cardinality(T)
<1>1. n \in Nat /\ q \in [1..n -> T] /\ \A i, j \in 1..n : i # j => q[i] # q[j]
    BY FS_CardinalityType DEF Orders
<1>2. IsFiniteSet(1..n) /\ Cardinality(1..n) = n
    <2>1. 1 \in Int /\ n \in Int /\ n >= 0
        BY <1>1
    <2>2. IsFiniteSet(1..n) /\ Cardinality(1..n) = IF 1 > n THEN 0 ELSE n - 1 + 1
        BY <2>1, FS_Interval
    <2> HIDE DEF n
    <2> QED
        BY <2>1, <2>2
<1>3. q \in Injection(1..n, T)
    BY <1>1 DEF Injection, IsInjective
<1>4. q \in Surjection(1..n, T)
    BY <1>2, <1>3, FS_Injection
<1> QED
    BY <1>4 DEF Surjection

(* The image of its first m indices has m elements.                           *)
Image(q, m) == {q[i] : i \in 1..m}

LEMMA Prefix ==
    ASSUME NEW T, IsFiniteSet(T), NEW q \in Orders(T), NEW m \in 0..Cardinality(T)
    PROVE  IsFiniteSet(Image(q, m)) /\ Cardinality(Image(q, m)) = m
<1> DEFINE n == Cardinality(T)
           P == {q[i] : i \in 1..m}
           f == [i \in 1..m |-> q[i]]
<1>1. n \in Nat /\ q \in [1..n -> T] /\ \A i, j \in 1..n : i # j => q[i] # q[j]
    BY FS_CardinalityType DEF Orders
<1>2. IsFiniteSet(1..m) /\ Cardinality(1..m) = m
    <2>1. 1 \in Int /\ m \in Int /\ m >= 0
        BY <1>1
    <2>2. IsFiniteSet(1..m) /\ Cardinality(1..m) = IF 1 > m THEN 0 ELSE m - 1 + 1
        BY <2>1, FS_Interval
    <2> HIDE DEF n
    <2> QED
        BY <2>1, <2>2
<1>3. \A i \in 1..m : i \in 1..n
    BY <1>1
<1>4. f \in [1..m -> P] /\ \A p \in P : \E i \in 1..m : f[i] = p
    OBVIOUS
<1>5. f \in Surjection(1..m, P)
    BY <1>4 DEF Surjection
<1>6. f \in Injection(1..m, P)
    BY <1>1, <1>3, <1>4 DEF Injection, IsInjective
<1>7. IsFiniteSet(P) /\ Cardinality(P) = m
    <2> HIDE DEF f, P
    <2> QED
        BY <1>2, <1>5, <1>6, FS_Surjection
<1> QED
    BY <1>7 DEF Image

(* A launch gives out what slots there are and queues the others, once each.  *)
LEMMA LaunchSlots ==
    ASSUME Typed, NEW T \in SUBSET Urls, IsFiniteSet(T), Launch(T), config' = config,
           Cardinality(inFlight') <= config.concurrency
    PROVE  Slots' /\ T = Queue' \cup running'
<1> DEFINE n == Cardinality(T)
           c == config.concurrency
<1>1. n \in Nat /\ c \in Nat \ {0}
    BY ConfigTyped, FS_CardinalityType
<1>2. PICK q \in Orders(T) :
         /\ running' = {q[i] : i \in {k \in DOMAIN q : k <= c}}
         /\ waiting' = SubSeq(q, c + 1, n)
    BY DEF Launch
<1>3. q \in [1..n -> T] /\ DOMAIN q = 1..n /\ \A i, j \in 1..n : i # j => q[i] # q[j]
    BY <1>2 DEF Orders
<1>4. T = {q[i] : i \in 1..n}
    <2>1. \A t \in T : \E i \in 1..Cardinality(T) : q[i] = t
        BY ONLY IsFiniteSet(T), q \in Orders(T), OrderIsOnto
    <2> QED
        BY ONLY <1>3, <2>1
<1>5. \A i \in c + 1 .. n : q[i] \in T
    BY <1>1, <1>3
<1>6. /\ waiting' \in Seq(T)
      /\ Len(waiting') = IF c + 1 <= n THEN n - c ELSE 0
      /\ \A i \in 1..Len(waiting') : waiting'[i] = q[c + i]
    <2>1. SubSeq(q, c + 1, n) \in Seq(T)
        BY <1>1, <1>5, SubSeqProperties
    <2>2. /\ Len(SubSeq(q, c + 1, n)) = IF c + 1 <= n THEN n - (c + 1) + 1 ELSE 0
          /\ \A i \in 1..n - (c + 1) + 1 : SubSeq(q, c + 1, n)[i] = q[c + 1 + i - 1]
        BY <1>1, <1>5, SubSeqProperties
    <2>3. n - (c + 1) + 1 = n - c /\ \A i \in 1..n - c : c + 1 + i - 1 = c + i
        BY <1>1
    <2> QED
        <3>1. waiting' = SubSeq(q, c + 1, n)
            BY <1>2
        <3>2. Len(waiting') = IF c + 1 <= n THEN n - c ELSE 0
            BY <2>2, <2>3, <3>1
        <3>3. CASE c + 1 <= n
            BY <2>1, <2>2, <2>3, <3>1, <3>2, <3>3
        <3>4. CASE ~(c + 1 <= n)
            BY <1>1, <2>1, <3>1, <3>2, <3>4
        <3> QED
            BY <3>3, <3>4
<1>7. DOMAIN waiting' = 1..Len(waiting')
    BY <1>6
<1>8. CASE n <= c
    <2>1. running' = Image(q, n)
        BY <1>1, <1>2, <1>3, <1>8 DEF Image
    <2>2. waiting' = <<>> /\ Queue' = {}
        BY <1>1, <1>6, <1>7, <1>8, EmptySeq DEF Queue
    <2>3. n \in 0..n
        BY <1>1
    <2>4. IsFiniteSet(running') /\ Cardinality(running') = n
        <3>1. q \in Orders(T) /\ n \in 0..Cardinality(T)
            BY <1>2, <2>3
        <3> QED
            BY ONLY <3>1, IsFiniteSet(T), Prefix, <2>1
    <2> QED
        BY <1>1, <1>4, <1>8, <2>1, <2>2, <2>4 DEF Slots, Injective, Image
<1>9. CASE n > c
    <2>1. running' = Image(q, c)
        BY <1>1, <1>2, <1>3, <1>9 DEF Image
    <2>2. c \in 0..n
        BY <1>1, <1>9
    <2>3. IsFiniteSet(running') /\ Cardinality(running') = c
        <3>1. q \in Orders(T) /\ c \in 0..Cardinality(T)
            BY <1>2, <2>2
        <3> QED
            BY ONLY <3>1, IsFiniteSet(T), Prefix, <2>1
    <2>4. Queue' = {q[i] : i \in c + 1 .. n}
        <3>1. \A i \in 1..n - c : c + i \in c + 1 .. n
            BY <1>1
        <3>2. \A j \in c + 1 .. n : j - c \in 1..n - c /\ c + (j - c) = j
            BY <1>1
        <3>3. Len(waiting') = n - c
            BY <1>1, <1>6, <1>9
        <3> QED
            BY <1>6, <1>7, <3>1, <3>2, <3>3 DEF Queue
    <2>5. Injective(waiting')
        <3>1. Len(waiting') = n - c
            BY <1>1, <1>6, <1>9
        <3>2. \A i, j \in 1..n - c : i # j => c + i # c + j /\ c + i \in 1..n /\ c + j \in 1..n
            BY <1>1
        <3> QED
            BY <1>3, <1>6, <1>7, <3>1, <3>2 DEF Injective
    <2>6. Queue' \cap running' = {}
        <3>1. \A i \in c + 1 .. n, j \in 1..c : i # j /\ i \in 1..n /\ j \in 1..n
            BY <1>1, <1>9
        <3> QED
            BY <1>3, <2>1, <2>4, <3>1 DEF Image
    <2>7. T = Queue' \cup running'
        <3>1. 1..n = 1..c \cup c + 1 .. n
            BY <1>1, <1>9
        <3> QED
            BY <1>4, <2>1, <2>4, <3>1 DEF Image
    <2> QED
        BY <1>1, <2>3, <2>5, <2>6, <2>7 DEF Slots
<1> QED
    BY <1>1, <1>8, <1>9

-----------------------------------------------------------------------------
(* Steps. *)

(* What a launch needs of the state before it. *)
Idle == waiting = <<>> /\ running = {} /\ inFlight = {}

LEMMA ProbesIdle ==
    IInv /\ Slots /\ (ProbeAssets \/ ProbeExternals) => Idle
<1> SUFFICES ASSUME IInv, Slots, ProbeAssets \/ ProbeExternals PROVE Idle
    OBVIOUS
<1>1. CASE ProbeAssets
    BY <1>1 DEF ProbeAssets, IInv, Probing, Early, Idle
<1>2. CASE ProbeExternals
    <2>1. pc = "assets" /\ running = {}
        BY <1>2 DEF ProbeExternals
    <2>2. inFlight = {}
        BY <2>1 DEF IInv, Probing, Early
    <2>3. Cardinality(running) = 0 /\ config.concurrency \in Nat \ {0}
        BY <2>1, FS_EmptySet, ConfigTyped DEF IInv
    <2> QED
        BY <2>1, <2>2, <2>3 DEF Idle, Slots
<1> QED
    BY <1>1, <1>2

(* The set of a launch, and what the launch makes of it. *)
LEMMA ProbesLaunch ==
    ASSUME IInv, Slots, ProbeAssets \/ ProbeExternals
    PROVE  \E T \in SUBSET Urls : T = Queue' \cup running' /\ Slots'
<1>1. PICK T : T \in {{}, assets \ seen, externals} /\ Launch(T)
    BY DEF ProbeAssets, ProbeExternals
<1>2. T \in SUBSET Urls /\ IsFiniteSet(T)
    <2>1. IsFiniteSet(assets \ seen)
        BY FS_Difference DEF IInv, Finite
    <2> QED
        BY <1>1, <2>1, FS_EmptySet DEF IInv, Finite, Typed, TypeOK, Urls
<1>3. config' = config /\ inFlight' = inFlight
    BY DEF ProbeAssets, ProbeExternals, loopVars
<1>4. Cardinality(inFlight') <= config.concurrency
    BY <1>3 DEF Slots
<1>5. Slots' /\ T = Queue' \cup running'
    BY <1>1, <1>2, <1>3, <1>4, LaunchSlots DEF IInv
<1> QED
    BY <1>2, <1>5

(* A probe that settles hands its slot to the head of the queue. *)
LEMMA Handover ==
    ASSUME IInv, Slots, NEW u \in running, ProbeSettles(u)
    PROVE  /\ Slots'
           /\ UNCHANGED <<config, inFlight>>
           /\ \/ Queue = {} /\ Queue' = {} /\ running' = running \ {u}
              \/ \E w \in Queue : /\ running' = (running \ {u}) \cup {w}
                                  /\ Queue' = Queue \ {w}
<1>1. UNCHANGED <<config, inFlight>>
    BY DEF ProbeSettles, loopVars
<1>2. /\ IsFiniteSet(running \ {u})
      /\ Cardinality(running \ {u}) = Cardinality(running) - 1
      /\ Cardinality(running) \in Nat /\ config.concurrency \in Nat \ {0}
    BY FS_RemoveElement, FS_CardinalityType, ConfigTyped DEF Slots, IInv
<1>3. CASE waiting = <<>>
    <2>1. waiting' = <<>> /\ running' = running \ {u}
        BY <1>3 DEF ProbeSettles
    <2>2. Queue = {} /\ Queue' = {}
        BY <1>3, <2>1 DEF Queue
    <2> QED
        BY <1>1, <1>2, <2>1, <2>2 DEF Slots, Injective
<1>4. CASE waiting # <<>>
    <2> DEFINE w == Head(waiting)
    <2>1. waiting \in Seq(Urls)
        BY DEF IInv, Typed, TypeOK
    <2>2. /\ Len(waiting) \in Nat \ {0} /\ DOMAIN waiting = 1..Len(waiting)
          /\ w = waiting[1]
        BY <1>4, <2>1, EmptySeq
    <2>3. /\ Tail(waiting) \in Seq(Urls) /\ Len(Tail(waiting)) = Len(waiting) - 1
          /\ \A i \in 1..Len(Tail(waiting)) : Tail(waiting)[i] = waiting[i + 1]
        BY <1>4, <2>1, HeadTailProperties
    <2>4. waiting' = Tail(waiting) /\ running' = (running \ {u}) \cup {w}
        BY <1>4 DEF ProbeSettles
    <2>5. w \in Queue /\ w \notin running
        BY <2>2 DEF Queue, Slots
    <2>6. DOMAIN Tail(waiting) = 1..Len(waiting) - 1
        BY <2>3
    <2>7. \A i \in 1..Len(waiting) - 1 : i + 1 \in 1..Len(waiting) /\ i + 1 # 1
        BY <2>2
    <2>8. \A i \in 1..Len(waiting) : i # 1 => i - 1 \in 1..Len(waiting) - 1 /\ (i - 1) + 1 = i
        BY <2>2
    <2>9. Queue' = Queue \ {w}
        <3>1. Queue' \subseteq Queue \ {w}
            BY <2>2, <2>3, <2>4, <2>6, <2>7 DEF Queue, Slots, Injective
        <3>2. ASSUME NEW v \in Queue, v # w PROVE v \in Queue'
            <4>1. PICK i \in 1..Len(waiting) : v = waiting[i]
                BY <2>2 DEF Queue
            <4>2. i - 1 \in 1..Len(waiting) - 1 /\ v = Tail(waiting)[i - 1]
                BY <2>2, <2>3, <2>8, <3>2, <4>1
            <4> QED
                BY <2>4, <2>6, <4>2 DEF Queue
        <3> QED
            BY <3>1, <3>2
    <2>10. IsFiniteSet(running') /\ Cardinality(running') = Cardinality(running)
        <3>1. w \notin running \ {u}
            BY <2>5
        <3>2. /\ IsFiniteSet((running \ {u}) \cup {w})
              /\ Cardinality((running \ {u}) \cup {w}) = Cardinality(running \ {u}) + 1
            BY <1>2, <3>1, FS_AddElement
        <3> QED
            BY <1>2, <2>4, <3>2
    <2>11. Injective(waiting')
        <3>1. \A i, j \in 1..Len(waiting) - 1 : i + 1 = j + 1 => i = j
            BY <2>2
        <3> QED
            BY <2>2, <2>3, <2>4, <2>6, <2>7, <3>1 DEF Slots, Injective
    <2>12. Queue' \cap running' = {}
        BY <2>4, <2>9 DEF Slots
    <2>13. Slots'
        BY <1>1, <1>4, <2>10, <2>11, <2>12 DEF Slots
    <2> QED
        BY <1>1, <2>4, <2>5, <2>9, <2>13
<1> QED
    BY <1>3, <1>4

(* A task takes a slot of the crawl loop, under a URL nobody holds one for.   *)
LEMMA StartSlots ==
    ASSUME IInv, Slots, StartTask
    PROVE  /\ Slots'
           /\ UNCHANGED <<config, waiting, running>>
           /\ waiting = <<>> /\ running = {}
           /\ \E u \in Urls : /\ u \notin {t.url : t \in inFlight}
                              /\ {t.url : t \in inFlight'} = {t.url : t \in inFlight} \cup {u}
<1>1. PICK item \in Shallowest : inFlight' = inFlight \cup {item}
    BY DEF StartTask
<1>2. /\ UNCHANGED <<config, waiting, running>> /\ pc = "fill"
      /\ Cardinality(inFlight) < config.concurrency
    BY DEF StartTask, SlotFree, probeVars
<1>3. item \in frontier /\ item.url \in Urls
    BY <1>1 DEF Shallowest, IInv, Typed, TypeOK, Items
<1>4. item.url \notin {t.url : t \in inFlight}
    BY <1>3 DEF IInv, Kept, NothingDropped, OnePlace, Queued, Flying
<1>5. waiting = <<>> /\ running = {}
    BY <1>2 DEF IInv, Probing, Early
<1>6. Cardinality(inFlight') <= config.concurrency
    <2>1. /\ Cardinality(inFlight') \in {Cardinality(inFlight), Cardinality(inFlight) + 1}
          /\ Cardinality(inFlight) \in Nat /\ config.concurrency \in Nat
        BY <1>1, FS_AddElement, FS_CardinalityType, ConfigTyped DEF IInv, Finite
    <2> QED
        BY <1>2, <2>1
<1>7. Slots'
    BY <1>2, <1>6 DEF Slots, Queue
<1>8. {t.url : t \in inFlight'} = {t.url : t \in inFlight} \cup {item.url}
    BY <1>1
<1> QED
    BY <1>2, <1>3, <1>4, <1>5, <1>7, <1>8

(* A task that settles gives its slot back. *)
LEMMA FetchSlots ==
    ASSUME IInv, Slots, NEW t \in inFlight, Fetch(t)
    PROVE  /\ Slots'
           /\ UNCHANGED <<config, waiting, running>>
           /\ waiting = <<>> /\ running = {}
           /\ t.url \in Urls
           /\ {s.url : s \in inFlight'} = {s.url : s \in inFlight} \ {t.url}
<1>1. /\ pc \in {"race", "settle"} /\ inFlight' = inFlight \ {t}
      /\ UNCHANGED <<config, waiting, running>>
    BY DEF Fetch, FetchCancelled, FetchFailed, FetchMoved, FetchPage, Settles, probeVars
<1>2. waiting = <<>> /\ running = {} /\ t.url \in Urls
    BY <1>1 DEF IInv, Probing, Early, Typed, TypeOK, Items
<1>3. Cardinality(inFlight') <= config.concurrency
    <2>1. Cardinality(inFlight') <= Cardinality(inFlight) /\ IsFiniteSet(inFlight')
        BY <1>1, FS_Subset DEF IInv, Finite
    <2>2. /\ Cardinality(inFlight') \in Nat /\ Cardinality(inFlight) \in Nat
          /\ config.concurrency \in Nat
        BY <2>1, FS_CardinalityType, ConfigTyped DEF IInv, Finite
    <2> QED
        BY <2>1, <2>2 DEF Slots
<1>4. Slots'
    BY <1>1, <1>3 DEF Slots, Queue
<1>5. {s.url : s \in inFlight'} = {s.url : s \in inFlight} \ {t.url}
    BY <1>1 DEF IInv, Kept, Once, OnceEach
<1> QED
    BY <1>1, <1>2, <1>4, <1>5

(* Every other step of the engine leaves the slots alone. *)
SlotsAlone == UNCHANGED <<config, inFlight, waiting, running>>

LEMMA OtherSteps ==
    ASSUME [Next]_vars
    PROVE  \/ SlotsAlone
           \/ StartTask
           \/ ProbeAssets \/ ProbeExternals
           \/ \E t \in inFlight : Fetch(t)
           \/ \E u \in running : ProbeSettles(u)
BY DEF Next, LoopStep, ReadSitemap, TakeOffer, OffersTaken, Cancel, Park, Wake, AllSettled, DrainOne,
       Return, Abort, vars, SlotsAlone, loopVars, probeVars

LEMMA AloneSlots == Slots /\ SlotsAlone => Slots'
BY DEF Slots, SlotsAlone, Queue

LEMMA NextSlots == IInv /\ Slots /\ [Next]_vars => Slots'
<1> SUFFICES ASSUME IInv, Slots, [Next]_vars PROVE Slots'
    OBVIOUS
<1> QED
    BY OtherSteps, AloneSlots, StartSlots, FetchSlots, ProbesLaunch, Handover

LEMMA InitSlots == Init => Slots
<1> SUFFICES ASSUME Init PROVE Slots
    OBVIOUS
<1>1. config.concurrency \in Nat \ {0}
    BY InitTyped, ConfigTyped
<1> QED
    BY <1>1, FS_EmptySet DEF Init, Slots, Injective, Queue

THEOREM SlotsHold == Spec => [](IInv /\ Slots)
<1>1. IInv /\ Slots /\ [Next]_vars => Slots'
    BY NextSlots
<1> QED
    BY Invariance, InitSlots, <1>1, PTL DEF Spec

-----------------------------------------------------------------------------
(* The refinement.  The users that hold a slot are the URLs being fetched and *)
(* the probes running; at most one of the two is not empty.                   *)

LEMMA SameCardinality == \A S : Limiter!Cardinality(S) = Cardinality(S)
BY DEF Limiter!Cardinality, Cardinality

LEMMA HoldingBounded ==
    ASSUME IInv, Slots
    PROVE  Limiter!Bounded(Queue, Holding)
<1>1. /\ IsFiniteSet(inFlight) /\ Cardinality(inFlight) \in Nat
      /\ IsFiniteSet(running) /\ Cardinality(running) \in Nat
      /\ config.concurrency \in Nat \ {0}
    BY FS_CardinalityType, ConfigTyped DEF IInv, Finite, Slots
<1>2. CASE waiting = <<>> /\ running = {}
    <2> DEFINE f == [t \in inFlight |-> t.url]
               H == {t.url : t \in inFlight}
    <2>1. f \in Surjection(inFlight, H)
        BY DEF Surjection
    <2>2. IsFiniteSet(H) /\ Cardinality(H) <= Cardinality(inFlight)
        <3> HIDE DEF f, H
        <3> QED
            BY <1>1, <2>1, FS_Surjection
    <2>3. Cardinality(H) \in Nat
        BY <2>2, FS_CardinalityType
    <2>4. Holding = H /\ Queue = {}
        BY <1>2 DEF Holding, Queue
    <2> QED
        BY <1>1, <2>2, <2>3, <2>4, SameCardinality DEF Limiter!Bounded, Slots
<1>3. CASE ~(waiting = <<>> /\ running = {})
    <2>1. inFlight = {}
        BY <1>3 DEF IInv, Probing, Early
    <2>2. Holding = running
        BY <2>1 DEF Holding
    <2>3. Queue # {} => waiting # <<>>
        BY DEF Queue
    <2> QED
        BY <2>2, <2>3, SameCardinality DEF Limiter!Bounded, Slots
<1> QED
    BY <1>2, <1>3

LEMMA InitLimiter == Init => Limiter!SemInit
<1> SUFFICES ASSUME Init PROVE Limiter!SemInit
    OBVIOUS
<1>1. config.concurrency \in Nat \ {0}
    BY InitTyped, ConfigTyped
<1> QED
    BY <1>1 DEF Init, Limiter!SemInit

LEMMA StepLimiter ==
    ASSUME IInv, Slots, IInv', Slots', [Next]_vars
    PROVE  [Limiter!SemNext]_(Limiter!semVars)
<1>1. CASE SlotsAlone
    BY <1>1 DEF SlotsAlone, Limiter!semVars
<1>2. CASE StartTask
    <2>1. PICK u \in Urls : /\ u \notin {t.url : t \in inFlight}
                            /\ {t.url : t \in inFlight'} = {t.url : t \in inFlight} \cup {u}
        BY <1>2, StartSlots
    <2>2. UNCHANGED <<config, waiting, running>> /\ Queue = {} /\ running = {}
        BY <1>2, StartSlots DEF Queue
    <2>3. u \notin Queue \cup Holding /\ Holding' = Holding \cup {u} /\ Queue' = {}
        BY <2>1, <2>2 DEF Holding, Queue
    <2>4. Limiter!Bounded(Queue, Holding)'
        BY HoldingBounded, PTL
    <2>5. Limiter!Join({u})
        BY <2>2, <2>3, <2>4 DEF Limiter!Join, Limiter!Bounded, Queue, Holding
    <2> QED
        BY <2>1, <2>5 DEF Limiter!SemNext
<1>3. CASE ProbeAssets \/ ProbeExternals
    <2>1. PICK T \in SUBSET Urls : T = Queue' \cup running'
        BY <1>3, ProbesLaunch
    <2>2. Idle /\ UNCHANGED <<config, inFlight>>
        BY <1>3, ProbesIdle DEF ProbeAssets, ProbeExternals, loopVars
    <2>3. Queue = {} /\ Holding = {} /\ Holding' = running' /\ Queue' \cap running' = {}
        BY <2>2 DEF Idle, Queue, Holding, Slots
    <2>4. CASE T = {}
        BY <2>1, <2>2, <2>3, <2>4 DEF Limiter!semVars, Queue, Holding
    <2>5. CASE T # {}
        <3>1. Limiter!Bounded(Queue, Holding)'
            BY HoldingBounded, PTL
        <3>2. Queue' = T \ running' /\ running' \in SUBSET T
            BY <2>1, <2>3
        <3>3. Limiter!Join(T)
            BY <2>2, <2>3, <3>1, <3>2 DEF Limiter!Join, Limiter!Bounded, Queue, Holding
        <3> QED
            BY <2>5, <3>3 DEF Limiter!SemNext
    <2> QED
        BY <2>4, <2>5
<1>4. ASSUME NEW t \in inFlight, Fetch(t) PROVE Limiter!SemNext
    <2>1. /\ UNCHANGED <<config, waiting, running>> /\ waiting = <<>> /\ running = {}
          /\ t.url \in Urls
          /\ {s.url : s \in inFlight'} = {s.url : s \in inFlight} \ {t.url}
        BY <1>4, FetchSlots
    <2>2. /\ t.url \in Holding /\ Queue = {} /\ Queue' = {}
          /\ Holding' = Holding \ {t.url}
        BY <2>1 DEF Holding, Queue
    <2>3. Limiter!Leave(t.url)
        BY <2>1, <2>2 DEF Limiter!Leave, Queue, Holding
    <2> QED
        BY <2>1, <2>3 DEF Limiter!SemNext
<1>5. ASSUME NEW u \in running, ProbeSettles(u) PROVE Limiter!SemNext
    <2>1. /\ UNCHANGED <<config, inFlight>>
          /\ \/ Queue = {} /\ Queue' = {} /\ running' = running \ {u}
             \/ \E w \in Queue : /\ running' = (running \ {u}) \cup {w}
                                 /\ Queue' = Queue \ {w}
        BY <1>5, Handover
    <2>2. inFlight = {} /\ u \in Urls
        BY <1>5 DEF IInv, Probing, Early, Typed, TypeOK
    <2>3. u \in Holding /\ Holding = running /\ Holding' = running'
        BY <2>1, <2>2 DEF Holding
    <2>4. Limiter!Leave(u)
        BY <2>1, <2>3 DEF Limiter!Leave, Queue, Holding
    <2> QED
        BY <2>2, <2>4 DEF Limiter!SemNext
<1> QED
    BY <1>1, <1>2, <1>3, <1>4, <1>5, OtherSteps

(* The slots of the crawl loop and of the probes are a counting semaphore of  *)
(* `concurrency` permits: no slot is given twice, none stays free while a     *)
(* probe waits, and a launch gives out all it can.                            *)
THEOREM EngineImplementsSemaphore == Spec => LimiterIsSemaphore
<1>1. Init => Limiter!SemInit
    BY InitLimiter
<1>2. IInv /\ Slots /\ IInv' /\ Slots' /\ [Next]_vars => [Limiter!SemNext]_(Limiter!semVars)
    BY StepLimiter
<1> QED
    BY <1>1, <1>2, SlotsHold, PTL DEF Spec, LimiterIsSemaphore, Limiter!SemSpec
-----------------------------------------------------------------------------
(* Links.  A link of a row waits in the current stretch, one click below the  *)
(* row, or its target was accepted or skipped.                                *)

WaitingLink(e) ==
    \E o \in offers : /\ o.via = "link" /\ o.url = e[2]
                      /\ \A r \in rows : r.url = e[1] => o.depth = r.depth + 1

Accounted(e) ==
    /\ e[2] \in seen \/ Skipped(e[2])
    /\ skips[e[2]] = "max-depth" /\ e[2] \in Pages =>
          \A r \in rows : r.url = e[1] => r.depth >= config.maxDepth

NoOffers   == pc \notin {"seed", "links"} => offers = {}
FilterWins == \A u \in Unmatched : skips[u] # "max-depth"

Linked ==
    /\ NoOffers
    /\ FilterWins
    /\ \A e \in edges : Rowed(e[1]) /\ (WaitingLink(e) \/ Accounted(e))

(* How the admission may change: URLs are accepted, and a skip is recorded    *)
(* for one that has none or was accepted.                                     *)
Admits ==
    /\ seen \subseteq seen'
    /\ \A u \in Urls : skips'[u] = skips[u] \/ u \in seen' \/ (u \notin seen /\ ~Skipped(u))

(* What was accounted for stays so.                                           *)
LEMMA StaysAccounted ==
    ASSUME Typed, Reasoned', Admits, UNCHANGED config, NEW e \in edges, Accounted(e),
           \A r \in rows' : r.url = e[1] => r \in rows
    PROVE  Accounted(e)'
<1>1. e[2] \in Urls
    BY DEF Typed, TypeOK
<1>2. e[2] \in seen' => skips'[e[2]] # "max-depth"
    BY DEF Reasoned
<1>3. CASE e[2] \in seen'
    BY <1>2, <1>3 DEF Accounted
<1>4. CASE e[2] \notin seen'
    <2>1. Skipped(e[2]) /\ skips'[e[2]] = skips[e[2]]
        BY <1>1, <1>4 DEF Accounted, Admits
    <2> QED
        BY <2>1 DEF Accounted, Skipped
<1> QED
    BY <1>3, <1>4

(* What enqueue does to its own URL: a page is only skipped for its depth     *)
(* when it is offered too deep, now and before.                               *)
LEMMA EnqueueAccounts ==
    ASSUME Typed, Reasoned, FilterWins, NEW u \in Urls, NEW d \in Nat, NEW isSeed \in BOOLEAN,
           isSeed => d = 0, Enqueue(u, d, isSeed)
    PROVE  /\ Admits /\ FilterWins'
           /\ u \in seen' \/ skips'[u] # "none"
           /\ u \in Pages /\ skips'[u] = "max-depth" => d > config.maxDepth
<1>1. Unmatched \subseteq Pages /\ Pages \subseteq Urls /\ skips \in [Urls -> Reasons \cup {"none"}]
      /\ config.maxDepth \in Nat
    BY SiteAssumption, ConfigTyped DEF Typed, TypeOK, Urls, Own
<1>2. \A v \in seen : skips[v] # "max-depth"
    BY DEF Reasoned
<1>3. CASE u \in seen /\ UNCHANGED admitVars
    BY <1>2, <1>3 DEF admitVars, Admits, FilterWins
<1>4. CASE u \notin seen /\ ~Accepts(u, d, isSeed) /\ RecordSkip(u, Verdict(u, d, isSeed))
           /\ UNCHANGED seen
    <2>1. Verdict(u, d, isSeed) # "ok" /\ Verdict(u, d, isSeed) # "none"
        BY <1>4, VerdictReasons DEF Accepts
    <2>2. u \in Unmatched => Verdict(u, d, isSeed) # "max-depth"
        BY <1>1 DEF Verdict
    <2>3. u \in Pages \ Unmatched => d > config.maxDepth
        <3>1. u \in Pages => u \notin Externals /\ u \notin Assets /\ u \notin Refused /\ u \notin Disallowed
            BY SiteAssumption
        <3> QED
            BY <2>1, <3>1 DEF Verdict
    <2>4. /\ \A v \in Urls : v # u => skips'[v] = skips[v]
          /\ Skipped(u) => skips'[u] = skips[u]
          /\ ~Skipped(u) => skips'[u] = Verdict(u, d, isSeed)
        BY <1>1, <1>4 DEF RecordSkip
    <2>5. Admits
        BY <1>4, <2>4 DEF Admits
    <2>6. FilterWins'
        BY <1>1, <2>2, <2>4 DEF FilterWins
    <2>7. skips'[u] # "none"
        BY <2>1, <2>4 DEF Skipped
    <2>8. u \in Pages /\ skips'[u] = "max-depth" => u \notin Unmatched
        BY <2>6 DEF FilterWins
    <2> QED
        BY <2>3, <2>5, <2>6, <2>7, <2>8
<1>5. CASE seen' = seen \cup {u} /\ RetractSkip(u)
    <2>1. \A v \in Urls : skips'[v] = IF v = u THEN "none" ELSE skips[v]
        BY <1>1, <1>5 DEF RetractSkip
    <2> QED
        BY <1>1, <1>5, <2>1 DEF Admits, FilterWins
<1> QED
    BY <1>3, <1>4, <1>5 DEF Enqueue

(* A step that offers nothing, reads no page and skips what was accepted.     *)
LEMMA QuietLinked ==
    ASSUME Typed, Linked, Reasoned', Admits, UNCHANGED <<config, offers, rows, edges>>,
           \A u \in Unmatched : skips'[u] = skips[u] \/ skips'[u] # "max-depth",
           pc' \notin {"seed", "links"} => pc \notin {"seed", "links"} \/ offers = {}
    PROVE  Linked'
<1>1. NoOffers' /\ FilterWins'
    BY DEF Linked, NoOffers, FilterWins
<1>2. ASSUME NEW e \in edges PROVE Rowed(e[1])' /\ (WaitingLink(e)' \/ Accounted(e)')
    <2>1. Rowed(e[1])' /\ (WaitingLink(e) => WaitingLink(e)')
        BY <1>2 DEF Linked, Rowed, WaitingLink
    <2>2. Accounted(e) => Accounted(e)'
        BY StaysAccounted
    <2> QED
        BY <2>1, <2>2 DEF Linked
<1> QED
    BY <1>1, <1>2 DEF Linked

LEMMA TakeOfferLinked ==
    ASSUME Typed, Linked, Reasoned, Reasoned', NEW o \in offers, TakeOffer(o)
    PROVE  Linked'
<1>1. /\ o.url \in Urls /\ o.depth \in Nat /\ offers' = offers \ {o} /\ pc \in {"seed", "links"}
      /\ UNCHANGED <<config, pc, rows, edges>>
    BY DEF Typed, TypeOK, Offers, TakeOffer, loopVars
<1>2. /\ Admits /\ FilterWins'
      /\ o.via = "link" =>
            /\ o.url \in seen' \/ skips'[o.url] # "none"
            /\ o.url \in Pages /\ skips'[o.url] = "max-depth" => o.depth > config.maxDepth
    <2>1. CASE Enqueue(o.url, o.depth, FALSE)
        <3>1. FALSE \in BOOLEAN /\ FilterWins
            BY DEF Linked
        <3> QED
            BY <1>1, <2>1, <3>1, EnqueueAccounts
    <2>2. ASSUME NEW why \in {"max-pages", "off-site"}, o.url \notin seen, RecordSkip(o.url, why),
                 UNCHANGED seen, o.via = "link" => o.url \notin Pages
          PROVE  Admits /\ FilterWins' /\ (o.via = "link" => skips'[o.url] # "none")
        <3>1. /\ \A v \in Urls : v # o.url => skips'[v] = skips[v]
              /\ Skipped(o.url) => skips'[o.url] = skips[o.url]
              /\ ~Skipped(o.url) => skips'[o.url] = why
            BY <1>1, <2>2 DEF RecordSkip, Typed, TypeOK
        <3>2. Unmatched \subseteq Urls
            BY SiteAssumption DEF Urls, Own
        <3> QED
            BY <2>2, <3>1, <3>2 DEF Admits, FilterWins, Linked, Skipped
    <2>3. CASE UNCHANGED <<seen, skips>> /\ o.via # "link"
        BY <2>3 DEF Admits, FilterWins, Linked
    <2>4. CASE SeedFromSitemap(o)
        BY <2>1, <2>2, <2>3, <2>4 DEF SeedFromSitemap
    <2>5. CASE FollowLink(o)
        <3>1. CASE o.url \in Externals
            <4>1. o.url \notin seen /\ o.url \notin Pages /\ o.url \notin Own
                BY <3>1, SiteAssumption DEF Typed, TypeOK, Own
            <4> QED
                BY <2>2, <2>5, <4>1 DEF FollowLink
        <3>2. CASE o.url \notin Externals
            BY <2>1, <2>5, <3>2 DEF FollowLink
        <3> QED
            BY <3>1, <3>2
    <2>6. CASE SeeImage(o)
        BY <2>3, <2>6 DEF SeeImage
    <2> QED
        BY <2>4, <2>5, <2>6 DEF TakeOffer
<1>3. NoOffers'
    <2>1. pc' \in {"seed", "links"}
        BY <1>1
    <2> QED
        BY <2>1 DEF NoOffers
<1>4. ASSUME NEW e \in edges PROVE Rowed(e[1])' /\ (WaitingLink(e)' \/ Accounted(e)')
    <2>1. Rowed(e[1])'
        BY <1>1, <1>4 DEF Linked, Rowed
    <2> SUFFICES WaitingLink(e)' \/ Accounted(e)'
        BY <2>1
    <2>2. CASE Accounted(e)
        <3>1. UNCHANGED config /\ Admits /\ \A r \in rows' : r.url = e[1] => r \in rows
            BY <1>1, <1>2
        <3> QED
            BY <2>2, <3>1, StaysAccounted
    <2>3. CASE WaitingLink(e)
        <3>1. PICK p \in offers : /\ p.via = "link" /\ p.url = e[2]
                                  /\ \A r \in rows : r.url = e[1] => p.depth = r.depth + 1
            BY <2>3 DEF WaitingLink
        <3>2. CASE p # o
            BY <1>1, <3>1, <3>2 DEF WaitingLink
        <3>3. CASE p = o
            <4>1. \A r \in rows : r.depth \in Nat
                BY DEF Typed, TypeOK, Rows
            <4>2. config.maxDepth \in Nat
                BY ConfigTyped
            <4>3. o.depth > config.maxDepth => \A r \in rows : r.url = e[1] => r.depth >= config.maxDepth
                BY <3>1, <3>3, <4>1, <4>2
            <4> QED
                BY <1>1, <1>2, <3>1, <3>3, <4>3 DEF Accounted, Skipped
        <3> QED
            BY <3>2, <3>3
    <2> QED
        BY <1>4, <2>2, <2>3 DEF Linked
<1> QED
    BY <1>1, <1>2, <1>3, <1>4 DEF Linked

LEMMA FetchLinked ==
    ASSUME Typed, Kept, Linked, Reasoned', NEW t \in inFlight, Fetch(t)
    PROVE  Linked'
<1>1. /\ t.url \in Urls /\ t.url \in seen /\ t.depth \in Nat /\ ~Rowed(t.url)
      /\ \A e \in edges : e[1] \in Urls /\ e[1] # t.url
    <2>1. t.url \in Urls /\ t.url \in seen /\ t.depth \in Nat
        BY DEF Typed, TypeOK, Items, Accepted, Urls, Own
    <2>2. ~Rowed(t.url)
        BY <2>1 DEF Flying, Kept, NothingDropped, OnePlace
    <2>3. \A e \in edges : e[1] \in Urls
        BY DEF Typed, TypeOK
    <2> QED
        BY <2>1, <2>2, <2>3 DEF Linked
<1>2. /\ pc \in {"race", "settle"} /\ offers = {} /\ UNCHANGED <<config, seen>>
    BY DEF Fetch, FetchCancelled, FetchFailed, FetchMoved, FetchPage, Settles, admitVars, Linked,
           NoOffers
<1>3. \A e \in edges : Rowed(e[1]) /\ Accounted(e)
    BY <1>2 DEF Linked, WaitingLink
<1>4. Admits /\ FilterWins'
    <2>1. CASE FetchCancelled(t)
        <3>1. RecordSkip(t.url, "cancelled")
            BY <2>1 DEF FetchCancelled
        <3>2. \A u \in Urls : skips'[u] = skips[u] \/ (u = t.url /\ skips'[u] = "cancelled")
            BY <1>1, <3>1 DEF RecordSkip, Typed, TypeOK
        <3>3. Unmatched \subseteq Urls
            BY SiteAssumption DEF Urls, Own
        <3> QED
            BY <1>1, <1>2, <3>2, <3>3 DEF Admits, FilterWins, Linked
    <2>2. CASE UNCHANGED skips
        BY <1>2, <2>2 DEF Admits, FilterWins, Linked
    <2> QED
        BY <2>1, <2>2 DEF Fetch, FetchFailed, FetchMoved, FetchPage, admitVars
<1>5. /\ rows \subseteq rows'
      /\ \A r \in rows' : r \notin rows => r.url = t.url /\ r.depth = t.depth
    BY DEF Fetch, FetchCancelled, FetchFailed, FetchMoved, FetchPage, Row
<1>6. \A e \in edges : Rowed(e[1])' /\ Accounted(e)'
    <2> SUFFICES ASSUME NEW e \in edges PROVE Rowed(e[1])' /\ Accounted(e)'
        OBVIOUS
    <2>1. Rowed(e[1])'
        BY <1>3, <1>5 DEF Rowed
    <2>2. \A r \in rows' : r.url = e[1] => r \in rows
        BY <1>1, <1>5
    <2> QED
        BY <1>2, <1>3, <1>4, <2>1, <2>2, StaysAccounted
<1>7. CASE FetchCancelled(t) \/ FetchFailed(t) \/ FetchMoved(t)
    <2>1. UNCHANGED edges
        BY <1>7 DEF FetchCancelled, FetchFailed, FetchMoved
    <2>2. NoOffers'
        BY <1>2, <1>7 DEF FetchCancelled, FetchFailed, FetchMoved, NoOffers
    <2> QED
        BY <1>4, <1>6, <2>1, <2>2 DEF Linked
<1>8. CASE FetchPage(t)
    <2>1. PICK links \in LinkSets[t.url], images \in ImageSets[t.url] :
             /\ offers' = {Offer(u, t.depth + 1, "link") : u \in links}
                          \cup {Offer(u, t.depth + 1, "image") : u \in images}
             /\ edges' = edges \cup {<<t.url, u>> : u \in links}
        BY <1>8 DEF FetchPage
    <2>2. pc' = "links" /\ Row(t, "page") \in rows' /\ Row(t, "page").url = t.url
        BY <1>8 DEF FetchPage, Row
    <2>3. ASSUME NEW u \in links
          PROVE  Rowed(<<t.url, u>>[1])' /\ WaitingLink(<<t.url, u>>)'
        <3> DEFINE o == Offer(u, t.depth + 1, "link")
        <3>1. o \in offers' /\ o.via = "link" /\ o.url = u /\ o.depth = t.depth + 1
            BY <2>1 DEF Offer
        <3>2. \A r \in rows' : r.url = t.url => r.depth = t.depth
            BY <1>1, <1>5 DEF Rowed
        <3> HIDE DEF o
        <3> QED
            BY <2>2, <3>1, <3>2 DEF Rowed, WaitingLink
    <2>4. NoOffers'
        BY <2>2 DEF NoOffers
    <2>5. ASSUME NEW e \in edges' PROVE Rowed(e[1])' /\ (WaitingLink(e)' \/ Accounted(e)')
        <3>1. CASE e \in edges
            BY <1>6, <3>1
        <3>2. CASE e \notin edges
            <4>1. PICK u \in links : e = <<t.url, u>>
                BY <2>1, <3>2
            <4> QED
                BY <2>3, <4>1
        <3> QED
            BY <3>1, <3>2
    <2> QED
        BY <1>4, <2>4, <2>5 DEF Linked
<1> QED
    BY <1>7, <1>8 DEF Fetch

LEMMA NextLinked ==
    Typed /\ Kept /\ Linked /\ Honest /\ Honest' /\ [Next]_vars => Linked'
<1> SUFFICES ASSUME Typed, Kept, Linked, Reasoned, Honest, Reasoned', [Next]_vars PROVE Linked'
    BY DEF Honest
<1>1. CASE ReadSitemap
    <2>1. pc = "sitemap" /\ pc' = "seed" /\ UNCHANGED <<config, rows, edges>>
          /\ Enqueue(Home, 0, TRUE)
        BY <1>1 DEF ReadSitemap, loopVars
    <2>2. Home \in Urls /\ 0 \in Nat /\ TRUE \in BOOLEAN /\ FilterWins /\ offers = {}
        BY <2>1, SiteAssumption DEF Urls, Own, Linked, NoOffers
    <2>3. Admits /\ FilterWins'
        BY <2>1, <2>2, EnqueueAccounts
    <2>4. ASSUME NEW e \in edges PROVE Rowed(e[1])' /\ Accounted(e)'
        <3>1. Rowed(e[1]) /\ Accounted(e)
            BY <2>2 DEF Linked, WaitingLink
        <3>2. \A r \in rows' : r.url = e[1] => r \in rows
            BY <2>1
        <3> QED
            BY <2>1, <2>3, <3>1, <3>2, StaysAccounted DEF Rowed
    <2>5. NoOffers'
        BY <2>1 DEF NoOffers
    <2> QED
        BY <2>1, <2>3, <2>4, <2>5 DEF Linked
<1>2. CASE \E o \in offers : TakeOffer(o)
    BY <1>2, TakeOfferLinked
<1>3. CASE \E t \in inFlight : Fetch(t)
    BY <1>3, FetchLinked
<1>4. CASE DrainOne
    <2>1. PICK item \in Shallowest :
             RecordSkip(item.url, IF cancelled THEN "cancelled" ELSE "max-pages")
        BY <1>4 DEF DrainOne
    <2>2. item.url \in Urls /\ item.url \in seen /\ UNCHANGED <<config, pc, offers, rows, edges, seen>>
        BY <1>4 DEF Shallowest, DrainOne, Typed, TypeOK, Items, Accepted, loopVars
    <2>3. \A u \in Urls : skips'[u] = skips[u] \/ (u = item.url /\ skips'[u] # "max-depth")
        BY <2>1, <2>2 DEF RecordSkip, Typed, TypeOK
    <2>4. Admits /\ \A u \in Unmatched : skips'[u] = skips[u] \/ skips'[u] # "max-depth"
        BY <2>2, <2>3, SiteAssumption DEF Admits, Urls, Own
    <2> QED
        BY <2>2, <2>4, QuietLinked
<1>5. CASE \/ OffersTaken \/ Cancel \/ StartTask \/ Park \/ Wake \/ AllSettled \/ ProbeAssets
           \/ ProbeExternals \/ Return \/ (\E u \in running : ProbeSettles(u)) \/ Abort
           \/ UNCHANGED vars
    <2>1. /\ UNCHANGED <<config, offers, rows, edges, seen, skips>>
          /\ pc' \notin {"seed", "links"} => pc \notin {"seed", "links"} \/ offers = {}
        BY <1>5 DEF OffersTaken, Cancel, StartTask, Park, Wake, AllSettled, ProbeAssets,
                    ProbeExternals, Return, ProbeSettles, Abort, vars, loopVars, admitVars
    <2>2. Admits
        BY <2>1 DEF Admits
    <2> QED
        BY <2>1, <2>2, QuietLinked
<1> QED
    BY <1>1, <1>2, <1>3, <1>4, <1>5 DEF Next, LoopStep

LEMMA InitLinked == Init => Linked
<1> SUFFICES ASSUME Init PROVE Linked
    OBVIOUS
<1>1. Unmatched \subseteq Urls
    BY SiteAssumption DEF Urls, Own
<1> QED
    BY <1>1 DEF Init, Linked, NoOffers, FilterWins

(* A link of a crawled page is never lost: its target is accepted or has a    *)
(* skip, or is still to be offered; and a page is refused as too deep only if *)
(* every page that links to it is as deep as config.maxDepth (enqueue).       *)
THEOREM LinksAreAccounted == Spec => []LinksAccounted
<1>1. IInv /\ Honest /\ Linked /\ Honest' /\ [Next]_vars => Linked'
    BY NextLinked DEF IInv
<1>2. Linked => LinksAccounted
    BY DEF Linked, WaitingLink, Accounted, LinksAccounted
<1> QED
    BY InitLinked, Invariance, HonestHolds, <1>1, <1>2, PTL DEF Spec
=============================================================================

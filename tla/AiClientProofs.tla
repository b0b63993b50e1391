---------------------------- MODULE AiClientProofs ----------------------------
(* Model calls and their budget, for any sites, budgets, prices and number of *)
(* callers, and the routing of a call for every configuration.                *)
EXTENDS AiClient, FiniteSetTheorems, TLAPS

-----------------------------------------------------------------------------
(* Routing *)

(* First finds the least of a few positions.                                  *)
LEMMA FirstFound ==
    ASSUME NEW hits \in SUBSET (1..4), hits # {}
    PROVE  First(hits) \in hits /\ \A j \in hits : First(hits) <= j
<1>1. \E i \in hits : \A j \in hits : i <= j
    <2>1. CASE 1 \in hits
        BY <2>1
    <2>2. CASE 1 \notin hits /\ 2 \in hits
        BY <2>2
    <2>3. CASE 1 \notin hits /\ 2 \notin hits /\ 3 \in hits
        BY <2>3
    <2>4. CASE 1 \notin hits /\ 2 \notin hits /\ 3 \notin hits
        <3>1. \A j \in hits : j = 4
            BY <2>4
        <3>2. 4 \in hits
            BY <3>1
        <3> QED
            BY <3>1, <3>2
    <2> QED
        BY <2>1, <2>2, <2>3, <2>4
<1>2. First(hits) = CHOOSE i \in hits : \A j \in hits : i <= j
    BY DEF First
<1> QED
    BY <1>1, <1>2

LEMMA FirstNone == First({}) = 0
BY DEF First

(* A provider without a key or without a model for the role is not found, and *)
(* one is found if there is one.                                              *)
Able(s, role) == {p \in s.keys : DefaultModel(p, role) # NoModel}

LEMMA FoundIsAble ==
    ASSUME NEW s \in SetupRecords, NEW role \in Roles
    PROVE  IF Able(s, role) = {} THEN FirstConfigured(s, role) = None
           ELSE FirstConfigured(s, role) \in Able(s, role)
<1> DEFINE able == Able(s, role)
           spots == {k \in DOMAIN ProviderOrder : ProviderOrder[k] \in able}
           i == First(spots)
<1>1. able \subseteq Providers
    BY DEF Able, SetupRecords
<1>2. DOMAIN ProviderOrder = 1..3 /\ ProviderOrder[1] = "anthropic"
      /\ ProviderOrder[2] = "openai" /\ ProviderOrder[3] = "gemini"
    BY DEF ProviderOrder
<1>3. spots \in SUBSET (1..4)
    BY <1>2
<1>4. FirstConfigured(s, role) =
          IF s.provider[4] \in able THEN s.provider[4] ELSE IF i = 0 THEN None ELSE ProviderOrder[i]
    BY DEF FirstConfigured, Able
<1>5. CASE able = {}
    <2>1. spots = {} /\ i = 0
        BY <1>5, FirstNone
    <2> QED
        BY <1>4, <1>5, <2>1
<1>6. CASE able # {}
    <2>1. spots # {}
        BY <1>1, <1>2, <1>6 DEF Providers
    <2>2. i \in spots
        BY <1>3, <2>1, FirstFound
    <2>3. i # 0 /\ ProviderOrder[i] \in able
        BY <1>2, <2>2
    <2> HIDE DEF i
    <2> QED
        BY <1>4, <1>6, <2>3
<1> QED
    BY <1>5, <1>6

LEMMA Defaults ==
    /\ \A p \in Providers : DefaultModel(p, "chat") # NoModel
    /\ \A p \in Providers, role \in Roles :
          /\ DefaultModel(p, role) \in Models
          /\ DefaultModel(p, role) # NoModel => DefaultModel(p, role).owner = p
    /\ None \notin Providers /\ NoModel \in Models
BY DEF DefaultModel, NoModel, Models, Providers, Roles, None

(* The provider before the model is looked at.                                *)
LEMMA PreferredFits ==
    ASSUME NEW s \in SetupRecords
    PROVE  /\ Preferred(s) \in s.keys \cup {None}
           /\ s.provider[1] = None /\ s.keys # {} => Preferred(s) # None
           /\ s.provider[1] \in Providers => Preferred(s) \in {None, s.provider[1]}
<1> DEFINE hits == {k \in 1..4 : s.provider[k] \in Providers}
           i == PickProvider(s)
<1>1. s.keys \subseteq Providers /\ "chat" \in Roles
    BY DEF SetupRecords, Roles
<1>2. i = IF hits = {} THEN 0 ELSE i
    BY FirstNone DEF PickProvider
<1>3. hits # {} => i \in hits /\ \A j \in hits : i <= j
    <2>1. hits \in SUBSET (1..4)
        OBVIOUS
    <2> QED
        BY <2>1, FirstFound DEF PickProvider
<1>4. s.provider[1] \in Providers => i = 1
    <2> HIDE DEF i
    <2> QED
        BY <1>3
<1>5. s.provider[1] \notin Providers => i # 1
    <2> HIDE DEF i
    <2>1. i \in hits => i # 1 \/ s.provider[1] \in Providers
        OBVIOUS
    <2> QED
        BY <1>2, <1>3, <2>1
<1>6. FirstConfigured(s, "chat") \in s.keys \cup {None}
      /\ (s.keys # {} => FirstConfigured(s, "chat") # None)
    <2>1. Able(s, "chat") = s.keys
        BY <1>1, Defaults DEF Able
    <2> QED
        BY <1>1, <2>1, FoundIsAble, Defaults
<1>7. Preferred(s) = CASE i > 0 /\ s.provider[i] \in s.keys -> s.provider[i]
                       [] i = 1 /\ s.provider[1] \notin s.keys -> None
                       [] OTHER -> FirstConfigured(s, "chat")
    BY DEF Preferred
<1>8. i \in 0..4
    <2> HIDE DEF i
    <2> QED
        BY <1>2, <1>3
<1> HIDE DEF i
<1>9. CASE i > 0 /\ s.provider[i] \in s.keys
    <2>1. Preferred(s) = s.provider[i]
        BY <1>7, <1>8, <1>9
    <2> QED
        BY <1>1, <1>4, <1>9, <2>1, Defaults
<1>10. CASE ~(i > 0 /\ s.provider[i] \in s.keys) /\ i = 1
    <2>1. Preferred(s) = None
        BY <1>7, <1>10
    <2>2. s.provider[1] # None
        BY <1>5, <1>10, Defaults
    <2> QED
        BY <2>1, <2>2
<1>11. CASE ~(i > 0 /\ s.provider[i] \in s.keys) /\ i # 1
    <2>1. Preferred(s) = FirstConfigured(s, "chat")
        BY <1>7, <1>11
    <2> QED
        BY <1>4, <1>6, <1>11, <2>1
<1> QED
    BY <1>9, <1>10, <1>11

(* What RouteFits and KeySuffices say, of every configuration.                *)
LEMMA RoutesFit ==
    ASSUME NEW s \in SetupRecords
    PROVE  /\ Route(s) \in RouteRecords
           /\ Route(s) # NoRoute =>
                 /\ Route(s).provider \in s.keys
                 /\ Route(s).model # NoModel
                 /\ Route(s).model.owner \in {Route(s).provider, None}
                 /\ s.role = "chat" => Route(s).pinned \in {None, Route(s).provider}
           /\ Able(s, s.role) # {} /\ s.provider[1] = None => Route(s) # NoRoute
<1> DEFINE i      == PickModel(s)
           picked == IF i = 0 THEN NoModel ELSE s.model[i]
           q      == Rerouted(s, picked)
           p      == Capable(s, q)
           pinned == IF s.provider[1] \in Providers THEN s.provider[1] ELSE None
           model  == IF Fits(picked, p) THEN picked ELSE DefaultModel(p, s.role)
<1>1. s.keys \subseteq Providers /\ s.role \in Roles /\ s.model \in [1..3 -> Models]
    BY DEF SetupRecords
<1>2. picked \in Models
    <2> DEFINE hits == {k \in 1..3 : s.model[k] # NoModel}
    <2>1. i = First(hits) /\ hits \in SUBSET (1..4)
        BY DEF PickModel
    <2>2. CASE hits = {}
        BY <2>1, <2>2, FirstNone, Defaults
    <2>3. CASE hits # {}
        <3>1. i \in hits
            BY <2>1, <2>3, FirstFound
        <3> HIDE DEF i
        <3> QED
            BY <1>1, <3>1, Defaults
    <2> QED
        BY <2>2, <2>3
<1>3. Route(s) = IF p = None THEN NoRoute ELSE [provider |-> p, model |-> model, pinned |-> pinned]
    BY DEF Route
<1> HIDE DEF picked
<1>4. /\ q \in s.keys \cup {None}
      /\ s.provider[1] = None /\ s.keys # {} => q # None
      /\ s.provider[1] \in Providers => q \in {None, s.provider[1]}
    BY <1>1, PreferredFits, Defaults DEF Rerouted
<1> HIDE DEF q
<1>5. /\ p \in s.keys \cup {None}
      /\ p # None => DefaultModel(p, s.role) # NoModel
      /\ s.role = "chat" => p = q
      /\ Able(s, s.role) # {} /\ q # None => p # None
    <2>1. CASE q # None /\ DefaultModel(q, s.role) = NoModel
        <3>1. p = FirstConfigured(s, s.role)
            BY <2>1 DEF Capable
        <3>2. s.role # "chat"
            BY <1>1, <1>4, <2>1, Defaults
        <3>3. IF Able(s, s.role) = {} THEN p = None ELSE p \in Able(s, s.role)
            BY <1>1, <3>1, FoundIsAble
        <3> HIDE DEF p
        <3> QED
            BY <1>1, <3>2, <3>3, Defaults DEF Able
    <2>2. CASE ~(q # None /\ DefaultModel(q, s.role) = NoModel)
        <3>1. p = q
            BY <2>2 DEF Capable
        <3> QED
            BY <1>4, <2>2, <3>1
    <2> QED
        BY <2>1, <2>2
<1> HIDE DEF p
<1>6. p # None =>
          /\ model \in Models /\ model # NoModel /\ model.owner \in {p, None}
          /\ pinned \in Providers \cup {None}
          /\ s.role = "chat" => pinned \in {None, p}
    <2> SUFFICES ASSUME p # None
                 PROVE  /\ model \in Models /\ model # NoModel /\ model.owner \in {p, None}
                        /\ pinned \in Providers \cup {None}
                        /\ s.role = "chat" => pinned \in {None, p}
        OBVIOUS
    <2>1. DefaultModel(p, s.role) \in Models /\ DefaultModel(p, s.role).owner = p
        BY <1>1, <1>5, Defaults
    <2>2. model \in Models /\ model # NoModel /\ model.owner \in {p, None}
        BY <1>2, <1>5, <2>1 DEF Fits
    <2> QED
        BY <1>4, <1>5, <2>2
<1> HIDE DEF model, pinned
<1>7. NoRoute \in RouteRecords /\ NoRoute.provider = None
    BY Defaults DEF NoRoute, RouteRecords
<1>8. CASE p = None
    <2>1. Route(s) = NoRoute
        BY <1>3, <1>8
    <2>2. ~(Able(s, s.role) # {} /\ s.provider[1] = None)
        BY <1>4, <1>5, <1>8 DEF Able
    <2> QED
        BY <1>7, <2>1, <2>2
<1>9. CASE p # None
    <2>1. Route(s) = [provider |-> p, model |-> model, pinned |-> pinned]
        BY <1>3, <1>9
    <2>2. Route(s) \in RouteRecords /\ Route(s) # NoRoute
        BY <1>1, <1>5, <1>6, <1>7, <1>9, <2>1 DEF RouteRecords
    <2> QED
        BY <1>5, <1>6, <1>9, <2>1, <2>2
<1> QED
    BY <1>8, <1>9
-----------------------------------------------------------------------------
(* Costs *)

CallShapes ==
    [pc : {"idle", "site", "all", "both", "guard", "provider", "record"}, kind : Kinds,
     scope : Scopes, since : 1..Months, site : Nat, all : Nat,
     attempt : 0..Attempts, repair : 0..Repairs, done : 0..Batches, cost : Nat,
     answers : Nat, route : RouteRecords, late : BOOLEAN]

Tallied ==
    /\ left \in [calls : Nat, lost : Nat, turns : Nat, kinds : SUBSET Kinds,
                 callers : SUBSET Callers]
    /\ billed \in [1..Months -> Nat]

(* TypeOK without the bound that TLC's instances put on sums.                 *)
Shaped ==
    /\ month \in 1..Months
    /\ siteSince \in [1..Months -> [Sites -> Nat]]
    /\ allSince \in [1..Months -> Nat]
    /\ call \in [Callers -> CallShapes]
    /\ setup \in SetupRecords
    /\ Tallied

LEMMA Times ==
    ASSUME NEW d \in Nat, NEW m \in Nat, NEW n \in Nat
    PROVE  /\ d * n \in Nat
           /\ d * (n + 1) = d * n + d
           /\ m <= n => d * m <= d * n
<1>1. d * n \in Nat /\ d * (n + 1) = d * n + d
    OBVIOUS
<1>2. ASSUME m <= n PROVE d * m <= d * n
    <2>1. n - m \in Nat /\ n = m + (n - m)
        BY <1>2
    <2>2. ASSUME NEW k \in Nat, n = m + k PROVE d * m <= d * n
        <3>1. d * n = d * m + d * k /\ d * k \in Nat /\ d * m \in Nat
            BY <2>2
        <3> QED
            BY <3>1
    <2> QED
        BY <2>1, <2>2
<1> QED
    BY <1>1, <1>2

(* The dearest answer, and the dearest call.                                  *)
LEMMA DearestIs == Dearest \in Nat /\ \A price \in Prices : price \in Nat /\ price <= Dearest
<1>1. \E p \in Prices : \A q \in Prices : q <= p
    BY ClientAssumption
<1>2. Dearest \in Prices /\ \A q \in Prices : q <= Dearest
    BY <1>1 DEF Dearest
<1> QED
    BY <1>2, ClientAssumption

LEMMA CallCosts ==
    /\ CallCost \in Nat
    /\ \A n \in 0..Repairs : Dearest * n + Dearest <= CallCost
    /\ \A n \in 0..Batches : Dearest * n <= CallCost
<1> DEFINE most == IF Repairs + 1 > Batches THEN Repairs + 1 ELSE Batches
<1>1. most \in Nat /\ Repairs + 1 <= most /\ Batches <= most /\ Repairs \in Nat /\ Batches \in Nat
    BY ClientAssumption
<1>2. CallCost = Dearest * most
    BY DEF CallCost
<1> HIDE DEF most
<1>3. CallCost \in Nat
    BY <1>1, <1>2, DearestIs, Times
<1>4. ASSUME NEW n \in 0..Repairs PROVE Dearest * n + Dearest <= CallCost
    <2>1. n \in Nat /\ n + 1 \in Nat /\ n + 1 <= most
        BY <1>1
    <2>2. Dearest * (n + 1) = Dearest * n + Dearest
        BY <2>1, DearestIs, Times
    <2>3. Dearest * (n + 1) <= Dearest * most
        BY <1>1, <2>1, DearestIs, Times
    <2> QED
        BY <1>2, <2>2, <2>3
<1>5. ASSUME NEW n \in 0..Batches PROVE Dearest * n <= CallCost
    <2>1. n \in Nat /\ n <= most
        BY <1>1
    <2> QED
        BY <1>1, <1>2, <2>1, DearestIs, Times
<1> QED
    BY <1>3, <1>4, <1>5

-----------------------------------------------------------------------------
(* A sum and the callers that may still add to it *)

Bounded(cap, sum, movers) ==
    cap > 0 => \/ sum <= cap - 1
               \/ sum + Cardinality(movers) * CallCost <= cap - 1 + Overshoot

(* The callers are finitely many, and so is every part of them.               *)
LEMMA Movers ==
    ASSUME NEW S \in SUBSET Callers
    PROVE  /\ Cardinality(Callers) \in Nat /\ Cardinality(S) \in Nat
           /\ Cardinality(S) <= Cardinality(Callers)
           /\ Cardinality(S) * CallCost \in Nat /\ Overshoot \in Nat
           /\ Cardinality(S) * CallCost <= Overshoot
           /\ S # Callers => Cardinality(S) * CallCost + CallCost <= Overshoot
<1>1. IsFiniteSet(Callers)
    BY ClientAssumption
<1>2. /\ Cardinality(Callers) \in Nat /\ Cardinality(S) \in Nat
      /\ Cardinality(S) <= Cardinality(Callers)
      /\ S # Callers => Cardinality(S) < Cardinality(Callers)
    BY <1>1, FS_Subset, FS_CardinalityType
<1> DEFINE m == Cardinality(S)
           n == Cardinality(Callers)
<1>3. m \in Nat /\ n \in Nat /\ m <= n /\ CallCost \in Nat /\ Overshoot = n * CallCost
    BY <1>2, CallCosts DEF Overshoot
<1> HIDE DEF m, n
<1>4. m * CallCost = CallCost * m /\ n * CallCost = CallCost * n
    BY <1>3
<1>5. CallCost * m \in Nat /\ CallCost * n \in Nat /\ CallCost * m <= CallCost * n
    BY <1>3, Times
<1>6. m < n => CallCost * m + CallCost <= CallCost * n
    <2>1. m + 1 \in Nat /\ CallCost * (m + 1) = CallCost * m + CallCost
        BY <1>3, Times
    <2>2. m + 1 <= n => CallCost * (m + 1) <= CallCost * n
        BY <1>3, <2>1, Times
    <2> QED
        BY <1>3, <2>1, <2>2
<1> QED
    BY <1>2, <1>3, <1>4, <1>5, <1>6 DEF m, n

(* A bound survives fewer movers, and any movers while the sum is below it.   *)
LEMMA BoundedFewer ==
    ASSUME NEW cap \in Nat, NEW sum \in Nat, NEW S \in SUBSET Callers, NEW T \in SUBSET Callers,
           Bounded(cap, sum, S), T \subseteq S \/ sum < cap
    PROVE  Bounded(cap, sum, T)
<1>1. CASE sum < cap
    BY <1>1 DEF Bounded
<1>2. CASE T \subseteq S
    <2>1. Cardinality(T) \in Nat /\ Cardinality(S) \in Nat /\ Cardinality(T) <= Cardinality(S)
        <3>1. IsFiniteSet(S)
            BY ClientAssumption, FS_Subset
        <3> QED
            BY <1>2, <3>1, FS_Subset, FS_CardinalityType
    <2> DEFINE m == Cardinality(T)
               n == Cardinality(S)
    <2>2. m \in Nat /\ n \in Nat /\ m <= n /\ CallCost \in Nat /\ Overshoot \in Nat
        BY <2>1, CallCosts, Movers
    <2>3. cap > 0 => sum <= cap - 1 \/ sum + n * CallCost <= cap - 1 + Overshoot
        BY DEF Bounded
    <2> HIDE DEF m, n
    <2>4. m * CallCost = CallCost * m /\ n * CallCost = CallCost * n
        BY <2>2
    <2>5. CallCost * m \in Nat /\ CallCost * n \in Nat /\ CallCost * m <= CallCost * n
        BY <2>2, Times
    <2>6. cap > 0 => sum <= cap - 1 \/ sum + m * CallCost <= cap - 1 + Overshoot
        BY <2>2, <2>3, <2>4, <2>5
    <2> QED
        BY <2>6 DEF Bounded, m
<1> QED
    BY <1>1, <1>2

(* One mover adds what its call cost, and is a mover no more.                 *)
LEMMA BoundedSpend ==
    ASSUME NEW cap \in Nat, NEW sum \in Nat, NEW cost \in Nat, cost <= CallCost,
           NEW S \in SUBSET Callers, NEW c \in S, NEW T \in SUBSET (S \ {c}),
           Bounded(cap, sum, S)
    PROVE  Bounded(cap, sum + cost, T)
<1>1. T \in SUBSET Callers /\ T # Callers
    OBVIOUS
<1>2. IsFiniteSet(S) /\ Cardinality(S) \in Nat /\ Cardinality(T) \in Nat
    BY <1>1, Movers, ClientAssumption, FS_Subset
<1>3. Cardinality(T) + 1 <= Cardinality(S)
    <2>1. T # S /\ T \subseteq S
        OBVIOUS
    <2>2. Cardinality(T) < Cardinality(S)
        BY <1>2, <2>1, FS_Subset
    <2> QED
        BY <1>2, <2>2
<1> DEFINE m == Cardinality(T)
           n == Cardinality(S)
<1>4. m \in Nat /\ n \in Nat /\ m + 1 <= n /\ CallCost \in Nat /\ Overshoot \in Nat
    BY <1>1, <1>2, <1>3, CallCosts, Movers
<1>5. cap > 0 => sum <= cap - 1 \/ sum + n * CallCost <= cap - 1 + Overshoot
    BY DEF Bounded
<1>6. m * CallCost + CallCost <= Overshoot
    BY <1>1, Movers
<1> HIDE DEF m, n
<1>7. m * CallCost = CallCost * m /\ n * CallCost = CallCost * n
    BY <1>4
<1>8. /\ CallCost * m \in Nat /\ CallCost * n \in Nat
      /\ CallCost * (m + 1) = CallCost * m + CallCost
    BY <1>4, Times
<1>9. CallCost * (m + 1) <= CallCost * n
    <2>1. m + 1 \in Nat
        BY <1>4
    <2> QED
        BY <1>4, <2>1, Times
<1>10. cap > 0 => sum + cost + m * CallCost <= cap - 1 + Overshoot
    BY <1>4, <1>5, <1>6, <1>7, <1>8, <1>9
<1> QED
    BY <1>10 DEF Bounded, m

LEMMA BoundedIsBounded ==
    ASSUME NEW cap \in Nat, NEW sum \in Nat, NEW S \in SUBSET Callers,
           Bounded(cap, sum, S), cap > 0
    PROVE  sum <= cap - 1 + Overshoot
<1> DEFINE m == Cardinality(S) * CallCost
<1>1. m \in Nat /\ Overshoot \in Nat
    BY Movers
<1>2. sum <= cap - 1 \/ sum + m <= cap - 1 + Overshoot
    BY DEF Bounded
<1> HIDE DEF m
<1> QED
    BY <1>1, <1>2
-----------------------------------------------------------------------------
(* The inductive invariant *)

Reading == {"site", "all", "both", "guard"}

(* Earlier months count all that later ones do; months to come count nothing. *)
Sums ==
    /\ \A k, j \in 1..Months : k <= j =>
         allSince[j] <= allSince[k] /\ \A s \in Sites : siteSince[j][s] <= siteSince[k][s]
    /\ \A k \in 1..Months : k > month => allSince[k] = 0 /\ \A s \in Sites : siteSince[k][s] = 0

(* What a call has cost so far, and what it can still cost.                   *)
Priced(r) ==
    /\ r.pc \in Reading => r.cost = 0 /\ r.repair = 0 /\ r.done = 0
    /\ r.pc = "provider" =>
         CASE r.kind = "structured" -> r.cost <= Dearest * r.repair
           [] r.kind = "embed" -> r.cost <= Dearest * r.done /\ r.done < Batches
           [] OTHER -> r.cost = 0
    /\ r.pc = "record" => r.cost <= CallCost

Routed(r) == r.pc \in {"provider", "record"} => r.route = Route(setup) /\ r.route # NoRoute

(* A call made after a budget was used up finds it so when it reads it.       *)
Remembered(r) ==
    r.late =>
      /\ r.pc \in Reading
      /\ \/ /\ UsedUp(GlobalCap, allSince[r.since])
            /\ r.pc \in {"both", "guard"} => UsedUp(GlobalCap, r.all)
         \/ /\ r.scope # None /\ UsedUp(SiteCap[r.scope], siteSince[r.since][r.scope])
            /\ r.pc \in {"all", "guard"} => UsedUp(SiteCap[r.scope], r.site)

Fine(r) == r.since <= month /\ Priced(r) /\ Routed(r) /\ Remembered(r)

(* A call that may still add to the install's sum, and to the sum of site s:  *)
(* it was told that the budget has room.                                      *)
Moves(r) ==
    \/ r.pc \in {"provider", "record"}
    \/ r.pc \in {"both", "guard"} /\ ~UsedUp(GlobalCap, r.all)

MovesAt(r, s) ==
    /\ r.scope = s
    /\ \/ r.pc \in {"provider", "record"}
       \/ r.pc \in {"all", "guard"} /\ ~UsedUp(SiteCap[s], r.site)

Spending ==
    /\ Bounded(GlobalCap, allSince[month], {c \in Callers : Moves(call[c])})
    /\ \A s \in Sites :
         Bounded(SiteCap[s], siteSince[month][s], {c \in Callers : MovesAt(call[c], s)})

IInv == Shaped /\ Sums /\ (\A c \in Callers : Fine(call[c])) /\ Spending

LEMMA IdleIsFine == Shaped => Idle \in CallShapes /\ Fine(Idle) /\ ~Moves(Idle) /\ \A s : ~MovesAt(Idle, s)
<1> SUFFICES ASSUME Shaped PROVE Idle \in CallShapes /\ Fine(Idle) /\ ~Moves(Idle) /\ \A s : ~MovesAt(Idle, s)
    OBVIOUS
<1>1. NoRoute \in RouteRecords
    BY Defaults DEF NoRoute, RouteRecords
<1>2. /\ 1 \in 1..Months /\ 0 \in 0..Attempts /\ 0 \in 0..Repairs /\ 0 \in 0..Batches
      /\ None \in Scopes /\ "text" \in Kinds /\ month \in Nat /\ 1 <= month
    BY ClientAssumption DEF Shaped, Scopes, Kinds
<1>3. Idle \in CallShapes
    BY ONLY <1>1, <1>2 DEF Idle, CallShapes
<1>4. Idle.pc = "idle" /\ Idle.since = 1 /\ Idle.late = FALSE
    BY DEF Idle
<1> QED
    BY <1>2, <1>3, <1>4 DEF Fine, Priced, Routed, Remembered, Reading, Moves, MovesAt

LEMMA InitHolds == Init => IInv
<1> SUFFICES ASSUME Init PROVE IInv
    OBVIOUS
<1>1. Tallied
    <2>1. PICK scale \in Scales :
              /\ left = [calls |-> scale.calls, lost |-> scale.lost, turns |-> scale.turns,
                         kinds |-> scale.kinds, callers |-> scale.callers]
              /\ setup \in scale.setups
        BY DEF Init
    <2>2. scale \in ScaleRecords
        BY ClientAssumption
    <2>3. billed \in [1..Months -> Nat]
        BY DEF Init
    <2> QED
        BY <2>1, <2>2, <2>3 DEF Tallied, ScaleRecords
<1>2. setup \in SetupRecords
    <2>1. PICK scale \in Scales : setup \in scale.setups
        BY DEF Init
    <2>2. scale \in ScaleRecords
        BY ClientAssumption
    <2> QED
        BY <2>1, <2>2 DEF ScaleRecords
<1>3. month \in 1..Months
    BY ClientAssumption DEF Init
<1>4. /\ siteSince \in [1..Months -> [Sites -> Nat]] /\ allSince \in [1..Months -> Nat]
      /\ \A k \in 1..Months : allSince[k] = 0 /\ \A s \in Sites : siteSince[k][s] = 0
    BY DEF Init
<1>5. \A c \in Callers : call[c] = Idle
    BY DEF Init
<1>6. Shaped
    <2>1. NoRoute \in RouteRecords
        BY Defaults DEF NoRoute, RouteRecords
    <2>2. /\ 1 \in 1..Months /\ 0 \in 0..Attempts /\ 0 \in 0..Repairs /\ 0 \in 0..Batches
          /\ None \in Scopes /\ "text" \in Kinds
        BY ClientAssumption DEF Scopes, Kinds
    <2>3. Idle \in CallShapes
        BY ONLY <2>1, <2>2 DEF Idle, CallShapes
    <2>4. call \in [Callers -> CallShapes]
        BY <2>3 DEF Init
    <2> QED
        BY <1>1, <1>2, <1>3, <1>4, <2>4 DEF Shaped
<1>7. Sums
    BY <1>4 DEF Sums
<1>8. \A c \in Callers : Fine(call[c])
    BY <1>5, <1>6, IdleIsFine
<1>9. Spending
    BY <1>3, <1>4, ClientAssumption DEF Spending, Bounded
<1> QED
    BY <1>6, <1>7, <1>8, <1>9 DEF IInv

(* One call goes on, the sums stay: it may add to a sum afterwards only if it *)
(* could before, or if there is room.                                         *)
LEMMA OneCall ==
    ASSUME IInv, NEW c \in Callers, NEW q \in CallShapes,
           call' = [call EXCEPT ![c] = q],
           UNCHANGED <<month, siteSince, allSince, setup>>, Tallied',
           Fine(q),
           Moves(q) => Moves(call[c]) \/ allSince[month] < GlobalCap \/ GlobalCap = 0,
           \A s \in Sites : MovesAt(q, s) =>
               MovesAt(call[c], s) \/ siteSince[month][s] < SiteCap[s] \/ SiteCap[s] = 0
    PROVE  IInv'
<1>1. Shaped /\ Sums /\ (\A b \in Callers : Fine(call[b])) /\ Spending
    BY DEF IInv
<1>2. call \in [Callers -> CallShapes] /\ call'[c] = q
      /\ \A b \in Callers : b # c => call'[b] = call[b]
    BY <1>1 DEF Shaped
<1>3. Shaped'
    BY <1>1, <1>2 DEF Shaped
<1>4. Sums'
    BY <1>1 DEF Sums
<1>5. ASSUME NEW b \in Callers PROVE Fine(call[b])'
    <2>1. Fine(call'[b])
        BY <1>1, <1>2
    <2> QED
        BY <2>1 DEF Fine, Priced, Routed, Remembered
<1>6. Spending'
    <2> DEFINE S == {b \in Callers : Moves(call[b])}
               T == {b \in Callers : Moves(call'[b])}
    <2>1. allSince[month] \in Nat /\ GlobalCap \in Nat
        BY <1>1, ClientAssumption DEF Shaped
    <2>2. Bounded(GlobalCap, allSince[month], S)
        BY <1>1 DEF Spending
    <2>3. T \subseteq S \/ allSince[month] < GlobalCap \/ GlobalCap = 0
        BY <1>2
    <2>4. Bounded(GlobalCap, allSince[month], T)
        <3>1. CASE GlobalCap = 0
            BY <3>1 DEF Bounded
        <3>2. CASE T \subseteq S \/ allSince[month] < GlobalCap
            <4>1. S \in SUBSET Callers /\ T \in SUBSET Callers
                OBVIOUS
            <4> HIDE DEF S, T
            <4> QED
                BY <2>1, <2>2, <3>2, <4>1, BoundedFewer
        <3> QED
            BY <2>3, <3>1, <3>2
    <2>5. ASSUME NEW s \in Sites
          PROVE  Bounded(SiteCap[s], siteSince[month][s], {b \in Callers : MovesAt(call'[b], s)})
        <3> DEFINE SS == {b \in Callers : MovesAt(call[b], s)}
                   TT == {b \in Callers : MovesAt(call'[b], s)}
        <3>1. siteSince[month][s] \in Nat /\ SiteCap[s] \in Nat
            BY <1>1, ClientAssumption DEF Shaped
        <3>2. Bounded(SiteCap[s], siteSince[month][s], SS)
            BY <1>1 DEF Spending
        <3>3. TT \subseteq SS \/ siteSince[month][s] < SiteCap[s] \/ SiteCap[s] = 0
            BY <1>2
        <3>4. CASE SiteCap[s] = 0
            BY <3>4 DEF Bounded
        <3>5. CASE TT \subseteq SS \/ siteSince[month][s] < SiteCap[s]
            <4>1. SS \in SUBSET Callers /\ TT \in SUBSET Callers
                OBVIOUS
            <4> HIDE DEF SS, TT
            <4>2. Bounded(SiteCap[s], siteSince[month][s], TT)
                BY <3>1, <3>2, <3>5, <4>1, BoundedFewer
            <4> QED
                BY <4>2 DEF TT
        <3> QED
            BY <3>3, <3>4, <3>5
    <2>6. /\ {b \in Callers : Moves(call[b])'} = T
          /\ \A s \in Sites : {b \in Callers : MovesAt(call[b], s)'} = {b \in Callers : MovesAt(call'[b], s)}
        BY DEF Moves, MovesAt
    <2> QED
        BY <2>4, <2>5, <2>6 DEF Spending, Bounded
<1> QED
    BY <1>3, <1>4, <1>5, <1>6 DEF IInv
-----------------------------------------------------------------------------
(* The guard reads *)

(* The facts about a caller that its steps need.                              *)
LEMMA AtCall ==
    ASSUME IInv, NEW c \in Callers
    PROVE  /\ call[c] \in CallShapes /\ Fine(call[c])
           /\ month \in 1..Months /\ call[c].since \in 1..Months /\ call[c].since <= month
           /\ allSince[month] \in Nat /\ allSince[call[c].since] \in Nat
           /\ allSince[month] <= allSince[call[c].since]
           /\ \A s \in Sites :
                /\ siteSince[month][s] \in Nat /\ siteSince[call[c].since][s] \in Nat
                /\ siteSince[month][s] <= siteSince[call[c].since][s]
<1>1. Shaped /\ Sums /\ Fine(call[c])
    BY DEF IInv
<1>2. call[c] \in CallShapes
    BY <1>1 DEF Shaped
<1>3. month \in 1..Months /\ call[c].since \in 1..Months /\ call[c].since <= month
    BY <1>1, <1>2 DEF Shaped, CallShapes, Fine
<1>4. /\ allSince[month] <= allSince[call[c].since]
      /\ \A s \in Sites : siteSince[month][s] <= siteSince[call[c].since][s]
    BY <1>1, <1>3 DEF Sums
<1> QED
    BY <1>1, <1>2, <1>3, <1>4 DEF Shaped

LEMMA AskHolds ==
    ASSUME IInv, NEW c \in Callers, NEW kind \in Kinds, NEW scope \in Scopes, Ask(c, kind, scope)
    PROVE  IInv'
<1> DEFINE late == CapReached(scope, month)
           q == [Idle EXCEPT !.pc = "site", !.kind = kind, !.scope = scope, !.since = month,
                             !.late = late]
<1>1. Shaped /\ month \in 1..Months
    BY DEF IInv, Shaped
<1>2. /\ call' = [call EXCEPT ![c] = q]
      /\ UNCHANGED <<month, siteSince, allSince, setup, billed>>
      /\ left.calls > 0 /\ left' = [left EXCEPT !.calls = @ - 1]
    BY DEF Ask
<1>3. Tallied'
    <2>1. Tallied
        BY <1>1 DEF Shaped
    <2>2. left.calls \in Nat /\ left.calls - 1 \in Nat
        BY <1>2, <2>1 DEF Tallied
    <2> QED
        BY <1>2, <2>1, <2>2 DEF Tallied
<1>4. late \in BOOLEAN
    BY DEF CapReached, UsedUp
<1>5. /\ q.pc = "site" /\ q.since = month /\ q.scope = scope /\ q.late = late
      /\ q.cost = 0 /\ q.repair = 0 /\ q.done = 0
    BY DEF Idle
<1>6. q \in CallShapes
    <2>1. Idle \in CallShapes
        BY <1>1, IdleIsFine
    <2> HIDE DEF late
    <2> QED
        BY <1>1, <1>4, <2>1 DEF CallShapes
<1> HIDE DEF q
<1>7. Fine(q)
    <2>1. Remembered(q)
        BY <1>5 DEF Remembered, CapReached, Reading
    <2>2. q.since <= month
        BY <1>1, <1>5
    <2> QED
        BY <1>5, <2>1, <2>2 DEF Fine, Priced, Routed
<1>8. ~Moves(q) /\ \A s \in Sites : ~MovesAt(q, s)
    BY <1>5 DEF Moves, MovesAt
<1> QED
    BY <1>2, <1>3, <1>6, <1>7, <1>8, OneCall

LEMMA ReadSiteHolds == ASSUME IInv, NEW c \in Callers, ReadSite(c) PROVE IInv'
<1> DEFINE r == call[c]
           pc == IF r.pc = "site" THEN "all" ELSE "guard"
           site == IF r.scope = None THEN 0 ELSE siteSince[r.since][r.scope]
           q == [r EXCEPT !.pc = pc, !.site = site]
<1>1. /\ r \in CallShapes /\ Fine(r) /\ r.since \in 1..Months
      /\ \A s \in Sites : /\ siteSince[month][s] \in Nat /\ siteSince[r.since][s] \in Nat
                          /\ siteSince[month][s] <= siteSince[r.since][s]
    BY AtCall
<1>2. /\ r.pc \in {"site", "both"} /\ call' = [call EXCEPT ![c] = q]
      /\ UNCHANGED <<month, siteSince, allSince, left, setup, billed>>
    BY DEF ReadSite
<1>3. Tallied'
    BY <1>2 DEF IInv, Shaped, Tallied
<1>4. r.scope # None => r.scope \in Sites
    BY <1>1 DEF CallShapes, Scopes
<1>5. site \in Nat /\ pc \in {"all", "guard"}
    BY <1>1, <1>4
<1>6. q \in CallShapes
    <2> HIDE DEF r, site, pc
    <2> QED
        BY <1>1, <1>5 DEF CallShapes
<1>7. /\ q.pc = pc /\ q.site = site /\ q.all = r.all /\ q.scope = r.scope /\ q.since = r.since
      /\ q.late = r.late /\ q.cost = r.cost /\ q.repair = r.repair /\ q.done = r.done
    <2> HIDE DEF r, site, pc
    <2> QED
        BY <1>1 DEF CallShapes
<1> HIDE DEF q
<1>8. Fine(q)
    <2>1. Remembered(q)
        <3>1. Remembered(r)
            BY <1>1 DEF Fine
        <3> QED
            BY <1>2, <1>7, <3>1 DEF Remembered, Reading
    <2> QED
        BY <1>1, <1>2, <1>5, <1>7, <2>1 DEF Fine, Priced, Routed, Reading
<1>9. Moves(q) => Moves(r)
    BY <1>2, <1>5, <1>7 DEF Moves
<1>10. ASSUME NEW s \in Sites, MovesAt(q, s)
       PROVE  siteSince[month][s] < SiteCap[s] \/ SiteCap[s] = 0
    <2>1. ~UsedUp(SiteCap[s], site) /\ r.scope = s /\ s # None
        BY <1>5, <1>7, <1>10, ClientAssumption DEF MovesAt
    <2>2. SiteCap[s] \in Nat /\ site = siteSince[r.since][s]
        BY <2>1, ClientAssumption
    <2> QED
        BY <1>1, <2>1, <2>2 DEF UsedUp
<1> QED
    BY <1>2, <1>3, <1>6, <1>8, <1>9, <1>10, OneCall

LEMMA ReadAllHolds == ASSUME IInv, NEW c \in Callers, ReadAll(c) PROVE IInv'
<1> DEFINE r == call[c]
           pc == IF r.pc = "site" THEN "both" ELSE "guard"
           all == allSince[r.since]
           q == [r EXCEPT !.pc = pc, !.all = all]
<1>1. /\ r \in CallShapes /\ Fine(r) /\ r.since \in 1..Months
      /\ all \in Nat /\ allSince[month] \in Nat /\ allSince[month] <= all
    BY AtCall
<1>2. /\ r.pc \in {"site", "all"} /\ call' = [call EXCEPT ![c] = q]
      /\ UNCHANGED <<month, siteSince, allSince, left, setup, billed>>
    BY DEF ReadAll
<1>3. Tallied'
    BY <1>2 DEF IInv, Shaped, Tallied
<1>4. pc \in {"both", "guard"}
    OBVIOUS
<1>5. q \in CallShapes
    <2> HIDE DEF r, all, pc
    <2> QED
        BY <1>1, <1>4 DEF CallShapes
<1>6. /\ q.pc = pc /\ q.all = all /\ q.site = r.site /\ q.scope = r.scope /\ q.since = r.since
      /\ q.late = r.late /\ q.cost = r.cost /\ q.repair = r.repair /\ q.done = r.done
    <2> HIDE DEF r, all, pc
    <2> QED
        BY <1>1 DEF CallShapes
<1> HIDE DEF q
<1>7. Fine(q)
    <2>1. Remembered(q)
        <3>1. Remembered(r)
            BY <1>1 DEF Fine
        <3> QED
            BY <1>2, <1>6, <3>1 DEF Remembered, Reading
    <2> QED
        BY <1>1, <1>2, <1>4, <1>6, <2>1 DEF Fine, Priced, Routed, Reading
<1>8. ASSUME Moves(q) PROVE allSince[month] < GlobalCap \/ GlobalCap = 0
    <2>1. ~UsedUp(GlobalCap, all)
        BY <1>4, <1>6, <1>8 DEF Moves
    <2> QED
        BY <1>1, <2>1, ClientAssumption DEF UsedUp
<1>9. \A s \in Sites : MovesAt(q, s) => MovesAt(r, s)
    BY <1>2, <1>4, <1>6 DEF MovesAt
<1> QED
    BY <1>2, <1>3, <1>5, <1>7, <1>8, <1>9, OneCall

LEMMA GuardHolds == ASSUME IInv, NEW c \in Callers, Guard(c) PROVE IInv'
<1> DEFINE r == call[c]
           q == [r EXCEPT !.pc = "provider", !.attempt = 1, !.route = Route(setup)]
<1>1. Shaped /\ r \in CallShapes /\ Fine(r)
    BY AtCall DEF IInv
<1>2. /\ r.pc = "guard"
      /\ UNCHANGED <<month, siteSince, allSince, left, setup, billed>>
      /\ call' = [call EXCEPT ![c] = IF Exceeded(c) \/ Route(setup) = NoRoute THEN Idle ELSE q]
    BY DEF Guard
<1>3. Tallied'
    BY <1>2 DEF IInv, Shaped, Tallied
<1>4. CASE Exceeded(c) \/ Route(setup) = NoRoute
    <2>1. call' = [call EXCEPT ![c] = Idle]
        BY <1>2, <1>4
    <2> QED
        BY <1>1, <1>2, <1>3, <2>1, IdleIsFine, OneCall
<1>5. CASE ~Exceeded(c) /\ Route(setup) # NoRoute
    <2>1. Route(setup) \in RouteRecords /\ 1 \in 0..Attempts
        BY <1>1, RoutesFit, ClientAssumption DEF Shaped
    <2>2. q \in CallShapes
        <3> HIDE DEF r
        <3> QED
            BY <1>1, <2>1 DEF CallShapes
    <2>3. /\ q.pc = "provider" /\ q.route = Route(setup) /\ q.scope = r.scope /\ q.since = r.since
          /\ q.late = r.late /\ q.cost = r.cost /\ q.repair = r.repair /\ q.done = r.done
          /\ q.kind = r.kind
        <3> HIDE DEF r
        <3> QED
            BY <1>1 DEF CallShapes
    <2>4. call' = [call EXCEPT ![c] = q]
        BY <1>2, <1>5
    <2>5. /\ ~UsedUp(GlobalCap, r.all)
          /\ r.scope # None => ~UsedUp(SiteCap[r.scope], r.site)
        BY <1>5 DEF Exceeded, Capped, UsedUp
    <2>6. r.late = FALSE
        BY <1>1, <1>2, <2>5 DEF Fine, Remembered, CallShapes
    <2> HIDE DEF q
    <2>7. Priced(q)
        <3>1. r.cost = 0 /\ r.repair = 0 /\ r.done = 0
            BY <1>1, <1>2 DEF Fine, Priced, Reading
        <3>2. Dearest * 0 = 0 /\ 0 < Batches
            BY DearestIs, ClientAssumption
        <3> QED
            BY <2>3, <3>1, <3>2 DEF Priced, Reading
    <2>8. Fine(q)
        BY <1>1, <1>5, <2>3, <2>6, <2>7 DEF Fine, Routed, Remembered
    <2>9. Moves(r) /\ \A s \in Sites : MovesAt(q, s) => MovesAt(r, s)
        BY <1>2, <2>3, <2>5, ClientAssumption DEF Moves, MovesAt
    <2> QED
        BY <1>2, <1>3, <2>2, <2>4, <2>8, <2>9, OneCall
<1> QED
    BY <1>4, <1>5
-----------------------------------------------------------------------------
(* The provider's answers *)

(* A call that was sent goes on, ends or waits for its row: what is left to   *)
(* show of each answer is what it cost.                                       *)
LEMMA SentCall ==
    ASSUME IInv, NEW c \in Callers, call[c].pc = "provider", NEW q \in CallShapes,
           call' = [call EXCEPT ![c] = q],
           UNCHANGED <<month, siteSince, allSince, setup>>, Tallied',
           q.pc \in {"provider", "record"}, q.kind = call[c].kind, q.scope = call[c].scope,
           q.since = call[c].since, q.late = call[c].late, q.route = call[c].route, Priced(q)
    PROVE  IInv'
<1>1. call[c] \in CallShapes /\ Fine(call[c])
    BY AtCall
<1>2. call[c].late = FALSE
    BY <1>1 DEF Fine, Remembered, Reading, CallShapes
<1>3. Fine(q)
    BY <1>1, <1>2 DEF Fine, Routed, Remembered
<1>4. Moves(call[c]) /\ \A s \in Sites : MovesAt(q, s) => MovesAt(call[c], s)
    BY DEF Moves, MovesAt
<1> QED
    BY <1>3, <1>4, OneCall

LEMMA BillHolds ==
    ASSUME IInv, NEW price \in Prices, Bill(price), UNCHANGED left
    PROVE  Tallied'
<1>1. Tallied
    BY DEF IInv, Shaped
<1>2. price \in Nat
    BY DearestIs
<1>3. billed' \in [1..Months -> Nat]
    BY <1>1, <1>2 DEF Bill, Tallied
<1> QED
    BY <1>1, <1>3 DEF Tallied

LEMMA AnsweredHolds ==
    ASSUME IInv, NEW c \in Callers, NEW price \in Prices, Answered(c, price) PROVE IInv'
<1> DEFINE r == call[c]
           cost == IF r.kind = "stream" THEN 0 ELSE r.cost + price
           n == r.answers + 1
           q == [r EXCEPT !.pc = "record", !.answers = n, !.cost = cost]
<1>1. r \in CallShapes /\ Fine(r) /\ price \in Nat /\ price <= Dearest /\ Dearest \in Nat
    BY AtCall, DearestIs
<1>2. /\ r.pc = "provider" /\ r.kind \in {"text", "structured", "stream"} /\ Bill(price)
      /\ call' = [call EXCEPT ![c] = q] /\ UNCHANGED <<month, siteSince, allSince, left, setup>>
    BY DEF Answered, Asked
<1>3. r.repair \in 0..Repairs /\ r.cost \in Nat /\ n \in Nat
    BY <1>1 DEF CallShapes
<1>4. cost \in Nat /\ cost <= CallCost
    <2>1. r.cost <= Dearest * r.repair \/ r.cost = 0
        BY <1>1, <1>2 DEF Fine, Priced
    <2>2. Dearest * r.repair + Dearest <= CallCost /\ Dearest * r.repair \in Nat /\ CallCost \in Nat
        <3> DEFINE k == r.repair
        <3>1. k \in 0..Repairs /\ k \in Nat
            BY <1>3, ClientAssumption
        <3> HIDE DEF k
        <3>2. Dearest * k + Dearest <= CallCost /\ Dearest * k \in Nat /\ CallCost \in Nat
            BY <1>1, <3>1, CallCosts, Times
        <3> QED
            BY <3>2 DEF k
    <2> HIDE DEF r
    <2> QED
        BY <1>1, <1>3, <2>1, <2>2
<1> HIDE DEF cost, n
<1>5. q \in CallShapes
    <2> HIDE DEF r
    <2> QED
        BY <1>1, <1>3, <1>4 DEF CallShapes
<1>6. /\ q.pc = "record" /\ q.cost = cost /\ q.kind = r.kind /\ q.scope = r.scope
      /\ q.since = r.since /\ q.late = r.late /\ q.route = r.route
    <2> HIDE DEF r
    <2> QED
        BY <1>1 DEF CallShapes
<1> HIDE DEF q
<1>7. Priced(q)
    BY <1>4, <1>6 DEF Priced, Reading
<1>8. Tallied'
    BY <1>2, BillHolds
<1> QED
    BY <1>2, <1>5, <1>6, <1>7, <1>8, SentCall

LEMMA InvalidHolds ==
    ASSUME IInv, NEW c \in Callers, NEW price \in Prices, Invalid(c, price) PROVE IInv'
<1> DEFINE r == call[c]
           n == r.answers + 1
<1>1. r \in CallShapes /\ Fine(r) /\ price \in Nat /\ price <= Dearest /\ Dearest \in Nat
    BY AtCall, DearestIs
<1>2. /\ r.pc = "provider" /\ r.kind = "structured" /\ Bill(price)
      /\ UNCHANGED <<month, siteSince, allSince, left, setup>>
    BY DEF Invalid, Asked
<1>3. r.repair \in 0..Repairs /\ r.cost \in Nat /\ n \in Nat /\ Repairs \in Nat
    BY <1>1, ClientAssumption DEF CallShapes
<1>4. Tallied'
    BY <1>2, BillHolds
<1>5. CASE MayRepair(c)
    <2> DEFINE repair == r.repair + 1
               cost == r.cost + price
               q == [r EXCEPT !.repair = repair, !.cost = cost, !.answers = n]
    <2>1. call' = [call EXCEPT ![c] = q]
        <3>1. call' = [call EXCEPT ![c] =
                  IF MayRepair(c) THEN q ELSE [r EXCEPT !.pc = "record", !.cost = 0, !.answers = n]]
            BY DEF Invalid
        <3> QED
            BY <1>5, <3>1
    <2>2. repair \in 0..Repairs /\ cost \in Nat /\ repair \in Nat
        BY <1>1, <1>3, <1>5 DEF MayRepair
    <2>3. cost <= Dearest * repair
        <3>1. r.cost <= Dearest * r.repair
            BY <1>1, <1>2 DEF Fine, Priced
        <3>2. Dearest * repair = Dearest * r.repair + Dearest /\ Dearest * r.repair \in Nat
            BY <1>1, <1>3, Times
        <3> HIDE DEF r
        <3> QED
            BY <1>1, <1>3, <3>1, <3>2
    <2> HIDE DEF repair, cost, n
    <2>4. q \in CallShapes
        <3> HIDE DEF r
        <3> QED
            BY <1>1, <1>3, <2>2 DEF CallShapes
    <2>5. /\ q.pc = r.pc /\ q.cost = cost /\ q.repair = repair /\ q.kind = r.kind
          /\ q.scope = r.scope /\ q.since = r.since /\ q.late = r.late /\ q.route = r.route
        <3> HIDE DEF r
        <3> QED
            BY <1>1 DEF CallShapes
    <2> HIDE DEF q
    <2>6. Priced(q)
        BY <1>2, <2>3, <2>5 DEF Priced, Reading
    <2> QED
        BY <1>2, <1>4, <2>1, <2>4, <2>5, <2>6, SentCall
<1>6. CASE ~MayRepair(c)
    <2> DEFINE q == [r EXCEPT !.pc = "record", !.cost = 0, !.answers = n]
    <2>1. call' = [call EXCEPT ![c] = q]
        <3>1. call' = [call EXCEPT ![c] =
                  IF MayRepair(c)
                  THEN [r EXCEPT !.repair = r.repair + 1, !.cost = r.cost + price, !.answers = n]
                  ELSE q]
            BY DEF Invalid
        <3> QED
            BY <1>6, <3>1
    <2> HIDE DEF n
    <2>2. q \in CallShapes
        <3> HIDE DEF r
        <3> QED
            BY <1>1, <1>3 DEF CallShapes
    <2>3. /\ q.pc = "record" /\ q.cost = 0 /\ q.kind = r.kind
          /\ q.scope = r.scope /\ q.since = r.since /\ q.late = r.late /\ q.route = r.route
        <3> HIDE DEF r
        <3> QED
            BY <1>1 DEF CallShapes
    <2> HIDE DEF q
    <2>4. Priced(q)
        BY <2>3, CallCosts DEF Priced, Reading
    <2> QED
        BY <1>2, <1>4, <2>1, <2>2, <2>3, <2>4, SentCall
<1> QED
    BY <1>5, <1>6

(* Shared by a transient failure and by an answer that does not parse.        *)
LEMMA AttemptFailsHolds ==
    ASSUME IInv, NEW c \in Callers, NEW answered \in Nat, AttemptFails(c, answered),
           call[c].pc = "provider", call[c].kind \in {"text", "structured"},
           UNCHANGED <<month, siteSince, allSince, setup>>, Tallied'
    PROVE  IInv'
<1> DEFINE r == call[c]
           n == r.answers + answered
<1>1. r \in CallShapes
    BY AtCall
<1>2. n \in Nat /\ r.attempt \in 0..Attempts /\ 0 \in 0..Repairs
    BY <1>1, ClientAssumption DEF CallShapes
<1>3. CASE MayRetry(c)
    <2> DEFINE attempt == r.attempt + 1
               q == [r EXCEPT !.attempt = attempt, !.repair = 0, !.cost = 0, !.answers = n]
    <2>1. call' = [call EXCEPT ![c] = q]
        <3>1. call' = [call EXCEPT ![c] =
                  IF MayRetry(c) THEN q ELSE [r EXCEPT !.pc = "record", !.cost = 0, !.answers = n]]
            BY DEF AttemptFails
        <3> QED
            BY <1>3, <3>1
    <2>2. attempt \in 0..Attempts
        BY <1>2, <1>3, ClientAssumption DEF MayRetry
    <2> HIDE DEF attempt, n
    <2>3. q \in CallShapes
        <3> HIDE DEF r
        <3> QED
            BY <1>1, <1>2, <2>2 DEF CallShapes
    <2>4. /\ q.pc = r.pc /\ q.cost = 0 /\ q.repair = 0 /\ q.kind = r.kind
          /\ q.scope = r.scope /\ q.since = r.since /\ q.late = r.late /\ q.route = r.route
        <3> HIDE DEF r
        <3> QED
            BY <1>1 DEF CallShapes
    <2> HIDE DEF q
    <2>5. Dearest * 0 = 0
        BY DearestIs
    <2>6. Priced(q)
        BY <2>4, <2>5 DEF Priced, Reading
    <2> QED
        BY <2>1, <2>3, <2>4, <2>6, SentCall
<1>4. CASE ~MayRetry(c)
    <2> DEFINE q == [r EXCEPT !.pc = "record", !.cost = 0, !.answers = n]
    <2>1. call' = [call EXCEPT ![c] = q]
        <3>1. call' = [call EXCEPT ![c] =
                  IF MayRetry(c)
                  THEN [r EXCEPT !.attempt = r.attempt + 1, !.repair = 0, !.cost = 0, !.answers = n]
                  ELSE q]
            BY DEF AttemptFails
        <3> QED
            BY <1>4, <3>1
    <2> HIDE DEF n
    <2>2. q \in CallShapes
        <3> HIDE DEF r
        <3> QED
            BY <1>1, <1>2 DEF CallShapes
    <2>3. /\ q.pc = "record" /\ q.cost = 0 /\ q.kind = r.kind
          /\ q.scope = r.scope /\ q.since = r.since /\ q.late = r.late /\ q.route = r.route
        <3> HIDE DEF r
        <3> QED
            BY <1>1 DEF CallShapes
    <2> HIDE DEF q
    <2>4. Priced(q)
        BY <2>3, CallCosts DEF Priced, Reading
    <2> QED
        BY <2>1, <2>2, <2>3, <2>4, SentCall
<1> QED
    BY <1>3, <1>4

LEMMA FatalHolds == ASSUME IInv, NEW c \in Callers, Fatal(c) PROVE IInv'
<1> DEFINE r == call[c]
           q == [r EXCEPT !.pc = "record", !.cost = 0]
<1>1. r \in CallShapes
    BY AtCall
<1>2. /\ r.pc = "provider" /\ call' = [call EXCEPT ![c] = q]
      /\ UNCHANGED <<month, siteSince, allSince, left, setup, billed>>
    BY DEF Fatal, Asked
<1>3. Tallied'
    BY <1>2 DEF IInv, Shaped, Tallied
<1>4. q \in CallShapes
    <2> HIDE DEF r
    <2> QED
        BY <1>1 DEF CallShapes
<1>5. /\ q.pc = "record" /\ q.cost = 0 /\ q.kind = r.kind
      /\ q.scope = r.scope /\ q.since = r.since /\ q.late = r.late /\ q.route = r.route
    <2> HIDE DEF r
    <2> QED
        BY <1>1 DEF CallShapes
<1> HIDE DEF q
<1>6. Priced(q)
    BY <1>5, CallCosts DEF Priced, Reading
<1> QED
    BY <1>2, <1>3, <1>4, <1>5, <1>6, SentCall

LEMMA EmbedBatchHolds ==
    ASSUME IInv, NEW c \in Callers, NEW price \in Prices, EmbedBatch(c, price) PROVE IInv'
<1> DEFINE r == call[c]
           done == r.done + 1
           cost == r.cost + price
           n == r.answers + 1
           pc == IF done = Batches THEN "record" ELSE r.pc
           q == [r EXCEPT !.done = done, !.cost = cost, !.answers = n, !.pc = pc]
<1>1. r \in CallShapes /\ Fine(r) /\ price \in Nat /\ price <= Dearest /\ Dearest \in Nat
    BY AtCall, DearestIs
<1>2. /\ r.pc = "provider" /\ r.kind = "embed" /\ Bill(price)
      /\ call' = [call EXCEPT ![c] = q] /\ UNCHANGED <<month, siteSince, allSince, left, setup>>
    BY DEF EmbedBatch, Asked
<1>3. /\ r.cost <= Dearest * r.done /\ r.done < Batches
      /\ r.done \in 0..Batches /\ r.cost \in Nat /\ n \in Nat /\ Batches \in Nat
    BY <1>1, <1>2, ClientAssumption DEF Fine, Priced, CallShapes
<1>4. done \in 0..Batches /\ done \in Nat /\ cost \in Nat /\ pc \in {"provider", "record"}
      /\ (pc = "provider" => done < Batches)
    BY <1>1, <1>2, <1>3
<1>5. cost <= Dearest * done
    <2>1. Dearest * done = Dearest * r.done + Dearest /\ Dearest * r.done \in Nat
        <3> DEFINE k == r.done
        <3>1. k \in Nat
            BY <1>3
        <3> HIDE DEF k
        <3>2. Dearest * (k + 1) = Dearest * k + Dearest /\ Dearest * k \in Nat
            BY <1>1, <3>1, Times
        <3> QED
            BY <3>2 DEF k
    <2> HIDE DEF r
    <2> QED
        BY <1>1, <1>3, <2>1
<1>6. cost <= CallCost
    <2>1. Dearest * done <= CallCost /\ Dearest * done \in Nat /\ CallCost \in Nat
        BY <1>1, <1>4, CallCosts, Times
    <2> HIDE DEF cost, done
    <2> QED
        BY <1>4, <1>5, <2>1
<1> HIDE DEF cost, done, n, pc
<1>7. q \in CallShapes
    <2> HIDE DEF r
    <2> QED
        BY <1>1, <1>3, <1>4 DEF CallShapes
<1>8. /\ q.pc = pc /\ q.cost = cost /\ q.done = done /\ q.kind = r.kind
      /\ q.scope = r.scope /\ q.since = r.since /\ q.late = r.late /\ q.route = r.route
    <2> HIDE DEF r
    <2> QED
        BY <1>1 DEF CallShapes
<1> HIDE DEF q
<1>9. Priced(q)
    BY <1>2, <1>4, <1>5, <1>6, <1>8 DEF Priced, Reading
<1>10. Tallied'
    BY <1>2, BillHolds
<1> QED
    BY <1>2, <1>4, <1>7, <1>8, <1>9, <1>10, SentCall

LEMMA LetGo ==
    ASSUME IInv, NEW c \in Callers, call' = [call EXCEPT ![c] = Idle],
           UNCHANGED <<month, siteSince, allSince, setup>>, Tallied'
    PROVE  IInv'
<1>1. Shaped
    BY DEF IInv
<1> QED
    BY <1>1, IdleIsFine, OneCall
-----------------------------------------------------------------------------
(* The row is written, the month turns *)

LEMMA RecordHolds == ASSUME IInv, NEW c \in Callers, Record(c) PROVE IInv'
<1> DEFINE r == call[c]
           cost == r.cost
<1>1. Shaped /\ Sums /\ (\A b \in Callers : Fine(call[b])) /\ Spending
    BY DEF IInv
<1>2. r \in CallShapes /\ r.pc = "record" /\ cost \in Nat /\ cost <= CallCost
    <2>1. r \in CallShapes /\ r.pc = "record" /\ Priced(r)
        BY AtCall DEF Record, Fine
    <2> QED
        BY <2>1 DEF Priced, CallShapes
<1>3. UNCHANGED <<month, left, setup, billed>> /\ call' = [call EXCEPT ![c] = Idle]
    BY DEF Record
<1>4. /\ month \in 1..Months /\ allSince \in [1..Months -> Nat]
      /\ siteSince \in [1..Months -> [Sites -> Nat]] /\ call \in [Callers -> CallShapes]
      /\ Tallied
    BY <1>1 DEF Shaped
<1>5. /\ allSince' = [k \in 1..Months |-> IF k <= month THEN allSince[k] + cost ELSE allSince[k]]
      /\ siteSince' = [k \in 1..Months |-> [s \in Sites |->
           IF k <= month /\ s = r.scope THEN siteSince[k][s] + cost ELSE siteSince[k][s]]]
    BY DEF Record, Counts
<1>6. \A k \in 1..Months :
          /\ allSince[k] \in Nat
          /\ allSince'[k] = IF k <= month THEN allSince[k] + cost ELSE allSince[k]
          /\ \A s \in Sites :
               /\ siteSince[k][s] \in Nat
               /\ siteSince'[k][s] =
                    IF k <= month /\ s = r.scope THEN siteSince[k][s] + cost ELSE siteSince[k][s]
    BY <1>4, <1>5
<1> HIDE DEF cost
<1>7. call'[c] = Idle /\ \A b \in Callers : b # c => call'[b] = call[b]
    BY <1>3, <1>4
<1>8. Shaped'
    <2>1. Idle \in CallShapes
        BY <1>1, IdleIsFine
    <2>2. call' \in [Callers -> CallShapes]
        BY <1>3, <1>4, <2>1
    <2>3. allSince' \in [1..Months -> Nat] /\ siteSince' \in [1..Months -> [Sites -> Nat]]
        BY <1>2, <1>4, <1>5
    <2>4. Tallied'
        BY <1>3, <1>4 DEF Tallied
    <2> QED
        BY <1>1, <1>3, <1>4, <2>2, <2>3, <2>4 DEF Shaped
<1>9. Sums'
    <2>1. ASSUME NEW k \in 1..Months, NEW j \in 1..Months, k <= j
          PROVE  allSince'[j] <= allSince'[k] /\ \A s \in Sites : siteSince'[j][s] <= siteSince'[k][s]
        <3>1. allSince[j] <= allSince[k] /\ \A s \in Sites : siteSince[j][s] <= siteSince[k][s]
            BY <1>1, <2>1 DEF Sums
        <3>2. j <= month => k <= month
            BY <1>4, <2>1
        <3> HIDE DEF r
        <3> QED
            BY <1>2, <1>6, <3>1, <3>2
    <2>2. ASSUME NEW k \in 1..Months, k > month
          PROVE  allSince'[k] = 0 /\ \A s \in Sites : siteSince'[k][s] = 0
        <3>1. allSince[k] = 0 /\ (\A s \in Sites : siteSince[k][s] = 0) /\ ~(k <= month)
            BY <1>1, <1>4, <2>2 DEF Sums
        <3> HIDE DEF r
        <3> QED
            BY <1>6, <3>1
    <2> QED
        BY <1>3, <2>1, <2>2 DEF Sums
<1>10. ASSUME NEW b \in Callers PROVE Fine(call[b])'
    <2>1. CASE b = c
        <3>1. Fine(Idle)
            BY <1>1, IdleIsFine
        <3>2. Idle.since <= month /\ Idle.pc = "idle" /\ Idle.late = FALSE
            BY <3>1 DEF Fine, Idle
        <3> QED
            BY <1>3, <1>7, <2>1, <3>2 DEF Fine, Priced, Routed, Remembered, Reading
    <2>2. CASE b # c
        <3> DEFINE w == call[b]
        <3>1. Fine(w) /\ w \in CallShapes /\ call'[b] = w
            BY <1>1, <1>4, <1>7, <2>2
        <3>2. w.since \in 1..Months /\ (w.scope # None => w.scope \in Sites)
            BY <3>1 DEF CallShapes, Scopes
        <3>3. UsedUp(GlobalCap, allSince[w.since]) => UsedUp(GlobalCap, allSince'[w.since])
            <4>1. allSince[w.since] \in Nat /\ allSince'[w.since] >= allSince[w.since]
                BY <1>2, <1>6, <3>2
            <4>2. allSince'[w.since] \in Nat
                BY <1>8, <3>2 DEF Shaped
            <4> QED
                BY <4>1, <4>2, ClientAssumption DEF UsedUp
        <3>4. ASSUME w.scope # None
              PROVE  UsedUp(SiteCap[w.scope], siteSince[w.since][w.scope])
                     => UsedUp(SiteCap[w.scope], siteSince'[w.since][w.scope])
            <4>1. w.scope \in Sites
                BY <3>2, <3>4
            <4>2. siteSince[w.since][w.scope] \in Nat /\ SiteCap[w.scope] \in Nat
                BY <1>6, <3>2, <4>1, ClientAssumption
            <4>3. siteSince'[w.since][w.scope] =
                      IF w.since <= month /\ w.scope = r.scope
                      THEN siteSince[w.since][w.scope] + cost ELSE siteSince[w.since][w.scope]
                BY <1>6, <3>2, <4>1
            <4> HIDE DEF w, r
            <4> QED
                BY <1>2, <4>2, <4>3 DEF UsedUp
        <3>5. Remembered(call[b])'
            <4>1. Remembered(w)
                BY <3>1 DEF Fine
            <4> QED
                BY <3>1, <3>3, <3>4, <4>1 DEF Remembered
        <3> QED
            BY <1>3, <3>1, <3>5 DEF Fine, Priced, Routed
    <2> QED
        BY <2>1, <2>2
<1>11. Spending'
    <2>1. ~Moves(Idle) /\ \A s : ~MovesAt(Idle, s)
        BY <1>1, IdleIsFine
    <2>2. Moves(r)
        BY <1>2 DEF Moves
    <2> DEFINE S == {b \in Callers : Moves(call[b])}
               T == {b \in Callers : Moves(call'[b])}
    <2>3. Bounded(GlobalCap, allSince'[month], T)
        <3>1. /\ S \in SUBSET Callers /\ c \in S /\ T \in SUBSET (S \ {c})
            BY <1>7, <2>1, <2>2
        <3>2. Bounded(GlobalCap, allSince[month], S) /\ allSince[month] \in Nat /\ GlobalCap \in Nat
            BY <1>1, <1>4, ClientAssumption DEF Spending
        <3>3. allSince'[month] = allSince[month] + cost
            BY <1>4, <1>6
        <3> HIDE DEF S, T
        <3> QED
            BY <1>2, <3>1, <3>2, <3>3, BoundedSpend
    <2>4. ASSUME NEW s \in Sites
          PROVE  Bounded(SiteCap[s], siteSince'[month][s], {b \in Callers : MovesAt(call'[b], s)})
        <3> DEFINE SS == {b \in Callers : MovesAt(call[b], s)}
                   TT == {b \in Callers : MovesAt(call'[b], s)}
        <3>1. Bounded(SiteCap[s], siteSince[month][s], SS) /\ siteSince[month][s] \in Nat
              /\ SiteCap[s] \in Nat
            BY <1>1, <1>4, ClientAssumption DEF Spending
        <3>2. /\ SS \in SUBSET Callers /\ TT \in SUBSET (SS \ {c}) /\ TT \in SUBSET Callers
              /\ TT \subseteq SS
            BY <1>7, <2>1
        <3>3. CASE s = r.scope
            <4>1. c \in SS
                BY <1>2, <3>3 DEF MovesAt
            <4>2. siteSince'[month][s] = siteSince[month][s] + cost
                BY <1>4, <1>6, <3>3
            <4> HIDE DEF SS, TT
            <4>3. Bounded(SiteCap[s], siteSince[month][s] + cost, TT)
                BY <1>2, <3>1, <3>2, <4>1, BoundedSpend
            <4> QED
                BY <4>2, <4>3 DEF TT
        <3>4. CASE s # r.scope
            <4>1. siteSince'[month][s] = siteSince[month][s]
                BY <1>4, <1>6, <3>4
            <4> HIDE DEF SS, TT
            <4>2. Bounded(SiteCap[s], siteSince[month][s], TT)
                BY <3>1, <3>2, BoundedFewer
            <4> QED
                BY <4>1, <4>2 DEF TT
        <3> QED
            BY <3>3, <3>4
    <2>5. /\ {b \in Callers : Moves(call[b])'} = T
          /\ \A s \in Sites : {b \in Callers : MovesAt(call[b], s)'} = {b \in Callers : MovesAt(call'[b], s)}
        BY DEF Moves, MovesAt
    <2> QED
        BY <1>3, <2>3, <2>4, <2>5 DEF Spending, Bounded
<1> QED
    BY <1>8, <1>9, <1>10, <1>11 DEF IInv

LEMMA NewMonthHolds == ASSUME IInv, NewMonth PROVE IInv'
<1>1. Shaped /\ Sums /\ (\A b \in Callers : Fine(call[b])) /\ Spending
    BY DEF IInv
<1>2. /\ month < Months /\ left.turns > 0 /\ left' = [left EXCEPT !.turns = @ - 1]
      /\ month' = month + 1 /\ UNCHANGED <<siteSince, allSince, call, setup, billed>>
    BY DEF NewMonth
<1>3. month \in 1..Months /\ month' \in 1..Months /\ month' > month /\ month' \in Nat /\ month \in Nat
    BY <1>1, <1>2, ClientAssumption DEF Shaped
<1>4. Tallied'
    <2>1. Tallied
        BY <1>1 DEF Shaped
    <2>2. left.turns \in Nat /\ left.turns - 1 \in Nat
        BY <1>2, <2>1 DEF Tallied
    <2> QED
        BY <1>2, <2>1, <2>2 DEF Tallied
<1>5. Shaped'
    BY <1>1, <1>2, <1>3, <1>4 DEF Shaped
<1>6. Sums'
    <2>1. \A k \in 1..Months : k > month' => k > month
        BY <1>3
    <2> QED
        BY <1>1, <1>2, <2>1 DEF Sums
<1>7. ASSUME NEW b \in Callers PROVE Fine(call[b])'
    <2>1. Fine(call[b]) /\ call[b].since \in 1..Months
        BY <1>1 DEF Shaped, CallShapes
    <2>2. call[b].since <= month'
        BY <1>3, <2>1 DEF Fine
    <2> QED
        BY <1>2, <2>1, <2>2 DEF Fine, Priced, Routed, Remembered
<1>8. Spending'
    <2>1. allSince[month'] = 0 /\ \A s \in Sites : siteSince[month'][s] = 0
        BY <1>1, <1>3 DEF Sums
    <2> QED
        BY <1>2, <2>1, ClientAssumption DEF Spending, Bounded
<1> QED
    BY <1>5, <1>6, <1>7, <1>8 DEF IInv

LEMMA StepHolds == IInv /\ [Next]_vars => IInv'
<1> SUFFICES ASSUME IInv, [Next]_vars PROVE IInv'
    OBVIOUS
<1>1. CASE UNCHANGED vars
    BY <1>1 DEF vars, IInv, Shaped, Tallied, Sums, Fine, Priced, Routed, Remembered, Spending,
                Bounded, Moves, MovesAt
<1>2. CASE \E c \in Callers, kind \in Kinds, scope \in Scopes : Ask(c, kind, scope)
    BY <1>2, AskHolds
<1>3. CASE \E c \in Callers : CallStep(c)
    <2>1. PICK c \in Callers : CallStep(c)
        BY <1>3
    <2>2. CASE ReadSite(c) \/ ReadAll(c) \/ Guard(c) \/ Record(c) \/ Fatal(c)
        BY <2>2, ReadSiteHolds, ReadAllHolds, GuardHolds, RecordHolds, FatalHolds
    <2>3. CASE RecordLost(c)
        <3>1. Tallied'
            <4>1. Tallied
                BY DEF IInv, Shaped
            <4>2. left.lost \in Nat /\ left.lost - 1 \in Nat
                BY <2>3, <4>1 DEF Tallied, RecordLost
            <4> QED
                BY <2>3, <4>1, <4>2 DEF Tallied, RecordLost
        <3> QED
            BY <2>3, <3>1, LetGo DEF RecordLost
    <2>4. CASE EmbedFails(c)
        <3>1. Tallied'
            BY <2>4 DEF EmbedFails, IInv, Shaped, Tallied
        <3> QED
            BY <2>4, <3>1, LetGo DEF EmbedFails
    <2>5. CASE Transient(c)
        <3>1. Tallied'
            BY <2>5 DEF Transient, IInv, Shaped, Tallied
        <3>2. AttemptFails(c, 0) /\ call[c].pc = "provider" /\ call[c].kind \in {"text", "structured"}
              /\ UNCHANGED <<month, siteSince, allSince, setup>>
            BY <2>5 DEF Transient, Asked
        <3>3. 0 \in Nat
            OBVIOUS
        <3> QED
            BY ONLY <3>1, <3>2, <3>3, IInv, c \in Callers, AttemptFailsHolds
    <2>6. CASE \E price \in Prices :
                 Answered(c, price) \/ Invalid(c, price) \/ Unparseable(c, price) \/ EmbedBatch(c, price)
        <3>1. PICK price \in Prices :
                 Answered(c, price) \/ Invalid(c, price) \/ Unparseable(c, price) \/ EmbedBatch(c, price)
            BY <2>6
        <3>2. CASE Unparseable(c, price)
            <4>1. Tallied'
                BY <3>2, BillHolds DEF Unparseable
            <4>2. AttemptFails(c, 1) /\ call[c].pc = "provider" /\ call[c].kind \in {"text", "structured"}
                  /\ UNCHANGED <<month, siteSince, allSince, setup>>
                BY <3>2 DEF Unparseable, Asked
            <4>3. 1 \in Nat
                OBVIOUS
            <4> QED
                BY ONLY <4>1, <4>2, <4>3, IInv, c \in Callers, AttemptFailsHolds
        <3> QED
            BY <3>1, <3>2, AnsweredHolds, InvalidHolds, EmbedBatchHolds
    <2> QED
        BY <2>1, <2>2, <2>3, <2>4, <2>5, <2>6 DEF CallStep
<1>4. CASE NewMonth
    BY <1>4, NewMonthHolds
<1> QED
    BY <1>1, <1>2, <1>3, <1>4 DEF Next

-----------------------------------------------------------------------------
(* What holds of the client *)

(* TypeOK with Nat for the bound on sums: every call, whatever interrupts it, *)
(* is at a step the facade has, with a route and a cost of the right kind.    *)
THEOREM TypeCorrect == Spec => []Shaped
<1>1. Init => IInv
    BY InitHolds
<1>2. IInv /\ [Next]_vars => IInv'
    BY StepHolds
<1>3. IInv => Shaped
    BY DEF IInv
<1> QED
    BY <1>1, <1>2, <1>3, PTL DEF Spec

(* A used-up budget refuses every later call (assertWithinBudget), whatever   *)
(* other callers record, and even if the month turns, while it is being asked.*)
THEOREM CapRefuses == Spec => []NothingAfterTheCap
<1>1. Init => IInv
    BY InitHolds
<1>2. IInv /\ [Next]_vars => IInv'
    BY StepHolds
<1>3. IInv => NothingAfterTheCap
    BY DEF IInv, Fine, Remembered, Reading, NothingAfterTheCap
<1> QED
    BY <1>1, <1>2, <1>3, PTL DEF Spec

(* However many processes check before they spend (prepare, recordUsage), the *)
(* recorded sum passes a budget by one call of each of them at most.          *)
THEOREM OvershootLimited == Spec => []OvershootBounded
<1>1. Init => IInv
    BY InitHolds
<1>2. IInv /\ [Next]_vars => IInv'
    BY StepHolds
<1>3. IInv => OvershootBounded
    <2> SUFFICES ASSUME IInv PROVE OvershootBounded
        OBVIOUS
    <2>1. /\ month \in 1..Months /\ allSince[month] \in Nat /\ GlobalCap \in Nat
          /\ \A s \in Sites : siteSince[month][s] \in Nat /\ SiteCap[s] \in Nat
        BY ClientAssumption DEF IInv, Shaped
    <2>2. ASSUME GlobalCap > 0 PROVE allSince[month] <= GlobalCap - 1 + Overshoot
        <3> DEFINE S == {c \in Callers : Moves(call[c])}
        <3>1. Bounded(GlobalCap, allSince[month], S) /\ S \in SUBSET Callers
            BY DEF IInv, Spending
        <3> HIDE DEF S
        <3> QED
            BY <2>1, <2>2, <3>1, BoundedIsBounded
    <2>3. ASSUME NEW s \in Sites, SiteCap[s] > 0
          PROVE  siteSince[month][s] <= SiteCap[s] - 1 + Overshoot
        <3> DEFINE S == {c \in Callers : MovesAt(call[c], s)}
        <3>1. Bounded(SiteCap[s], siteSince[month][s], S) /\ S \in SUBSET Callers
            BY DEF IInv, Spending
        <3> HIDE DEF S
        <3> QED
            BY <2>1, <2>3, <3>1, BoundedIsBounded
    <2> QED
        BY <2>2, <2>3 DEF OvershootBounded
<1> QED
    BY <1>1, <1>2, <1>3, PTL DEF Spec

(* Every call goes to a provider with a key, with a model it has, and where   *)
(* its call site pinned it (resolveModel), and one key is enough to find one. *)
THEOREM RoutesAreSound == Spec => []RouteSound
<1>1. Init => IInv
    BY InitHolds
<1>2. IInv /\ [Next]_vars => IInv'
    BY StepHolds
<1>3. IInv => RouteSound
    <2> SUFFICES ASSUME IInv PROVE RouteSound
        OBVIOUS
    <2>1. setup \in SetupRecords
        BY DEF IInv, Shaped
    <2>2. ASSUME NEW c \in Callers, call[c].pc \in {"provider", "record"}
          PROVE  RouteFits(call[c].route)
        <3>1. call[c].route = Route(setup) /\ Route(setup) # NoRoute
            BY <2>2 DEF IInv, Fine, Routed
        <3> QED
            BY <2>1, <3>1, RoutesFit DEF RouteFits
    <2>3. KeySuffices
        BY <2>1, RoutesFit DEF KeySuffices, Able
    <2> QED
        BY <2>2, <2>3 DEF RouteSound
<1> QED
    BY <1>1, <1>2, <1>3, PTL DEF Spec
=============================================================================

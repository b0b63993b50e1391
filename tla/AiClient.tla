------------------------------ MODULE AiClient ------------------------------
(* Calls of language models and what they cost: the facade of                 *)
(* packages/ai/src/client.ts and embeddings.ts, the repair loop of            *)
(* structured.ts, and the monthly budget of usage.ts, shared by every process *)
(* through the AiUsage table.  The budget is read before a call and the cost  *)
(* recorded after it.                                                         *)
(*                                                                            *)
(* siteSince[k][s] and allSince[k] are the sums of the rows created since the *)
(* start of month k, which is what the guard asks the database for.           *)
EXTENDS AiRouting, FiniteSets

CONSTANTS
    Sites, Callers,
    SiteCap, GlobalCap,     \* monthly budgets; 0 is none
    Prices,                 \* what an answer of a provider may cost
    Attempts, Repairs,      \* of the retry and of the repair loop
    Batches,                \* of an embedding call
    Months,                 \* 1..Months are looked at
    MaxSpend,               \* the type invariant's bound on a sum
    Scales                  \* the sizes to look at

Scopes == Sites \cup {None}
Kinds  == {"text", "structured", "stream", "embed"}

(* How many calls and of which kinds, by whom, how many usage rows cannot be  *)
(* written, how often the month turns, and what is configured.                *)
ScaleRecords ==
    [calls : Nat, lost : Nat, turns : Nat, kinds : SUBSET Kinds, callers : SUBSET Callers,
     setups : SUBSET SetupRecords]

ASSUME ClientAssumption ==
    /\ SiteCap \in [Sites -> Nat] /\ GlobalCap \in Nat
    /\ Prices \subseteq Nat /\ \E dearest \in Prices : \A price \in Prices : price <= dearest
    /\ IsFiniteSet(Callers)
    /\ Attempts \in Nat \ {0} /\ Repairs \in Nat /\ Batches \in Nat \ {0}
    /\ Months \in Nat \ {0} /\ MaxSpend \in Nat
    /\ None \notin Sites
    /\ Scales \subseteq ScaleRecords

VARIABLES
    month,
    siteSince, allSince,    \* the AiUsage table
    call,                   \* where each caller is inside its call
    left,                   \* what of the scale may still happen
    setup,                  \* the keys and stored preferences
    billed                  \* history: what the providers charged since each month's start

vars == <<month, siteSince, allSince, call, left, setup, billed>>

Idle ==
    [pc |-> "idle", kind |-> "text", scope |-> None, since |-> 1, site |-> 0, all |-> 0,
     attempt |-> 0, repair |-> 0, done |-> 0, cost |-> 0, answers |-> 0, route |-> NoRoute,
     late |-> FALSE]

Init ==
    /\ month = 1
    /\ siteSince = [k \in 1..Months |-> [s \in Sites |-> 0]]
    /\ allSince = [k \in 1..Months |-> 0]
    /\ call = [c \in Callers |-> Idle]
    /\ \E scale \in Scales :
         /\ left = [calls |-> scale.calls, lost |-> scale.lost, turns |-> scale.turns, kinds |-> scale.kinds,
                    callers |-> scale.callers]
         /\ setup \in scale.setups
    /\ billed = [k \in 1..Months |-> 0]

(* A row created now counts since the start of this month and of all before.  *)
Counts(k) == k <= month

Capped(scope) == scope # None /\ SiteCap[scope] > 0

(* Mutant: a budget may be used up and one call more.                         *)
UsedUpLate(cap, spend) == cap > 0 /\ spend > cap

UsedUp(cap, spend) == cap > 0 /\ spend >= cap

CapReached(scope, k) ==
    \/ scope # None /\ UsedUp(SiteCap[scope], siteSince[k][scope])
    \/ UsedUp(GlobalCap, allSince[k])

-----------------------------------------------------------------------------
(* assertWithinBudget: two sums, read side by side since the month began.     *)

Ask(c, kind, scope) ==
    /\ call[c].pc = "idle"
    /\ c \in left.callers /\ kind \in left.kinds
    /\ (kind = "embed") = (setup.role = "embedding")
    /\ left.calls > 0
    /\ left' = [left EXCEPT !.calls = @ - 1]
    /\ call' = [call EXCEPT ![c] =
         [Idle EXCEPT !.pc = "site", !.kind = kind, !.scope = scope, !.since = month,
                      !.late = CapReached(scope, month)]]
    /\ UNCHANGED <<month, siteSince, allSince, setup, billed>>

ReadSite(c) ==
    /\ call[c].pc \in {"site", "both"}
    /\ call' = [call EXCEPT ![c].pc = IF @ = "site" THEN "all" ELSE "guard",
         ![c].site = IF call[c].scope = None THEN 0 ELSE siteSince[call[c].since][call[c].scope]]
    /\ UNCHANGED <<month, siteSince, allSince, left, setup, billed>>

ReadAll(c) ==
    /\ call[c].pc \in {"site", "all"}
    /\ call' = [call EXCEPT ![c].pc = IF @ = "site" THEN "both" ELSE "guard",
         ![c].all = allSince[call[c].since]]
    /\ UNCHANGED <<month, siteSince, allSince, left, setup, billed>>

(* Mutant: the install's budget is for calls that name no site.               *)
ExceededOneScope(c) ==
    IF call[c].scope = None THEN UsedUp(GlobalCap, call[c].all)
    ELSE UsedUp(SiteCap[call[c].scope], call[c].site)

(* The install's budget, and the site's when it has one.                      *)
Exceeded(c) ==
    \/ UsedUp(GlobalCap, call[c].all)
    \/ Capped(call[c].scope) /\ UsedUp(SiteCap[call[c].scope], call[c].site)

(* A call that is refused, or that finds no provider, leaves no row.          *)
Guard(c) ==
    /\ call[c].pc = "guard"
    /\ call' = [call EXCEPT ![c] =
         IF Exceeded(c) \/ Route(setup) = NoRoute THEN Idle
         ELSE [@ EXCEPT !.pc = "provider", !.attempt = 1, !.route = Route(setup)]]
    /\ UNCHANGED <<month, siteSince, allSince, left, setup, billed>>

-----------------------------------------------------------------------------
(* The provider's answer. *)

Bill(price) == billed' = [k \in 1..Months |-> IF Counts(k) THEN billed[k] + price ELSE billed[k]]

Asked(c, kinds) == call[c].pc = "provider" /\ call[c].kind \in kinds

(* A good answer.  The cost of a structured answer includes those that had to *)
(* be repaired on the way to it; a stream carries no token count.             *)
Answered(c, price) ==
    /\ Asked(c, {"text", "structured", "stream"})
    /\ Bill(price)
    /\ call' = [call EXCEPT ![c].pc = "record", ![c].answers = @ + 1,
         ![c].cost = IF call[c].kind = "stream" THEN 0 ELSE @ + price]
    /\ UNCHANGED <<month, siteSince, allSince, left, setup>>

MayRepair(c) == call[c].repair < Repairs

(* An answer that parses and does not validate is repaired, and after the     *)
(* last repair the call fails; its row then says that it cost nothing.        *)
Invalid(c, price) ==
    /\ Asked(c, {"structured"})
    /\ Bill(price)
    /\ LET r == call[c]
       IN call' = [call EXCEPT ![c] =
            IF MayRepair(c)
            THEN [r EXCEPT !.repair = r.repair + 1, !.cost = r.cost + price,
                           !.answers = r.answers + 1]
            ELSE [r EXCEPT !.pc = "record", !.cost = 0, !.answers = r.answers + 1]]
    /\ UNCHANGED <<month, siteSince, allSince, left, setup>>

MayRetry(c) == call[c].attempt < Attempts

(* Mutant: after the last attempt the first is made again.                    *)
AttemptFailsAfresh(c, answered) ==
    call' = [call EXCEPT ![c] =
        [@ EXCEPT !.attempt = IF MayRetry(c) THEN @ + 1 ELSE 1, !.repair = 0, !.cost = 0,
                  !.answers = 0]]

(* An attempt that failed is made again, its repairs and their cost forgotten.*)
AttemptFails(c, answered) ==
    LET r == call[c]
        n == r.answers + answered
    IN call' = [call EXCEPT ![c] =
         IF MayRetry(c)
         THEN [r EXCEPT !.attempt = r.attempt + 1, !.repair = 0, !.cost = 0, !.answers = n]
         ELSE [r EXCEPT !.pc = "record", !.cost = 0, !.answers = n]]

(* A transient failure, of the network or of the provider.                    *)
Transient(c) ==
    /\ Asked(c, {"text", "structured"})
    /\ AttemptFails(c, 0)
    /\ UNCHANGED <<month, siteSince, allSince, left, setup, billed>>

(* An answer that does not parse is taken for one.                            *)
Unparseable(c, price) ==
    /\ Asked(c, {"structured"})
    /\ Bill(price)
    /\ AttemptFails(c, 1)
    /\ UNCHANGED <<month, siteSince, allSince, left, setup>>

(* A failure that is not retried, an aborted call, a stream that breaks off.  *)
Fatal(c) ==
    /\ Asked(c, {"text", "structured", "stream"})
    /\ call' = [call EXCEPT ![c].pc = "record", ![c].cost = 0]
    /\ UNCHANGED <<month, siteSince, allSince, left, setup, billed>>

(* Embedding: batch after batch, in any order, each tried once; a failure     *)
(* leaves no row for the batches that were charged (those still on their way  *)
(* are left out).                                                             *)
EmbedBatch(c, price) ==
    /\ Asked(c, {"embed"})
    /\ Bill(price)
    /\ call' = [call EXCEPT ![c].done = @ + 1, ![c].cost = @ + price, ![c].answers = @ + 1,
         ![c].pc = IF call[c].done + 1 = Batches THEN "record" ELSE @]
    /\ UNCHANGED <<month, siteSince, allSince, left, setup>>

EmbedFails(c) ==
    /\ Asked(c, {"embed"})
    /\ call' = [call EXCEPT ![c] = Idle]
    /\ UNCHANGED <<month, siteSince, allSince, left, setup, billed>>

-----------------------------------------------------------------------------
(* recordUsage, which may fail and says nothing then. *)

Record(c) ==
    LET cost == call[c].cost
    IN /\ call[c].pc = "record"
       /\ siteSince' = [k \in 1..Months |-> [s \in Sites |->
            IF Counts(k) /\ s = call[c].scope THEN siteSince[k][s] + cost ELSE siteSince[k][s]]]
       /\ allSince' = [k \in 1..Months |-> IF Counts(k) THEN allSince[k] + cost ELSE allSince[k]]
       /\ call' = [call EXCEPT ![c] = Idle]
       /\ UNCHANGED <<month, left, setup, billed>>

RecordLost(c) ==
    /\ call[c].pc = "record"
    /\ left.lost > 0
    /\ left' = [left EXCEPT !.lost = @ - 1]
    /\ call' = [call EXCEPT ![c] = Idle]
    /\ UNCHANGED <<month, siteSince, allSince, setup, billed>>

NewMonth ==
    /\ month < Months
    /\ left.turns > 0
    /\ left' = [left EXCEPT !.turns = @ - 1]
    /\ month' = month + 1
    /\ UNCHANGED <<siteSince, allSince, call, setup, billed>>

CallStep(c) ==
    \/ ReadSite(c) \/ ReadAll(c) \/ Guard(c) \/ Record(c) \/ RecordLost(c)
    \/ Transient(c) \/ Fatal(c) \/ EmbedFails(c)
    \/ \E price \in Prices :
         Answered(c, price) \/ Invalid(c, price) \/ Unparseable(c, price) \/ EmbedBatch(c, price)

Next ==
    \/ \E c \in Callers, kind \in Kinds, scope \in Scopes : Ask(c, kind, scope)
    \/ \E c \in Callers : CallStep(c)
    \/ NewMonth

Spec == Init /\ [][Next]_vars

(* A call goes on until it ends; what the provider answers is open.           *)
FairSpec == Spec /\ \A c \in Callers : WF_vars(CallStep(c))

-----------------------------------------------------------------------------
(* Properties. *)

(* The type invariant. *)
CallRecords ==
    [pc : {"idle", "site", "all", "both", "guard", "provider", "record"}, kind : Kinds,
     scope : Scopes, since : 1..Months, site : 0..MaxSpend, all : 0..MaxSpend,
     attempt : 0..Attempts, repair : 0..Repairs, done : 0..Batches, cost : 0..MaxSpend,
     answers : 0..MaxSpend, route : RouteRecords, late : BOOLEAN]

TypeOK ==
    /\ month \in 1..Months
    /\ siteSince \in [1..Months -> [Sites -> 0..MaxSpend]]
    /\ allSince \in [1..Months -> 0..MaxSpend]
    /\ call \in [Callers -> CallRecords]
    /\ left.calls \in Nat /\ left.lost \in Nat /\ left.turns \in Nat
    /\ setup \in SetupRecords
    /\ billed \in [1..Months -> 0..MaxSpend]

(* A budget that is used up when a call is made lets no provider be asked for *)
(* it: "once this month's spend reaches a cap", for both scopes and whatever  *)
(* the other callers record in between.  A call that began before the month   *)
(* turned is measured against the month it began in.                          *)
NothingAfterTheCap ==
    \A c \in Callers : call[c].late => call[c].pc \in {"site", "all", "both", "guard"}

(* What is recorded in a month exceeds a budget by what was under way when it *)
(* was reached, one call of each caller, and by no more: the sum of what is   *)
(* recorded and of what waits to be.                                          *)
Dearest == CHOOSE p \in Prices : \A q \in Prices : q <= p
CallCost == Dearest * (IF Repairs + 1 > Batches THEN Repairs + 1 ELSE Batches)
Overshoot == Cardinality(Callers) * CallCost

OvershootBounded ==
    /\ GlobalCap > 0 => allSince[month] <= GlobalCap - 1 + Overshoot
    /\ \A s \in Sites :
         SiteCap[s] > 0 => siteSince[month][s] <= SiteCap[s] - 1 + Overshoot

(* A call is sent to a provider with a key, with a model that is that         *)
(* provider's or nobody's; one that names its provider is sent nowhere else.  *)
RouteFits(r) ==
    /\ r.provider \in setup.keys
    /\ r.model # NoModel /\ r.model.owner \in {r.provider, None}
    /\ setup.role = "chat" => r.pinned \in {None, r.provider}

(* "Revoking one key does not take the platform down": with a key for the     *)
(* role and no pin of the call site there is a route.                         *)
KeySuffices ==
    (\E p \in setup.keys : DefaultModel(p, setup.role) # NoModel) /\ setup.provider[1] = None
    => Route(setup) # NoRoute

RouteSound ==
    /\ \A c \in Callers : call[c].pc \in {"provider", "record"} => RouteFits(call[c].route)
    /\ KeySuffices

(* A call ends, however its provider answers. *)
CallsEnd == \A c \in Callers : []<>(call[c].pc = "idle")

(* "A call-site override is a hard requirement": whatever the role.           *)
PinHolds == \A c \in Callers : call[c].route.pinned \in {None, call[c].route.provider}

(* "A runaway loop throttles itself within one call of crossing the cap":     *)
(* what is charged, with one caller.                                          *)
SpendBounded == GlobalCap > 0 => billed[month] <= GlobalCap - 1 + CallCost

(* "The self-repair loop handles a malformed answer; this layer only retries  *)
(* genuine transport failures": what is charged for one call.                 *)
MalformedRepaired == \A c \in Callers : call[c].kind = "structured" =>
    call[c].answers <= (Attempts - 1) * Repairs + Repairs + 1
=============================================================================

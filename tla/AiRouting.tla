----------------------------- MODULE AiRouting -----------------------------
(* Which provider and model an AI call is sent to: resolveModel of            *)
(* packages/ai/src/registry.ts.  A model stands for its id: its owner, as     *)
(* providerOfModel judges it, and whether it is the built-in one.             *)
EXTENDS Sequences, Integers

Providers == {"anthropic", "openai", "gemini"}
Roles     == {"chat", "embedding"}
None      == "none"

Models == [owner : Providers \cup {None}, builtIn : BOOLEAN]
NoModel == [owner |-> None, builtIn |-> TRUE]   \* no id at all

ProviderOrder == <<"anthropic", "openai", "gemini">>

(* What is stored and configured: the keys of the install, and the pins of    *)
(* the call site, the site, the operator and the environment, in that order.  *)
(* "bogus" is an id that no provider has.                                     *)
SetupRecords ==
    [keys : SUBSET Providers, role : Roles,
     provider : [1..4 -> Providers \cup {None, "bogus"}],
     model : [1..3 -> Models]]

NoRoute == [provider |-> None, model |-> NoModel, pinned |-> None]
RouteRecords ==
    [provider : Providers \cup {None}, model : Models, pinned : Providers \cup {None}]

First(hits) == IF hits = {} THEN 0 ELSE CHOOSE i \in hits : \A j \in hits : i <= j

DefaultModel(p, role) ==
    IF role = "embedding" /\ p = "anthropic" THEN NoModel
    ELSE [owner |-> p, builtIn |-> TRUE]

(* Any configured provider with a model for the role: the environment's       *)
(* first, then the fixed order.                                               *)
FirstConfigured(setup, role) ==
    LET able == {p \in setup.keys : DefaultModel(p, role) # NoModel}
        env  == setup.provider[4]
        i    == First({k \in DOMAIN ProviderOrder : ProviderOrder[k] \in able})
    IN IF env \in able THEN env ELSE IF i = 0 THEN None ELSE ProviderOrder[i]

PickProvider(setup) == First({k \in 1..4 : setup.provider[k] \in Providers})
PickModel(setup) == First({k \in 1..3 : setup.model[k] # NoModel})

(* The provider before the model is looked at: a pin of the call site is a    *)
(* requirement, a stored preference degrades to any configured provider.      *)
Preferred(setup) ==
    LET i == PickProvider(setup)
    IN CASE i > 0 /\ setup.provider[i] \in setup.keys -> setup.provider[i]
         [] i = 1 /\ setup.provider[1] \notin setup.keys -> None
         [] OTHER -> FirstConfigured(setup, "chat")

(* A model that belongs to another configured provider takes the call there,  *)
(* unless the call site named a provider.                                     *)
Rerouted(setup, picked) ==
    IF setup.provider[1] = None /\ picked.owner \in setup.keys /\ Preferred(setup) # None
    THEN picked.owner ELSE Preferred(setup)

(* Embeddings leave a provider that has none.                                 *)
Capable(setup, p) ==
    IF p # None /\ DefaultModel(p, setup.role) = NoModel
    THEN FirstConfigured(setup, setup.role) ELSE p

(* Mutant: the model that was picked is sent wherever the call goes.          *)
FitsAlways(picked, p) == picked # NoModel

Fits(picked, p) == picked # NoModel /\ picked.owner \in {p, None}

Route(setup) ==
    LET i      == PickModel(setup)
        picked == IF i = 0 THEN NoModel ELSE setup.model[i]
        p      == Capable(setup, Rerouted(setup, picked))
    IN IF p = None THEN NoRoute
       ELSE [provider |-> p,
             model |-> IF Fits(picked, p) THEN picked ELSE DefaultModel(p, setup.role),
             pinned |-> IF setup.provider[1] \in Providers THEN setup.provider[1] ELSE None]
=============================================================================

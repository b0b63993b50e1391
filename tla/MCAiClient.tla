----------------------------- MODULE MCAiClient -----------------------------
(* The sizes that a .cfg names: concurrent calls of every kind; a structured  *)
(* call of every shape and a stream; embeddings; and one call for every       *)
(* combination of keys, preferences and models.                               *)
EXTENDS AiClient, TLC

CONSTANTS c1, c2, s1, s2

Plain == [keys |-> {"anthropic"}, role |-> "chat", provider |-> [i \in 1..4 |-> None],
          model |-> [i \in 1..3 |-> NoModel]]
Embedding == [Plain EXCEPT !.keys = {"anthropic", "openai"}, !.role = "embedding"]

Picked == [owner : Providers \cup {None}, builtIn : {FALSE}]
Setups ==
    [keys : SUBSET Providers, role : Roles,
     provider : {[i \in 1..4 |-> CASE i = 1 -> over [] i = 4 -> env [] i = 2 -> site [] OTHER -> None] :
                   over \in {None, "bogus", "anthropic", "openai"}, site \in {None, "openai"},
                   env \in {None, "bogus", "gemini"}},
     model : {[i \in 1..3 |-> IF i = k THEN m ELSE NoModel] :
                   k \in {1, 3}, m \in {NoModel} \cup Picked}]

MCCap == [s \in Sites |-> IF s = s1 THEN 1 ELSE 0]

Scale(calls, lost, turns, kinds, callers, setups) ==
    [calls |-> calls, lost |-> lost, turns |-> turns, kinds |-> kinds, callers |-> callers,
     setups |-> setups]

MCSpend  == {Scale(3, 0, 0, {"structured"}, {c1, c2}, {Plain})}
MCMonth  == {Scale(3, 0, 1, {"text"}, {c1, c2}, {Plain})}
MCMixed  == {Scale(3, 1, 0, {"structured", "text", "stream"}, {c1}, {Plain})}
MCEmbed  == {Scale(2, 0, 0, {"embed"}, {c1, c2}, {Embedding})}
MCRoutes == {Scale(1, 0, 0, {"text", "embed"}, {c1}, Setups)}
MCAll    == MCSpend \cup MCMonth \cup MCMixed \cup MCEmbed \cup MCRoutes
MCOne    == {Scale(4, 0, 0, {"text", "structured"}, {c1}, {Plain})}
=============================================================================

------------------------------ MODULE Semaphore ------------------------------
(* What a bounded-concurrency runner promises, whatever it is made of: at     *)
(* most `permits` users hold a slot, nobody waits while a slot is free, and   *)
(* every user that waits is served.  The limiter the crawl engine runs on     *)
(* (packages/shared/src/concurrency.ts) is shown to implement it.             *)
EXTENDS Integers, FiniteSets

CONSTANT Users

VARIABLES
    permits,   \* how many users may hold a slot, fixed for ever
    waiting,   \* the users that asked and were not served yet
    holding    \* the users that hold a slot

semVars == <<permits, waiting, holding>>

SemInit ==
    /\ permits \in Nat \ {0}
    /\ waiting = {}
    /\ holding = {}

(* Nobody waits beside a free slot, and no slot is given twice. *)
Bounded(w, h) ==
    /\ Cardinality(h) <= permits
    /\ w # {} => Cardinality(h) = permits

(* A batch of users asks at once; those for whom there is a slot get it. *)
Join(batch) ==
    /\ batch \cap (waiting \cup holding) = {}
    /\ \E served \in SUBSET batch :
          /\ holding' = holding \cup served
          /\ waiting' = waiting \cup (batch \ served)
          /\ Bounded(waiting', holding')
    /\ UNCHANGED permits

(* A user gives its slot back, and one that waits takes it over. *)
Leave(u) ==
    /\ u \in holding
    /\ \/ /\ waiting = {}
          /\ holding' = holding \ {u}
          /\ UNCHANGED waiting
       \/ \E w \in waiting :
             /\ holding' = (holding \ {u}) \cup {w}
             /\ waiting' = waiting \ {w}
    /\ UNCHANGED permits

SemNext ==
    \/ \E batch \in (SUBSET Users) \ {{}} : Join(batch)
    \/ \E u \in Users : Leave(u)

SemSpec == SemInit /\ [][SemNext]_semVars

(* Every user that waits gets a slot. *)
Served == \A u \in Users : u \in waiting ~> u \in holding
=============================================================================

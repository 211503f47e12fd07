----------------------------- MODULE EntityRefs ------------------------------
(***************************************************************************)
(* What the reference counts of crates/gpui/src/app/entity_map.rs promise, *)
(* with every operation atomic: an entity lives while it has handles, a    *)
(* weak handle revives nothing, and collection takes exactly the entities  *)
(* whose last handle is gone.                                              *)
(***************************************************************************)
EXTENDS Integers

CONSTANT Ids

VARIABLES
    refs,    \* number of strong handles
    status   \* "unused", "live", "dropped" or "collected"

Init ==
    /\ refs = [id \in Ids |-> 0]
    /\ status = [id \in Ids |-> "unused"]

Create(id) ==
    /\ status[id] = "unused"
    /\ refs' = [refs EXCEPT ![id] = 1]
    /\ status' = [status EXCEPT ![id] = "live"]

Acquire(id) ==
    /\ status[id] = "live"
    /\ refs' = [refs EXCEPT ![id] = @ + 1]
    /\ UNCHANGED status

Release(id) ==
    /\ status[id] = "live"
    /\ refs' = [refs EXCEPT ![id] = @ - 1]
    /\ status' = [status EXCEPT ![id] = IF refs[id] = 1 THEN "dropped" ELSE @]

Collect ==
    /\ \E id \in Ids : status[id] = "dropped"
    /\ status' = [id \in Ids |-> IF status[id] = "dropped" THEN "collected"
                                 ELSE status[id]]
    /\ UNCHANGED refs

Next == Collect \/ \E id \in Ids : Create(id) \/ Acquire(id) \/ Release(id)

Spec == Init /\ [][Next]_<<refs, status>>
=============================================================================

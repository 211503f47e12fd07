---------------------------- MODULE MCEffectCycle ----------------------------
(* Model-checking instances of EffectCycle.  One entity exists at the start    *)
(* and the other does not, so they are not interchangeable and no symmetry is  *)
(* used.  User code follows one workload from the start to the end.            *)
EXTENDS EffectCycle

\* Notifications under nested transactions, borrows and repeated panics.
Notifying ==
    [allowed |-> {"notify", "observe", "drop_subscription", "update_entity", "borrow",
                  "global", "observe_global"},
     calls |-> 3, depth |-> 3, panics |-> 2]

\* An observer that sees several notifications of its entity.
Repeating ==
    [allowed |-> {"notify", "observe", "update_entity"}, calls |-> 4, depth |-> 2, panics |-> 1]

\* Entities created, dropped and released, what listens to their release, and the
\* subscriptions they own.
Releasing ==
    [allowed |-> {"new", "observe_release", "subscribe", "drop_subscription",
                  "update_entity"},
     calls |-> 3, depth |-> 2, panics |-> 1]

\* Events of an entity that may be released.
Emitting ==
    [allowed |-> {"observe_release", "subscribe", "emit", "drop_subscription",
                  "update_entity"},
     calls |-> 3, depth |-> 2, panics |-> 1]

\* Entities created and handed around by deferred callbacks.
Mixed ==
    [allowed |-> {"observe_release", "defer", "new", "acquire", "update_entity"},
     calls |-> 3, depth |-> 2, panics |-> 1]

AllWorkloads == {Notifying, Repeating, Releasing, Emitting, Mixed}
=============================================================================

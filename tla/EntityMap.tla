------------------------------ MODULE EntityMap ------------------------------
(***************************************************************************)
(* crates/gpui/src/app/entity_map.rs: reference counts of entities, shared *)
(* by all threads under an RwLock (parking_lot: readers, one upgradable    *)
(* reader next to them, one writer alone).  Handles are cloned, dropped    *)
(* and upgraded from weak ones on any thread; only the main thread         *)
(* reserves, inserts and collects dropped entities.                        *)
(***************************************************************************)
EXTENDS Integers, Sequences, FiniteSets

CONSTANTS
    Threads,
    Main,        \* the thread that owns App
    Ids,         \* entity ids; a slot map never issues one twice
    NoThread,
    MaxHandles   \* bound on the strong handles of one entity

ASSUME EntityMapAssumption ==
    Main \in Threads /\ NoThread \notin Threads /\ MaxHandles \in Nat /\ Ids # {}

VARIABLES
    present,             \* whether the slot map counts the id: "unused", "counted", "removed"
    count,               \* the AtomicUsize of each id
    dropped_entity_ids,  \* the Vec of ids whose count went to zero
    stored,              \* ids with a value in the entities map
    owned,               \* owned[t][id]: strong handles of thread t
    readers, upgradable, \* holders of the lock
    at                   \* what each thread is doing inside an operation

vars == <<present, count, dropped_entity_ids, stored, owned, readers,
          upgradable, at>>

Resting == [op |-> "rest", id |-> CHOOSE id \in Ids : TRUE, loaded |-> 0]
Doing(op, id, loaded) == [op |-> op, id |-> id, loaded |-> loaded]

Init ==
    /\ present = [id \in Ids |-> "unused"]
    /\ count = [id \in Ids |-> 0]
    /\ dropped_entity_ids = <<>>
    /\ stored = {}
    /\ owned = [t \in Threads |-> [id \in Ids |-> 0]]
    /\ readers = {}
    /\ upgradable = NoThread
    /\ at = [t \in Threads |-> Resting]

Rests(t) == at[t] = Resting

\* A thread that has claimed the write lock keeps new guards out while it waits for
\* the readers to leave.
Claimed == \E t \in Threads : at[t].op \in {"push", "take"}
CanRead == ~Claimed
CanUpgradableRead == ~Claimed /\ upgradable = NoThread
CanWrite == CanUpgradableRead /\ readers = {}

Goes(t, step) == at' = [at EXCEPT ![t] = step]
Own(t, id, n) == owned' = [owned EXCEPT ![t][id] = @ + n]

-----------------------------------------------------------------------------
\* EntityMap::reserve, under the write lock: a fresh id with one handle.
Reserve(id) ==
    /\ Rests(Main)
    /\ CanWrite
    /\ present[id] = "unused"
    /\ present' = [present EXCEPT ![id] = "counted"]
    /\ count' = [count EXCEPT ![id] = 1]
    /\ Own(Main, id, 1)
    /\ UNCHANGED <<dropped_entity_ids, stored, readers, upgradable, at>>

\* EntityMap::insert stores the value of a reserved slot.
Insert(id) ==
    /\ Rests(Main)
    /\ owned[Main][id] > 0
    /\ id \notin stored
    /\ stored' = stored \cup {id}
    /\ UNCHANGED <<present, count, dropped_entity_ids, owned, readers,
                   upgradable, at>>

\* AnyEntity::clone: the read lock is taken ...
CloneBegin(t, id) ==
    /\ Rests(t)
    /\ CanRead
    /\ owned[t][id] > 0
    /\ count[id] < MaxHandles
    /\ readers' = readers \cup {t}
    /\ Goes(t, Doing("clone", id, 0))
    /\ UNCHANGED <<present, count, dropped_entity_ids, stored, owned, upgradable>>

CloneEnd(t) ==
    /\ at[t].op = "clone"
    /\ count' = [count EXCEPT ![at[t].id] = @ + 1]
    /\ Own(t, at[t].id, 1)
    /\ readers' = readers \ {t}
    /\ Goes(t, Resting)
    /\ UNCHANGED <<present, dropped_entity_ids, stored, upgradable>>

\* AnyEntity::drop: an upgradable guard, of which there is one ...
DropBegin(t, id) ==
    /\ Rests(t)
    /\ CanUpgradableRead
    /\ owned[t][id] > 0
    /\ Own(t, id, -1)
    /\ upgradable' = t
    /\ Goes(t, Doing("drop", id, 0))
    /\ UNCHANGED <<present, count, dropped_entity_ids, stored, readers>>

\* ... the count goes down ...
DropCount(t) ==
    /\ at[t].op = "drop"
    /\ count' = [count EXCEPT ![at[t].id] = @ - 1]
    /\ IF count[at[t].id] = 1
       THEN Goes(t, Doing("push", at[t].id, 0)) /\ UNCHANGED upgradable
       ELSE Goes(t, Resting) /\ upgradable' = NoThread
    /\ UNCHANGED <<present, dropped_entity_ids, stored, owned, readers>>

\* ... and the thread that dropped the last handle upgrades the guard, once the
\* readers have left, and records the id.
DropPush(t) ==
    /\ at[t].op = "push"
    /\ readers = {}
    /\ dropped_entity_ids' = Append(dropped_entity_ids, at[t].id)
    /\ upgradable' = NoThread
    /\ Goes(t, Resting)
    /\ UNCHANGED <<present, count, stored, owned, readers>>

\* AnyWeakEntity::upgrade: under the read lock the id is looked up and its count
\* loaded; every thread may have a weak handle to every id.
UpgradeBegin(t, id) ==
    /\ Rests(t)
    /\ CanRead
    /\ present[id] = "counted"
    /\ count[id] < MaxHandles
    /\ readers' = readers \cup {t}
    /\ Goes(t, Doing("upgrade", id, count[id]))
    /\ UNCHANGED <<present, count, dropped_entity_ids, stored, owned, upgradable>>

\* Mutant: the count is incremented whatever it is by now.
UpgradeStepBlind(t) ==
    /\ at[t].op = "upgrade"
    /\ IF at[t].loaded = 0
       THEN UNCHANGED <<count, owned>>
       ELSE /\ count' = [count EXCEPT ![at[t].id] = @ + 1]
            /\ Own(t, at[t].id, 1)
    /\ readers' = readers \ {t}
    /\ Goes(t, Resting)
    /\ UNCHANGED <<present, dropped_entity_ids, stored, upgradable>>

\* One turn of atomic_incr_if_not_zero: give up at zero, else compare and exchange,
\* and on a mismatch try again with what was seen.
UpgradeStep(t) ==
    /\ at[t].op = "upgrade"
    /\ LET id == at[t].id
           done == at[t].loaded \in {0, count[id]}
       IN /\ IF at[t].loaded # 0 /\ at[t].loaded = count[id]
             THEN count' = [count EXCEPT ![id] = @ + 1] /\ Own(t, id, 1)
             ELSE UNCHANGED <<count, owned>>
          /\ readers' = IF done THEN readers \ {t} ELSE readers
          /\ Goes(t, IF done THEN Resting ELSE Doing("upgrade", id, count[id]))
    /\ UNCHANGED <<present, dropped_entity_ids, stored, upgradable>>

InDropped(id) ==
    \E i \in 1 .. Len(dropped_entity_ids) : dropped_entity_ids[i] = id

\* EntityMap::take_dropped: the flush calls it, claims the write lock ...
TakeBegin ==
    /\ Rests(Main)
    /\ dropped_entity_ids # <<>>
    /\ Goes(Main, [Resting EXCEPT !.op = "ask"])
    /\ UNCHANGED <<present, count, dropped_entity_ids, stored, owned, readers,
                   upgradable>>

TakeClaim ==
    /\ at[Main].op = "ask"
    /\ CanUpgradableRead
    /\ Goes(Main, [Resting EXCEPT !.op = "take"])
    /\ UNCHANGED <<present, count, dropped_entity_ids, stored, owned, readers,
                   upgradable>>

\* Mutant: the drained ids stay in the slot map.
TakeDroppedKeeps ==
    /\ at[Main].op = "take"
    /\ readers = {}
    /\ stored' = {id \in stored : ~InDropped(id)}
    /\ dropped_entity_ids' = <<>>
    /\ Goes(Main, Resting)
    /\ UNCHANGED <<present, count, owned, readers, upgradable>>

\* ... and drains the list: the ids leave the slot map, and those that were inserted
\* are handed out with their value.
TakeDropped ==
    /\ at[Main].op = "take"
    /\ readers = {}
    /\ present' = [id \in Ids |-> IF InDropped(id) THEN "removed" ELSE present[id]]
    /\ stored' = {id \in stored : ~InDropped(id)}
    /\ dropped_entity_ids' = <<>>
    /\ Goes(Main, Resting)
    /\ UNCHANGED <<count, owned, readers, upgradable>>

\* A handle moves to another thread.
SendHandle(t, u, id) ==
    /\ Rests(t)
    /\ t # u
    /\ owned[t][id] > 0
    /\ owned' = [owned EXCEPT ![t][id] = @ - 1, ![u][id] = @ + 1]
    /\ UNCHANGED <<present, count, dropped_entity_ids, stored, readers,
                   upgradable, at>>

\* The steps of an operation that has begun.
Continue(t) == CloneEnd(t) \/ DropCount(t) \/ DropPush(t) \/ UpgradeStep(t)

\* The step that ends the operation.
Returns(t) == Continue(t) /\ at'[t] = Resting

Next ==
    \/ TakeBegin \/ TakeClaim \/ TakeDropped
    \/ \E id \in Ids : Reserve(id) \/ Insert(id)
    \/ \E t \in Threads, id \in Ids :
          \/ CloneBegin(t, id) \/ DropBegin(t, id) \/ UpgradeBegin(t, id)
          \/ \E u \in Threads : SendHandle(t, u, id)
    \/ \E t \in Threads : Continue(t)

\* An operation that has begun goes on, the main thread keeps flushing and so calls
\* take_dropped again, and the lock is fair to the thread that asks for it.  Strong
\* fairness of Returns: other threads do not defeat every compare and exchange of
\* an upgrade for ever.
Spec ==
    /\ Init /\ [][Next]_vars
    /\ \A t \in Threads : WF_vars(Continue(t)) /\ SF_vars(Returns(t))
    /\ SF_vars(TakeBegin) /\ SF_vars(TakeClaim) /\ WF_vars(TakeDropped)
-----------------------------------------------------------------------------
Steps == [op : {"rest", "clone", "drop", "push", "upgrade", "ask", "take"}, id : Ids, loaded : Nat]

TypeOK ==
    /\ present \in [Ids -> {"unused", "counted", "removed"}]
    /\ count \in [Ids -> Nat]
    /\ dropped_entity_ids \in Seq(Ids)
    /\ stored \subseteq Ids
    /\ owned \in [Threads -> [Ids -> Nat]]
    /\ readers \subseteq Threads
    /\ upgradable \in Threads \cup {NoThread}
    /\ at \in [Threads -> Steps]

\* The lock is never held by a thread that upgrades it next to readers that wait
\* for it: whoever dropped the last handle gets to record it, and the entity is
\* collected.
LastDropCollected ==
    \A id \in Ids :
        present[id] = "counted" /\ count[id] = 0 ~> present[id] = "removed"

\* With every operation seen as happening when it changes the count, the map
\* behaves like EntityRefs: the steps in between are not observable.
EntityStatus ==
    [id \in Ids |-> CASE present[id] = "unused" -> "unused"
                      [] present[id] = "removed" -> "collected"
                      [] OTHER -> IF count[id] = 0 THEN "dropped" ELSE "live"]
Refs == INSTANCE EntityRefs WITH refs <- count, status <- EntityStatus

\* Every interleaving of clone, drop, upgrade and take_dropped is one of atomic
\* operations.
ImplementsEntityRefs == Refs!Spec
=============================================================================

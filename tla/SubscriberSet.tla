---------------------------- MODULE SubscriberSet ----------------------------
(***************************************************************************)
(* crates/gpui/src/subscription.rs: the registry of callbacks behind every *)
(* observer list of the application (observers, event listeners, global    *)
(* observers, release listeners).  It is single threaded but re-entrant:   *)
(* while retain or remove hands a callback to its caller, the callback may *)
(* insert, drop or join subscriptions and start another retain or remove,  *)
(* so the calls in progress form a stack.                                  *)
(***************************************************************************)
EXTENDS Integers, FiniteSets, Sequences

CONSTANTS
    Keys,            \* emitter keys
    MaxSubscribers,  \* bound on the number of insert calls
    MaxNesting       \* bound on the retain and remove calls in progress

ASSUME SubscriberBounds == MaxSubscribers \in Nat /\ MaxNesting \in Nat

VARIABLES
    subscribers,         \* the BTreeMap: absent, None (taken by retain) or Some(ids)
    next_subscriber_id,
    emitter_key,         \* the key each insert call captured
    active,              \* ids whose active cell is set
    dropped,             \* ids whose dropped cell is set
    subscriptions,       \* armed Subscription values, each the ids it unsubscribes
    calls,               \* retain and remove calls in progress, innermost last
    discarding,          \* a callback retain discarded is being destroyed
    passed,              \* ids the sweep at the end of the innermost retain has passed
    finished,            \* history: ids a callback result or remove took out for good
    late                 \* history: ids dropped when that sweep had passed them

setVars == <<subscribers, next_subscriber_id, emitter_key, active, dropped,
             subscriptions, calls, discarding, passed, finished, late>>
sweepVars == <<discarding, passed, late>>

Ids == 0 .. MaxSubscribers - 1
NoId == -1

Absent == [tag |-> "absent", ids |-> {}]
Taken == [tag |-> "none", ids |-> {}]
Some(ids) == [tag |-> "some", ids |-> ids]

Slots == [tag : {"absent", "none", "some"}, ids : SUBSET Ids]

\* A call in progress: the ids still to visit, the ids kept so far, and the id
\* whose callback is running (NoId between two callbacks).
Calls == [op : {"retain", "remove"}, key : Keys, todo : SUBSET Ids,
          kept : SUBSET Ids, at : Ids \cup {NoId}]

Depth == Len(calls)
Top == calls[Depth]
Pop == SubSeq(calls, 1, Depth - 1)
Progress(todo, kept, at) ==
    [calls EXCEPT ![Depth] = [op |-> Top.op, key |-> Top.key,
                              todo |-> todo, kept |-> kept, at |-> at]]

\* Code outside the set runs when no call is in progress, or inside a callback.
CallerRuns == calls # <<>> => Top.at # NoId

First(id, ids) == id \in ids /\ \A other \in ids : id <= other

-----------------------------------------------------------------------------
Init ==
    /\ subscribers = [k \in Keys |-> Absent]
    /\ next_subscriber_id = 0
    /\ emitter_key = <<>>
    /\ active = {}
    /\ dropped = {}
    /\ subscriptions = {}
    /\ calls = <<>>
    /\ discarding = FALSE
    /\ passed = {}
    /\ finished = {}
    /\ late = {}

\* insert: an inert subscriber joins the map stored for its key, or a fresh map
\* when a retain has taken the stored one.
Insert(k) ==
    /\ CallerRuns
    /\ next_subscriber_id < MaxSubscribers
    /\ subscribers' = [subscribers EXCEPT
                          ![k] = Some(@.ids \cup {next_subscriber_id})]
    /\ emitter_key' = Append(emitter_key, k)
    /\ subscriptions' = subscriptions \cup {{next_subscriber_id}}
    /\ next_subscriber_id' = next_subscriber_id + 1
    /\ UNCHANGED <<active, dropped, calls, finished, sweepVars>>

KeyOf(id) == emitter_key[id + 1]

\* insert whose activate closure the caller runs at once (observe_release).
InsertActive(k) ==
    /\ CallerRuns
    /\ next_subscriber_id < MaxSubscribers
    /\ subscribers' = [subscribers EXCEPT
                          ![k] = Some(@.ids \cup {next_subscriber_id})]
    /\ emitter_key' = Append(emitter_key, k)
    /\ active' = active \cup {next_subscriber_id}
    /\ subscriptions' = subscriptions \cup {{next_subscriber_id}}
    /\ next_subscriber_id' = next_subscriber_id + 1
    /\ UNCHANGED <<dropped, calls, finished, sweepVars>>

\* The closure insert returns next to the Subscription; it runs at most once.
Activate(id) ==
    /\ CallerRuns
    /\ id \in 0 .. next_subscriber_id - 1
    /\ id \notin active
    /\ active' = active \cup {id}
    /\ UNCHANGED <<subscribers, next_subscriber_id, emitter_key, dropped,
                   subscriptions, calls, finished, sweepVars>>

\* The slot after the unsubscribe closures of ids ran on it.
Without(slot, ids) ==
    IF slot.tag = "some"
    THEN IF slot.ids \subseteq ids THEN Absent ELSE Some(slot.ids \ ids)
    ELSE slot

\* Subscription::drop: every joined closure sets its dropped cell and takes its
\* subscriber out of the stored map, if one is stored.  The destructor of a callback
\* that retain discards drops the subscriptions the callback owned.
DropSubscription(s) ==
    /\ CallerRuns \/ discarding
    /\ s \in subscriptions
    /\ subscriptions' = subscriptions \ {s}
    /\ dropped' = dropped \cup s
    /\ subscribers' = [k \in Keys |->
                          Without(subscribers[k], {id \in s : KeyOf(id) = k})]
    /\ late' = late \cup (s \cap passed)
    /\ UNCHANGED <<next_subscriber_id, emitter_key, active, calls, discarding,
                   passed, finished>>

\* Subscription::detach: the closure goes away without running.
Detach(s) ==
    /\ CallerRuns
    /\ s \in subscriptions
    /\ subscriptions' = subscriptions \ {s}
    /\ UNCHANGED <<subscribers, next_subscriber_id, emitter_key, active, dropped,
                   calls, finished, sweepVars>>

\* Subscription::join.
Join(a, b) ==
    /\ CallerRuns
    /\ a \in subscriptions /\ b \in subscriptions /\ a # b
    /\ subscriptions' = (subscriptions \ {a, b}) \cup {a \cup b}
    /\ UNCHANGED <<subscribers, next_subscriber_id, emitter_key, active, dropped,
                   calls, finished, sweepVars>>

Enter(op, k, ids) ==
    Append(calls, [op |-> op, key |-> k, todo |-> ids, kept |-> {}, at |-> NoId])

\* retain takes the stored map and leaves None in its place; it returns at once
\* when there is no map to take.
RetainBegin(k) ==
    /\ CallerRuns
    /\ Depth < MaxNesting
    /\ subscribers[k].tag = "some"
    /\ calls' = Enter("retain", k, subscribers[k].ids)
    /\ subscribers' = [subscribers EXCEPT ![k] = Taken]
    /\ UNCHANGED <<next_subscriber_id, emitter_key, active, dropped,
                   subscriptions, finished, sweepVars>>

InLoop(op) == calls # <<>> /\ Top.op = op /\ Top.at = NoId

\* One iteration of the first retain over the taken map, in id order: an inert
\* subscriber stays, a dropped one goes, any other is handed to the caller.
RetainVisit ==
    /\ InLoop("retain")
    /\ \E id \in Top.todo :
        /\ First(id, Top.todo)
        /\ calls' = Progress(Top.todo \ {id},
                             IF id \in active THEN Top.kept ELSE Top.kept \cup {id},
                             IF id \in active \ dropped THEN id ELSE NoId)
        /\ discarding' = (id \in active \cap dropped)
    /\ UNCHANGED <<subscribers, next_subscriber_id, emitter_key, active, dropped,
                   subscriptions, passed, finished, late>>

InCallback(op) == calls # <<>> /\ Top.op = op /\ Top.at # NoId

\* The callback returned: the subscriber stays if the result says so and the
\* callback has not dropped its own subscription.
RetainReturn(keep) ==
    /\ InCallback("retain")
    /\ calls' = Progress(Top.todo,
                         IF keep /\ Top.at \notin dropped
                         THEN Top.kept \cup {Top.at} ELSE Top.kept,
                         NoId)
    /\ discarding' = ~(keep /\ Top.at \notin dropped)
    /\ finished' = IF keep THEN finished ELSE finished \cup {Top.at}
    /\ UNCHANGED <<subscribers, next_subscriber_id, emitter_key, active, dropped,
                   subscriptions, passed, late>>

\* Mutant: no catch_unwind; the unwinding frees the taken map.
RetainPanicUncaught ==
    /\ InCallback("retain")
    /\ calls' = Pop
    /\ UNCHANGED <<subscribers, next_subscriber_id, emitter_key, active, dropped,
                   subscriptions, finished, sweepVars>>

\* The callback panicked: catch_unwind stops the iteration; the subscriber and
\* the unvisited ones are still in the taken map.  The panic resumes after
\* RetainEnd and reaches the enclosing callback, which may panic in turn.
RetainPanic ==
    /\ InCallback("retain")
    /\ calls' = Progress({}, Top.kept \cup {Top.at} \cup Top.todo, NoId)
    /\ UNCHANGED <<subscribers, next_subscriber_id, emitter_key, active, dropped,
                   subscriptions, finished, sweepVars>>

\* The sweep that follows the iteration, up to the next subscriber dropped since its
\* visit: it goes, and its callback is destroyed before the sweep looks further.
RetainSweep ==
    /\ InLoop("retain")
    /\ Top.todo = {}
    /\ \E id \in Ids :
        /\ First(id, (Top.kept \ passed) \cap dropped)
        /\ calls' = Progress({}, Top.kept \ {id}, NoId)
        /\ passed' = {other \in Top.kept : other < id}
    /\ discarding' = TRUE
    /\ UNCHANGED <<subscribers, next_subscriber_id, emitter_key, active, dropped,
                   subscriptions, finished, late>>

\* Nothing is left to sweep.
Swept ==
    /\ InLoop("retain")
    /\ Top.todo = {}
    /\ Top.kept \cap dropped \subseteq passed

\* The map retain took, less what it lost, is stored again unless ids is empty.
StoreAgain(ids) ==
    /\ subscribers' = [subscribers EXCEPT
                          ![Top.key] = IF ids = {} THEN Absent ELSE Some(ids)]
    /\ calls' = Pop
    /\ discarding' = FALSE
    /\ passed' = {}
    /\ UNCHANGED <<next_subscriber_id, emitter_key, active, dropped,
                   subscriptions, finished, late>>

\* Mutant: what was stored meanwhile is overwritten.
RetainEndOverwrites == Swept /\ StoreAgain(Top.kept)

\* Mutant: no sweep of the subscribers dropped after their visit.
RetainEndUnswept ==
    /\ InLoop("retain")
    /\ Top.todo = {}
    /\ StoreAgain(Top.kept \cup subscribers[Top.key].ids)

\* The end of retain: the subscribers inserted meanwhile are merged in.
RetainEnd == Swept /\ StoreAgain(Top.kept \cup subscribers[Top.key].ids)

\* remove takes the whole slot out; the caller iterates over what it held.
RemoveBegin(k) ==
    /\ CallerRuns
    /\ Depth < MaxNesting
    /\ subscribers[k].tag # "absent"
    /\ calls' = Enter("remove", k, subscribers[k].ids)
    /\ finished' = finished \cup subscribers[k].ids
    /\ subscribers' = [subscribers EXCEPT ![k] = Absent]
    /\ UNCHANGED <<next_subscriber_id, emitter_key, active, dropped,
                   subscriptions, sweepVars>>

\* The filter of the iterator remove returns: only the active cell is looked at.
RemoveVisit ==
    /\ InLoop("remove")
    /\ \E id \in Top.todo :
        /\ First(id, Top.todo)
        /\ calls' = Progress(Top.todo \ {id}, {}, IF id \in active THEN id ELSE NoId)
    /\ UNCHANGED <<subscribers, next_subscriber_id, emitter_key, active, dropped,
                   subscriptions, finished, sweepVars>>

RemoveReturn ==
    /\ InCallback("remove")
    /\ calls' = Progress(Top.todo, {}, NoId)
    /\ UNCHANGED <<subscribers, next_subscriber_id, emitter_key, active, dropped,
                   subscriptions, finished, sweepVars>>

\* remove whose iterator the caller throws away, for each key of ks in turn.
RemoveUnused(ks) ==
    /\ CallerRuns
    /\ finished' = finished \cup UNION {subscribers[k].ids : k \in ks}
    /\ subscribers' = [k \in Keys |-> IF k \in ks THEN Absent ELSE subscribers[k]]
    /\ UNCHANGED <<next_subscriber_id, emitter_key, active, dropped,
                   subscriptions, calls, sweepVars>>

\* The iterator goes away, exhausted or not.
RemoveEnd ==
    /\ InLoop("remove")
    /\ calls' = Pop
    /\ UNCHANGED <<subscribers, next_subscriber_id, emitter_key, active, dropped,
                   subscriptions, finished, sweepVars>>

Next ==
    \/ \E k \in Keys : Insert(k) \/ InsertActive(k) \/ RetainBegin(k) \/ RemoveBegin(k)
    \/ \E ks \in SUBSET Keys : RemoveUnused(ks)
    \/ \E id \in Ids : Activate(id)
    \/ \E s \in subscriptions : DropSubscription(s) \/ Detach(s)
    \/ \E a, b \in subscriptions : Join(a, b)
    \/ \E keep \in BOOLEAN : RetainReturn(keep)
    \/ RetainVisit \/ RetainPanic \/ RetainSweep \/ RetainEnd
    \/ RemoveVisit \/ RemoveReturn \/ RemoveEnd

Spec == Init /\ [][Next]_setVars
-----------------------------------------------------------------------------
TypeOK ==
    /\ subscribers \in [Keys -> Slots]
    /\ next_subscriber_id \in 0 .. MaxSubscribers
    /\ emitter_key \in Seq(Keys)
    /\ Len(emitter_key) = next_subscriber_id
    /\ active \in SUBSET Ids
    /\ dropped \in SUBSET Ids
    /\ subscriptions \in SUBSET SUBSET Ids
    /\ calls \in Seq(Calls)
    /\ discarding \in BOOLEAN
    /\ passed \in SUBSET Ids
    /\ finished \in SUBSET Ids
    /\ late \in SUBSET Ids

\* The ids a retain call in progress will store again.
Pending(i) ==
    calls[i].todo \cup calls[i].kept
        \cup (IF calls[i].at = NoId THEN {} ELSE {calls[i].at})

\* The subscriber is in the stored map of its key, or in a map that a retain call
\* for that key will store again.
Held(id) ==
    \/ id \in subscribers[KeyOf(id)].ids
    \/ \E i \in 1 .. Depth : /\ calls[i].op = "retain"
                             /\ calls[i].key = KeyOf(id)
                             /\ id \in Pending(i)

\* No subscriber is lost: one that was inserted and neither dropped, nor refused
\* by its own callback, nor removed with its emitter is held, whatever the
\* callbacks inserted, dropped or panicked about meanwhile (retain,
\* subscription.rs:111-153).
NoSubscriberLost ==
    \A id \in (0 .. next_subscriber_id - 1) \ (dropped \cup finished) : Held(id)

\* No subscriber is held twice, by two maps or by a map and a retain call: a
\* notification never reaches it twice.
NoSubscriberTwice ==
    /\ \A k \in Keys, i \in 1 .. Depth :
          calls[i].op = "retain" => subscribers[k].ids \cap Pending(i) = {}
    /\ \A i, j \in 1 .. Depth :
          calls[i].op = "retain" /\ calls[j].op = "retain" /\ i # j
              => Pending(i) \cap Pending(j) = {}
    /\ \A k \in Keys : \A id \in subscribers[k].ids : KeyOf(id) = k

\* A dropped subscription leaves nothing behind in a stored map, also when it was
\* dropped while retain had the map (unsubscribe, subscription.rs:71-85, and the
\* sweep at 137).  Except: the sweep destroys callbacks, and when one of them owns a
\* Subscription of an earlier subscriber of the same map, which the sweep has passed,
\* that one is stored again although it is dropped.
DroppedNotStored == \A k \in Keys : subscribers[k].ids \cap dropped \subseteq late

\* A slot is None only while a retain of that key is in progress, so that no panic
\* leaves a key whose later notifications would all be skipped.
TakenOnlyDuringRetain ==
    \A k \in Keys :
        subscribers[k].tag = "none" =>
            \E i \in 1 .. Depth : calls[i].op = "retain" /\ calls[i].key = k
=============================================================================

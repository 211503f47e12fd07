----------------------------- MODULE EffectCycle -----------------------------
(***************************************************************************)
(* crates/gpui/src/app.rs: the update transaction and the effect cycle of  *)
(* App.  User code runs inside nested update transactions; what it does to *)
(* entities, globals and subscriptions queues effects, and the outermost   *)
(* transaction flushes them: it releases dropped entities, pops one effect *)
(* and applies it, until nothing is left.  Callbacks run inside the flush, *)
(* queue more effects, open nested transactions and may panic; a panic     *)
(* unwinds the transactions one by one.                                    *)
(*                                                                         *)
(* The observer lists are one SubscriberSet whose keys carry the name of   *)
(* the list.  Strong handles may be dropped by any thread at any moment.   *)
(***************************************************************************)
EXTENDS Integers, Sequences, FiniteSets

CONSTANTS
    Entities,        \* entity ids
    InitialEntities, \* those that exist at the start, each with one handle
    Globals,         \* global types
    NoEntity,
    Workloads,       \* what user code may do: the operations it calls, and bounds on
                     \* its calls, its nested transactions and its panics
    MaxSubscribers,
    MaxUpdates       \* bound on outermost updates

ASSUME CycleAssumption ==
    /\ InitialEntities \subseteq Entities
    /\ NoEntity \notin Entities
    /\ MaxSubscribers \in Nat /\ MaxUpdates \in Nat
    /\ \A w \in Workloads : w.calls \in Nat /\ w.depth \in Nat /\ w.panics \in Nat

VARIABLES
    \* the SubscriberSets
    subscribers, next_subscriber_id, emitter_key, active, dropped, subscriptions,
    calls, discarding, passed, finished, late,
    \* App: the transaction counters and the effect queue
    pending_updates, flushing_effects, current_update_generation,
    pending_effects, pending_notifications, pending_global_notifications,
    globals_by_type,
    \* EntityMap
    slot,                \* where the entity is: vacant, reserved, stored, leased,
                         \* releasing (in the batch of a flush), gone, or
                         \* abandoned (dropped before it was ever stored)
    strong,              \* its reference count
    dropped_entity_ids,
    handles,             \* strong handles user code owns
    \* the call stack of the main thread
    transactions,        \* the AppUpdateTransaction values, innermost last
    phase,               \* where flush_effects is, "off" when it does not run
    base,                \* index of the transaction that flushes
    batch,               \* dropped entities still to release
    first_panic,         \* a payload waits to be resumed
    entered,             \* a callback of the call in progress runs user code
    subject,             \* the entity being released or announced
    \* history and budgets
    owed,                \* active observers a notification has not reached yet
    age,                 \* subscribers that existed when the applied effect was queued
    ops,                 \* the workload: operations allowed, calls left, depth
    panics               \* panics left

setVars == <<subscribers, next_subscriber_id, emitter_key, active, dropped,
             subscriptions, calls, discarding, passed, finished, late>>
txnVars == <<pending_updates, flushing_effects, current_update_generation, transactions>>
queueVars == <<pending_effects, pending_notifications, pending_global_notifications,
               owed>>
entityVars == <<slot, strong, dropped_entity_ids, handles>>
flushVars == <<phase, base, batch, first_panic, entered, subject, age>>
vars == <<setVars, txnVars, queueVars, globals_by_type, entityVars, flushVars, ops, panics>>

Keys == ({"observers", "event_listeners", "release_listeners"} \X Entities)
            \cup ({"global_observers"} \X Globals)

Set == INSTANCE SubscriberSet WITH MaxNesting <- 2

Observers(e) == <<"observers", e>>
EventListeners(e) == <<"event_listeners", e>>
ReleaseListeners(e) == <<"release_listeners", e>>
GlobalObservers(g) == <<"global_observers", g>>

\* born is history: how many subscribers existed when the effect was queued.
Effect(kind, of) == [kind |-> kind, of |-> of, born |-> next_subscriber_id]

-----------------------------------------------------------------------------
Init ==
    /\ Set!Init
    /\ pending_updates = 0
    /\ flushing_effects = FALSE
    /\ current_update_generation = 0
    /\ transactions = <<>>
    /\ pending_effects = <<>>
    /\ pending_notifications = {}
    /\ pending_global_notifications = {}
    /\ globals_by_type = {}
    /\ slot = [e \in Entities |-> IF e \in InitialEntities THEN "stored" ELSE "vacant"]
    /\ strong = [e \in Entities |-> IF e \in InitialEntities THEN 1 ELSE 0]
    /\ handles = strong
    /\ dropped_entity_ids = {}
    /\ phase = "off"
    /\ base = 0
    /\ batch = {}
    /\ first_panic = FALSE
    /\ entered = FALSE
    /\ subject = NoEntity
    /\ owed = {}
    /\ age = 0
    /\ \E w \in Workloads :
          /\ ops = [allowed |-> w.allowed, left |-> w.calls, depth |-> w.depth]
          /\ panics = w.panics

Level == Len(transactions)
Txn == transactions[Level]

Idle == phase = "off" /\ transactions = <<>>

\* User code runs in the body of a transaction, in a deferred closure, or in a
\* callback a retain or remove call has entered.
UserRuns ==
    \/ phase = "off" /\ transactions # <<>>
    \/ phase = "defer"
    \/ phase \in {"retain", "listeners"} /\ entered

\* The innermost frame of user code is the body of a transaction ...
InBody == UserRuns /\ (phase # "off" => Level > base)
\* ... or the callback itself.
InCallback == UserRuns /\ phase # "off" /\ Level = base

\* A GpuiBorrow borrows App mutably: while it lives nothing else can use App.
AppFree == UserRuns /\ (InBody => Txn.kind # "borrow")

SpendCall == ops.left > 0 /\ ops' = [ops EXCEPT !.left = @ - 1]

Call(op) ==
    /\ AppFree
    /\ op \in ops.allowed
    /\ SpendCall
    /\ UNCHANGED panics

MayPanic == panics > 0 /\ panics' = panics - 1 /\ UNCHANGED ops

-----------------------------------------------------------------------------
(* The effect queue.                                                        *)

\* History: the observers of k that a notification sent now ought to reach.
Owe(k) ==
    LET ids == {id \in (0 .. next_subscriber_id - 1) \ (dropped \cup finished) :
                    Set!KeyOf(id) = k}
    IN owed' = owed \cup (ids \cap active)

\* notify and push_effect(Notify): at most one is queued per entity.
PushNotify(e) ==
    /\ IF e \in pending_notifications
       THEN UNCHANGED <<pending_effects, pending_notifications>>
       ELSE /\ pending_notifications' = pending_notifications \cup {e}
            /\ pending_effects' = Append(pending_effects, Effect("Notify", e))
    /\ Owe(Observers(e))
    /\ UNCHANGED pending_global_notifications

\* push_effect(NotifyGlobalObservers): at most one is queued per type.
PushNotifyGlobal(g) ==
    /\ IF g \in pending_global_notifications
       THEN UNCHANGED <<pending_effects, pending_global_notifications>>
       ELSE /\ pending_global_notifications' = pending_global_notifications \cup {g}
            /\ pending_effects' =
                   Append(pending_effects, Effect("NotifyGlobalObservers", g))
    /\ Owe(GlobalObservers(g))
    /\ UNCHANGED pending_notifications

\* push_effect for every other effect.
Push(effect) ==
    /\ pending_effects' = Append(pending_effects, effect)
    /\ UNCHANGED <<pending_notifications, pending_global_notifications, owed>>

-----------------------------------------------------------------------------
(* What user code does.                                                     *)

Notify(e) ==
    /\ Call("notify")
    /\ slot[e] # "vacant"
    /\ PushNotify(e)
    /\ UNCHANGED <<setVars, txnVars, globals_by_type, entityVars, flushVars>>

Emit(e) ==
    /\ Call("emit")
    /\ slot[e] # "vacant"
    /\ Push(Effect("Emit", e))
    /\ UNCHANGED <<setVars, txnVars, globals_by_type, entityVars, flushVars>>

\* set_global, global_mut, default_global, end_global_lease.
SetGlobal(g) ==
    /\ Call("global")
    /\ PushNotifyGlobal(g)
    /\ globals_by_type' = globals_by_type \cup {g}
    /\ UNCHANGED <<setVars, txnVars, entityVars, flushVars>>

\* remove_global: the effect is queued first; with no such global the code then
\* panics, as any user code may.
RemoveGlobal(g) ==
    /\ Call("global")
    /\ PushNotifyGlobal(g)
    /\ globals_by_type' = globals_by_type \ {g}
    /\ UNCHANGED <<setVars, txnVars, entityVars, flushVars>>

\* Mutant: the subscriber is active at once.
SubscribeToAtOnce(k) ==
    /\ Set!InsertActive(k)
    /\ UNCHANGED <<txnVars, queueVars, globals_by_type, entityVars, flushVars>>

\* observe, subscribe, observe_global: an inert subscriber, and a deferred effect
\* that activates it.
SubscribeTo(k) ==
    /\ Set!Insert(k)
    /\ Push(Effect("Activate", next_subscriber_id))
    /\ UNCHANGED <<txnVars, globals_by_type, entityVars, flushVars>>

Observe(e) == Call("observe") /\ strong[e] > 0 /\ SubscribeTo(Observers(e))

Subscribe(e) == Call("subscribe") /\ strong[e] > 0 /\ SubscribeTo(EventListeners(e))

ObserveGlobal(g) == Call("observe_global") /\ SubscribeTo(GlobalObservers(g))

\* observe_release activates at once.
ObserveRelease(e) ==
    /\ Call("observe_release")
    /\ strong[e] > 0
    /\ Set!InsertActive(ReleaseListeners(e))
    /\ UNCHANGED <<txnVars, queueVars, globals_by_type, entityVars, flushVars>>

\* The flush destroys what may own subscriptions: a callback a retain discards, the
\* observers and listeners of a released entity, and the entity itself.
Destroying == discarding \/ phase \in {"unobserved", "drop"}

\* User code drops a Subscription, or a destructor the flush runs does.
DropSubscription(s) ==
    /\ \/ Call("drop_subscription")
       \/ /\ Destroying
          /\ "drop_subscription" \in ops.allowed
          /\ UNCHANGED <<ops, panics>>
    /\ Set!DropSubscription(s)
    /\ UNCHANGED <<txnVars, queueVars, globals_by_type, entityVars, flushVars>>

Defer ==
    /\ Call("defer")
    /\ Push(Effect("Defer", NoEntity))
    /\ UNCHANGED <<setVars, txnVars, globals_by_type, entityVars, flushVars>>

\* A clone of a handle, or a weak handle upgraded.
AcquireHandle(e) ==
    /\ Call("acquire")
    /\ strong[e] > 0
    /\ strong' = [strong EXCEPT ![e] = @ + 1]
    /\ handles' = [handles EXCEPT ![e] = @ + 1]
    /\ UNCHANGED <<setVars, txnVars, queueVars, globals_by_type, slot,
                   dropped_entity_ids, flushVars>>

\* One handle of e, none for NoEntity.
One(e) == [x \in Entities |-> IF x = e THEN 1 ELSE 0]
Sum(f, g) == [x \in Entities |-> f[x] + g[x]]

\* AnyEntity::drop of lost[e] handles: the last one records the id as dropped.
ReleaseRefs(lost) ==
    /\ strong' = [e \in Entities |-> strong[e] - lost[e]]
    /\ dropped_entity_ids' = dropped_entity_ids
                                 \cup {e \in Entities : lost[e] > 0 /\ lost[e] = strong[e]}

\* Any thread drops a handle, at any moment.
DropHandle(e) ==
    /\ handles[e] > 0
    /\ handles' = [handles EXCEPT ![e] = @ - 1]
    /\ ReleaseRefs(One(e))
    /\ UNCHANGED <<setVars, txnVars, queueVars, globals_by_type, slot, flushVars,
                   ops, panics>>

-----------------------------------------------------------------------------
(* Transactions.                                                            *)

\* AppUpdateTransaction::begin and start_update.
Begin(kind, e) ==
    /\ Idle \/ AppFree
    /\ IF Idle THEN current_update_generation < MaxUpdates /\ UNCHANGED ops
       ELSE SpendCall
    /\ Level < ops.depth
    /\ transactions' = Append(transactions, [kind |-> kind, entity |-> e,
                                             pending |-> pending_updates,
                                             flushing |-> flushing_effects])
    /\ current_update_generation' =
           current_update_generation + (IF pending_updates = 0 THEN 1 ELSE 0)
    /\ pending_updates' = pending_updates + 1
    /\ UNCHANGED <<setVars, flushing_effects, queueVars, globals_by_type,
                   dropped_entity_ids, flushVars, panics>>

Update == Begin("update", NoEntity) /\ UNCHANGED <<slot, strong, handles>>

\* update_entity: the entity moves to the stack; the caller's handle stays
\* borrowed until the call returns.  A second lease panics, as user code may.
UpdateEntity(e) ==
    /\ "update_entity" \in ops.allowed
    /\ handles[e] > 0
    /\ slot[e] = "stored"
    /\ slot' = [slot EXCEPT ![e] = "leased"]
    /\ handles' = [handles EXCEPT ![e] = @ - 1]
    /\ Begin("update_entity", e)
    /\ UNCHANGED strong

\* as_mut: GpuiBorrow::new leases the entity and keeps no handle.
Borrow(e) ==
    /\ "borrow" \in ops.allowed
    /\ handles[e] > 0
    /\ slot[e] = "stored"
    /\ slot' = [slot EXCEPT ![e] = "leased"]
    /\ Begin("borrow", e)
    /\ UNCHANGED <<strong, handles>>

\* App::new: a reserved slot and a clone of it for the EntityCreated effect, while
\* the build closure runs.
NewEntity(e) ==
    /\ "new" \in ops.allowed
    /\ slot[e] = "vacant"
    /\ slot' = [slot EXCEPT ![e] = "reserved"]
    /\ strong' = [strong EXCEPT ![e] = 2]
    /\ Begin("new", e)
    /\ UNCHANGED handles

\* The entity goes back to the map: end_lease, or insert after the build closure.
StoreEntity(t) ==
    slot' = IF t.entity = NoEntity THEN slot ELSE [slot EXCEPT ![t.entity] = "stored"]

\* What the body's end queues: a dropped GpuiBorrow notifies, new announces.
BodyEffects(t) ==
    CASE t.kind = "borrow" -> PushNotify(t.entity)
      [] t.kind = "new" -> Push(Effect("EntityCreated", t.entity))
      [] OTHER -> UNCHANGED queueVars

\* The handles the caller of the transaction has when it is over.
ReturnHandles(t, ok) ==
    handles' = IF t.kind = "update_entity" \/ (t.kind = "new" /\ ok)
               THEN [handles EXCEPT ![t.entity] = @ + 1] ELSE handles

\* finish_update: only the outermost transaction flushes, and never twice.
StartsFlush == ~flushing_effects /\ pending_updates = 1

\* The body returned: finish_update, which flushes or only counts down.
Finish ==
    /\ InBody
    /\ StoreEntity(Txn)
    /\ BodyEffects(Txn)
    /\ IF StartsFlush
       THEN /\ flushing_effects' = TRUE
            /\ phase' = "release"
            /\ base' = Level
            /\ UNCHANGED <<pending_updates, transactions, handles>>
       ELSE /\ pending_updates' = pending_updates - 1
            /\ transactions' = SubSeq(transactions, 1, Level - 1)
            /\ ReturnHandles(Txn, TRUE)
            /\ UNCHANGED <<flushing_effects, phase, base>>
    /\ UNCHANGED <<setVars, current_update_generation, globals_by_type, strong,
                   dropped_entity_ids, batch, first_panic, entered, subject, age, ops, panics>>

\* Mutant: the unwinding only leaves the transaction, as a plain return would.
RestoreNothing(t) == UNCHANGED <<pending_updates, flushing_effects>>

\* AppUpdateTransaction::drop of an unfinished transaction.
Restore(t) ==
    /\ pending_updates' = t.pending
    /\ flushing_effects' = t.flushing

\* The unwinding of a body puts a leased entity back; a reserved slot stays empty.
UnwindSlot(t) ==
    IF t.kind \in {"update_entity", "borrow"} THEN StoreEntity(t) ELSE UNCHANGED slot

\* The body panicked; the panic goes on into the enclosing user code, which may
\* catch it or panic in turn.
BodyPanics ==
    /\ InBody
    /\ MayPanic
    /\ UnwindSlot(Txn)
    /\ IF Txn.kind = "borrow" THEN PushNotify(Txn.entity) ELSE UNCHANGED queueVars
    /\ ReleaseRefs(IF Txn.kind = "new" THEN Sum(One(Txn.entity), One(Txn.entity))
                   ELSE One(NoEntity))
    /\ ReturnHandles(Txn, FALSE)
    /\ Restore(Txn)
    /\ transactions' = SubSeq(transactions, 1, Level - 1)
    /\ UNCHANGED <<setVars, current_update_generation, globals_by_type, flushVars>>

-----------------------------------------------------------------------------
(* flush_effects.                                                           *)

\* The panic that leaves flush_effects unwinds the flushing transaction too.
AbortFlush ==
    /\ Restore(transactions[base])
    /\ transactions' = SubSeq(transactions, 1, base - 1)
    /\ ReturnHandles(transactions[base], FALSE)
    /\ phase' = "off"
    /\ base' = 0
    /\ first_panic' = FALSE

\* The unwinding of new drops the handle it would have returned.
LostResult == IF transactions[base].kind = "new" THEN One(transactions[base].entity)
              ELSE One(NoEntity)

GoOn ==
    /\ phase' = "release"
    /\ UNCHANGED <<pending_updates, flushing_effects, transactions, handles, base,
                   first_panic>>

\* EntityMap::take_dropped: an id that was only reserved yields no entity.
TakeDropped ==
    /\ phase = "release"
    /\ batch = {}
    /\ dropped_entity_ids # {}
    /\ batch' = {e \in dropped_entity_ids : slot[e] = "stored"}
    /\ slot' = [e \in Entities |->
                   IF e \notin dropped_entity_ids THEN slot[e]
                   ELSE IF slot[e] = "stored" THEN "releasing" ELSE "abandoned"]
    /\ dropped_entity_ids' = {}
    /\ UNCHANGED <<setVars, txnVars, queueVars, globals_by_type, strong, handles, phase,
                   base, first_panic, entered, subject, age, ops, panics>>

\* Mutant: the event listeners of the entity stay.
ReleaseObserversOnly ==
    /\ phase = "release"
    /\ \E e \in batch :
        /\ Set!RemoveUnused({Observers(e)})
        /\ subject' = e
        /\ batch' = batch \ {e}
    /\ phase' = "unobserved"
    /\ UNCHANGED <<txnVars, queueVars, globals_by_type, entityVars, base, first_panic,
                   entered, age, ops, panics>>

\* release_dropped_entities: the observers and event listeners of an entity go.
ReleaseObservers ==
    /\ phase = "release"
    /\ \E e \in batch :
        /\ Set!RemoveUnused({Observers(e), EventListeners(e)})
        /\ subject' = e
        /\ batch' = batch \ {e}
    /\ phase' = "unobserved"
    /\ UNCHANGED <<txnVars, queueVars, globals_by_type, entityVars, base, first_panic,
                   entered, age, ops, panics>>

\* Its release listeners are taken out and called one by one.
BeginListeners ==
    /\ phase = "unobserved"
    /\ LET k == ReleaseListeners(subject)
       IN IF subscribers[k].tag = "absent"
          THEN phase' = "drop" /\ UNCHANGED setVars
          ELSE phase' = "listeners" /\ Set!RemoveBegin(k)
    /\ UNCHANGED <<txnVars, queueVars, globals_by_type, entityVars, base, batch,
                   first_panic, entered, subject, age, ops, panics>>

NextListener ==
    /\ phase = "listeners"
    /\ ~entered
    /\ Set!RemoveVisit
    /\ entered' = (calls'[Len(calls)].at # Set!NoId)
    /\ UNCHANGED <<txnVars, queueVars, globals_by_type, entityVars, phase, base, batch,
                   first_panic, subject, age, ops, panics>>

\* A release listener returned, or panicked and its payload is kept.
ListenerDone ==
    /\ phase = "listeners"
    /\ InCallback
    /\ Set!RemoveReturn
    /\ entered' = FALSE
    /\ \/ UNCHANGED <<first_panic, ops, panics>>
       \/ MayPanic /\ first_panic' = TRUE
    /\ UNCHANGED <<txnVars, queueVars, globals_by_type, entityVars, phase, base, batch,
                   subject, age>>

ListenersDone ==
    /\ phase = "listeners"
    /\ ~entered
    /\ Set!Top.todo = {}
    /\ Set!RemoveEnd
    /\ phase' = "drop"
    /\ UNCHANGED <<txnVars, queueVars, globals_by_type, entityVars, base, batch,
                   first_panic, entered, subject, age, ops, panics>>

\* The entity itself is dropped; a panic of its destructor is kept too.
DropEntity ==
    /\ phase = "drop"
    /\ slot' = [slot EXCEPT ![subject] = "gone"]
    /\ subject' = NoEntity
    /\ phase' = "release"
    /\ \/ UNCHANGED <<first_panic, ops, panics>>
       \/ MayPanic /\ first_panic' = TRUE
    /\ UNCHANGED <<setVars, txnVars, queueVars, globals_by_type, strong,
                   dropped_entity_ids, handles, base, batch, entered, age>>

\* Nothing is left to release: a kept payload is resumed, or an effect is popped.
ReleaseDone ==
    /\ phase = "release"
    /\ batch = {}
    /\ dropped_entity_ids = {}
    /\ IF first_panic
       THEN AbortFlush /\ ReleaseRefs(LostResult)
       ELSE /\ phase' = "effects"
            /\ UNCHANGED <<pending_updates, flushing_effects, transactions, handles,
                           strong, dropped_entity_ids, base, first_panic>>
    /\ UNCHANGED <<setVars, current_update_generation, queueVars, globals_by_type, slot,
                   batch, entered, subject, age, ops, panics>>

\* Mutant: the effect is looked at and stays in the queue.
PopEffectPeeks(kind) ==
    /\ phase = "effects"
    /\ pending_effects # <<>>
    /\ Head(pending_effects).kind = kind
    /\ age' = Head(pending_effects).born
    /\ UNCHANGED pending_effects

PopEffect(kind) ==
    /\ phase = "effects"
    /\ pending_effects # <<>>
    /\ Head(pending_effects).kind = kind
    /\ pending_effects' = Tail(pending_effects)
    /\ age' = Head(pending_effects).born

Popped == Head(pending_effects).of

\* retain over the subscribers of k, or nothing when there are none.
Dispatch(k) ==
    /\ IF subscribers[k].tag = "some"
       THEN Set!RetainBegin(k) /\ phase' = "retain"
       ELSE UNCHANGED setVars /\ phase' = "release"
    /\ UNCHANGED <<txnVars, owed, globals_by_type, entityVars, base, batch,
                   first_panic, entered, subject, ops, panics>>

\* Mutant: the pending mark outlives the notification.
ApplyNotifyKeepsMark ==
    /\ PopEffect("Notify")
    /\ Dispatch(Observers(Popped))
    /\ UNCHANGED <<pending_notifications, pending_global_notifications>>

ApplyNotify ==
    /\ PopEffect("Notify")
    /\ pending_notifications' = pending_notifications \ {Popped}
    /\ Dispatch(Observers(Popped))
    /\ UNCHANGED pending_global_notifications

ApplyNotifyGlobalObservers ==
    /\ PopEffect("NotifyGlobalObservers")
    /\ pending_global_notifications' = pending_global_notifications \ {Popped}
    /\ Dispatch(GlobalObservers(Popped))
    /\ UNCHANGED pending_notifications

ApplyEmit ==
    /\ PopEffect("Emit")
    /\ Dispatch(EventListeners(Popped))
    /\ UNCHANGED <<pending_notifications, pending_global_notifications>>

\* A deferred activate closure.
ApplyActivate ==
    /\ PopEffect("Activate")
    /\ Set!Activate(Popped)
    /\ phase' = "release"
    /\ UNCHANGED <<txnVars, pending_notifications, pending_global_notifications, owed,
                   globals_by_type, entityVars, base, batch, first_panic, entered,
                   subject, ops, panics>>

\* A deferred closure of user code, or the new-entity observers of a type, which
\* run with the handle the effect holds.
ApplyDefer ==
    /\ PopEffect("Defer") \/ PopEffect("EntityCreated")
    /\ subject' = Popped
    /\ phase' = "defer"
    /\ UNCHANGED <<setVars, txnVars, pending_notifications,
                   pending_global_notifications, owed, globals_by_type,
                   entityVars, base, batch, first_panic, entered, ops, panics>>

DeferDone ==
    /\ phase = "defer"
    /\ InCallback
    /\ subject' = NoEntity
    /\ \/ /\ GoOn
          /\ ReleaseRefs(One(subject))
          /\ UNCHANGED <<ops, panics>>
       \/ /\ MayPanic
          /\ AbortFlush
          /\ ReleaseRefs(Sum(One(subject), LostResult))
    /\ UNCHANGED <<setVars, current_update_generation, queueVars, globals_by_type, slot,
                   batch, entered, age>>

RetainVisit ==
    /\ phase = "retain"
    /\ ~entered
    /\ Set!RetainVisit
    /\ owed' = owed \ {calls'[Len(calls)].at}
    /\ UNCHANGED <<txnVars, pending_effects, pending_notifications,
                   pending_global_notifications, globals_by_type, entityVars, flushVars,
                   ops, panics>>

Emitter == Set!Top.key[2]
OnEntity == Set!Top.key[1] # "global_observers"

\* The wrapper around an observer: it upgrades its weak handle to the emitter, and
\* asks to be removed when that fails.
EnterCallback ==
    /\ phase = "retain"
    /\ ~entered
    /\ Set!InCallback("retain")
    /\ IF OnEntity /\ strong[Emitter] = 0
       THEN /\ Set!RetainReturn(FALSE)
            /\ UNCHANGED <<strong, entered>>
       ELSE /\ strong' = IF OnEntity THEN [strong EXCEPT ![Emitter] = @ + 1] ELSE strong
            /\ entered' = TRUE
            /\ UNCHANGED setVars
    /\ UNCHANGED <<txnVars, queueVars, globals_by_type, slot, dropped_entity_ids, handles,
                   phase, base, batch, first_panic, subject, age, ops, panics>>

\* Mutant: the upgraded handle is leaked.
LeaveCallbackLeaks == entered' = FALSE /\ UNCHANGED <<strong, dropped_entity_ids>>

\* The upgraded handle goes away when the callback returns or unwinds.
LeaveCallback ==
    /\ entered' = FALSE
    /\ ReleaseRefs(One(IF OnEntity THEN Emitter ELSE NoEntity))

CallbackReturns(keep) ==
    /\ phase = "retain"
    /\ InCallback
    /\ LeaveCallback
    /\ Set!RetainReturn(keep)
    /\ UNCHANGED <<txnVars, queueVars, globals_by_type, slot, handles, phase, base, batch,
                   first_panic, subject, age, ops, panics>>

\* The observers not visited yet miss this notification.
CallbackPanics ==
    /\ phase = "retain"
    /\ InCallback
    /\ MayPanic
    /\ LeaveCallback
    /\ owed' = owed \ Set!Top.todo
    /\ first_panic' = TRUE
    /\ Set!RetainPanic
    /\ UNCHANGED <<txnVars, pending_effects, pending_notifications,
                   pending_global_notifications, globals_by_type, slot, handles, phase,
                   base, batch, subject, age>>

\* What was dropped since its visit is swept.
RetainSweeps ==
    /\ phase = "retain"
    /\ Set!RetainSweep
    /\ UNCHANGED <<txnVars, queueVars, globals_by_type, entityVars, flushVars, ops, panics>>

\* retain stores the map again, and then resumes the panic of a callback.
RetainEnds ==
    /\ phase = "retain"
    /\ Set!RetainEnd
    /\ IF first_panic
       THEN AbortFlush /\ ReleaseRefs(LostResult)
       ELSE GoOn /\ UNCHANGED <<strong, dropped_entity_ids>>
    /\ UNCHANGED <<current_update_generation, queueVars, globals_by_type, slot, batch,
                   entered, subject, age, ops, panics>>

\* The queue is empty: the flush and the outermost update are over.
FlushDone ==
    /\ phase = "effects"
    /\ pending_effects = <<>>
    /\ flushing_effects' = FALSE
    /\ pending_updates' = pending_updates - 1
    /\ transactions' = SubSeq(transactions, 1, base - 1)
    /\ ReturnHandles(transactions[base], TRUE)
    /\ phase' = "off"
    /\ base' = 0
    /\ UNCHANGED <<setVars, current_update_generation, queueVars, globals_by_type, slot,
                   strong, dropped_entity_ids, batch, first_panic, entered, subject, age, ops,
                   panics>>

-----------------------------------------------------------------------------
UserStep ==
    \/ \E e \in Entities : \/ Notify(e) \/ Emit(e) \/ Observe(e) \/ Subscribe(e)
                           \/ ObserveRelease(e) \/ AcquireHandle(e)
                           \/ UpdateEntity(e) \/ Borrow(e) \/ NewEntity(e)
    \/ \E g \in Globals : SetGlobal(g) \/ RemoveGlobal(g) \/ ObserveGlobal(g)
    \/ \E s \in subscriptions : DropSubscription(s)
    \/ Defer \/ Update

\* User code returns, normally or by a panic.
ReturnStep ==
    \/ Finish \/ BodyPanics \/ ListenerDone \/ DeferDone \/ CallbackPanics
    \/ \E keep \in BOOLEAN : CallbackReturns(keep)

FlushStep ==
    \/ TakeDropped \/ ReleaseObservers \/ BeginListeners \/ NextListener
    \/ ListenersDone \/ DropEntity \/ ReleaseDone
    \/ ApplyNotify \/ ApplyNotifyGlobalObservers \/ ApplyEmit \/ ApplyActivate
    \/ ApplyDefer \/ RetainVisit \/ EnterCallback \/ RetainSweeps \/ RetainEnds
    \/ FlushDone

Next ==
    \/ UserStep \/ ReturnStep \/ FlushStep
    \/ \E e \in Entities : DropHandle(e)

\* flush_effects runs to its end, and user code does return; that it makes an
\* operation, drops a handle or starts an update is never promised.
Spec == Init /\ [][Next]_vars /\ WF_vars(FlushStep) /\ WF_vars(ReturnStep)
-----------------------------------------------------------------------------
Slots == {"vacant", "reserved", "stored", "leased", "releasing", "gone", "abandoned"}
Kinds == {"update", "update_entity", "borrow", "new"}

TypeOK ==
    /\ Set!TypeOK
    /\ pending_updates \in Nat
    /\ flushing_effects \in BOOLEAN
    /\ current_update_generation \in 0 .. MaxUpdates
    /\ transactions \in Seq([kind : Kinds, entity : Entities \cup {NoEntity},
                             pending : Nat, flushing : BOOLEAN])
    /\ pending_notifications \subseteq Entities
    /\ pending_global_notifications \subseteq Globals
    /\ globals_by_type \subseteq Globals
    /\ slot \in [Entities -> Slots]
    /\ strong \in [Entities -> Nat]
    /\ handles \in [Entities -> Nat]
    /\ dropped_entity_ids \subseteq Entities
    /\ phase \in {"off", "release", "unobserved", "listeners", "drop", "effects",
                  "retain", "defer"}
    /\ base \in 0 .. ops.depth
    /\ batch \subseteq Entities
    /\ first_panic \in BOOLEAN
    /\ entered \in BOOLEAN
    /\ subject \in Entities \cup {NoEntity}

Queued(kind, of) ==
    {i \in 1 .. Len(pending_effects) :
        pending_effects[i].kind = kind /\ pending_effects[i].of = of}

\* An entity is marked as having a pending notification exactly when one Notify of
\* it is queued, and a global type likewise: no panic or nested update can leave a
\* mark that swallows later notifications, or queue two (push_effect,
\* app.rs:1981-1997, and apply_notify_effect, 2123-2129).
MarksMatchQueue ==
    /\ \A e \in Entities : Cardinality(Queued("Notify", e)) =
                               IF e \in pending_notifications THEN 1 ELSE 0
    /\ \A g \in Globals : Cardinality(Queued("NotifyGlobalObservers", g)) =
                              IF g \in pending_global_notifications THEN 1 ELSE 0

\* The counters of App agree with the call stack, also after panics unwound any
\* number of transactions: pending_updates counts the transactions in progress and
\* flushing_effects holds exactly while the outermost one flushes
\* (AppUpdateTransaction, app.rs:828-865).
TransactionsBalanced ==
    /\ pending_updates = Level
    /\ flushing_effects <=> phase # "off"
    /\ phase # "off" => base = 1
    /\ phase = "off" => base = 0

\* An entity is out of the map exactly while the body of an update_entity or a
\* GpuiBorrow has it (update_entity, app.rs:3337-3356; GpuiBorrow, 3574-3632).
LeasesBalanced ==
    \A e \in Entities :
        slot[e] = "leased" <=>
            \E i \in base + 1 .. Level : /\ transactions[i].kind \in {"update_entity", "borrow"}
                                         /\ transactions[i].entity = e

\* Whatever panics and nested updates do, unwinding restores the counters, the leases
\* and the marks together.
UnwindingRestores == TransactionsBalanced /\ LeasesBalanced /\ MarksMatchQueue

\* The handles of e that the framework itself holds.
FrameworkHandles(e) ==
    Cardinality(Queued("EntityCreated", e))
    + (IF phase = "defer" /\ subject = e THEN 1 ELSE 0)
    + (IF phase = "retain" /\ entered /\ OnEntity /\ Emitter = e THEN 1 ELSE 0)
    + Cardinality({i \in 1 .. Level : /\ transactions[i].kind = "update_entity"
                                      /\ transactions[i].entity = e})
    + Cardinality({i \in 1 .. Level : /\ transactions[i].kind = "new"
                                      /\ transactions[i].entity = e})
    + Cardinality({i \in base + 1 .. Level : /\ transactions[i].kind = "new"
                                             /\ transactions[i].entity = e})

\* The reference count of an entity is the number of strong handles to it: those of
\* user code and those of queued effects, running callbacks and transactions.  No
\* panic leaks one or drops one twice.  An existing entity without handles is on the
\* dropped list, in a batch or gone, and no entity with a handle is: take_dropped
\* never removes "an entity that was referenced" (entity_map.rs:192-196).
RefCountsExact ==
    \A e \in Entities :
        /\ strong[e] = handles[e] + FrameworkHandles(e)
        /\ slot[e] # "vacant" =>
              (strong[e] = 0 <=> \/ e \in dropped_entity_ids
                                 \/ slot[e] \in {"releasing", "gone", "abandoned"})

\* A released entity leaves no subscriber behind, although release listeners run
\* user code that subscribes and drops subscriptions while the lists are being
\* removed (release_dropped_entities, app.rs:2064-2100).
ReleasedHasNoSubscribers ==
    \A e \in Entities :
        slot[e] = "gone" =>
            \A k \in {Observers(e), EventListeners(e), ReleaseListeners(e)} :
                subscribers[k].tag = "absent"

\* Once the application is idle with an empty queue, every observer that was active
\* when a notification was sent has been called for it, unless it was dropped or
\* released, or another observer of the same notification panicked.
NotificationsDelivered ==
    Idle /\ pending_effects = <<>> => owed \subseteq dropped \cup finished

\* A subscriber never sees an effect that was queued before it subscribed: its
\* activation is queued behind (new_observer, app.rs:1357-1361).
NoRetroactiveDelivery ==
    phase = "retain" /\ Set!Top.at # Set!NoId => Set!Top.at < age

\* Every update that starts comes to its end, and a dropped entity that
\* release_dropped_entities meets is released, although release listeners drop more
\* handles and panic.
UpdatesSettle ==
    /\ transactions # <<>> ~> transactions = <<>>
    /\ \A e \in Entities :
          e \in dropped_entity_ids /\ phase = "release" ~> slot[e] \in {"gone", "abandoned"}
=============================================================================

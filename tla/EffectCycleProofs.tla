-------------------------- MODULE EffectCycleProofs ---------------------------
(***************************************************************************)
(* Proofs about EffectCycle, for any entities, any nesting of updates and  *)
(* any sequence of panics.                                                 *)
(***************************************************************************)
EXTENDS EffectCycle, FiniteSetTheorems, TLAPS

Phases == {"off", "release", "unobserved", "listeners", "drop", "effects", "retain", "defer"}
Releasing == {"unobserved", "listeners", "drop"}

Txns == [kind : Kinds, entity : Entities \cup {NoEntity}, pending : Nat, flushing : BOOLEAN]

Effects == [kind : {"Notify", "Emit", "EntityCreated"}, of : Entities, born : Nat]
             \cup [kind : {"NotifyGlobalObservers"}, of : Globals, born : Nat]
             \cup [kind : {"Activate"}, of : 0 .. MaxSubscribers - 1, born : Nat]
             \cup [kind : {"Defer"}, of : {NoEntity}, born : Nat]

\* Which steps change the transactions ...
LEMMA TxnFrame ==
    Next => \/ UNCHANGED <<transactions, pending_updates, flushing_effects, base>>
            \/ Update \/ \E e \in Entities : UpdateEntity(e) \/ Borrow(e) \/ NewEntity(e)
            \/ Finish \/ BodyPanics \/ ReleaseDone \/ DeferDone \/ RetainEnds \/ FlushDone
BY DEF Next, UserStep, ReturnStep, FlushStep, Notify, Emit, Observe, Subscribe, ObserveRelease,
   AcquireHandle, SetGlobal, RemoveGlobal, ObserveGlobal, DropSubscription, Defer, ListenerDone,
   CallbackPanics, CallbackReturns, TakeDropped, ReleaseObservers, BeginListeners, NextListener,
   ListenersDone, DropEntity, ApplyNotify, ApplyNotifyGlobalObservers, ApplyEmit, ApplyActivate,
   ApplyDefer, RetainVisit, RetainSweeps, EnterCallback, DropHandle, SubscribeTo, Dispatch,
   txnVars, flushVars
-----------------------------------------------------------------------------
\* What is proved of SubscriberSet, for the lists of the application.
Lists == INSTANCE SubscriberSetProofs WITH MaxNesting <- 2

LEMMA SameLists ==
    /\ Set!TypeOK <=> Lists!TypeOK
    /\ Set!Init <=> Lists!Init
    /\ Set!Next <=> Lists!Next
    /\ Set!setVars = Lists!setVars
<1>1. Set!TypeOK <=> Lists!TypeOK
    BY DEF Set!TypeOK, Lists!TypeOK, Set!Slots, Lists!Slots, Set!Ids, Lists!Ids, Set!Calls,
       Lists!Calls, Set!NoId, Lists!NoId
<1>2. Set!Init <=> Lists!Init
    BY DEF Set!Init, Lists!Init, Set!Absent, Lists!Absent
<1>3. Set!Next <=> Lists!Next
    BY DEF Set!Insert, Lists!Insert, Set!KeyOf, Lists!KeyOf, Set!InsertActive,
       Lists!InsertActive, Set!Activate, Lists!Activate, Set!Without, Lists!Without,
       Set!DropSubscription, Lists!DropSubscription, Set!Detach, Lists!Detach, Set!Join,
       Lists!Join, Set!Enter, Lists!Enter, Set!RetainBegin, Lists!RetainBegin, Set!InLoop,
       Lists!InLoop, Set!RetainVisit, Lists!RetainVisit, Set!InCallback, Lists!InCallback,
       Set!RetainReturn, Lists!RetainReturn, Set!RetainPanic, Lists!RetainPanic, Set!RetainEnd,
       Set!Swept, Set!StoreAgain, Lists!RetainEnd, Lists!Swept, Lists!StoreAgain,
       Set!RetainSweep, Lists!RetainSweep, Set!sweepVars, Lists!sweepVars, Set!RemoveBegin,
       Lists!RemoveBegin, Set!RemoveVisit, Lists!RemoveVisit, Set!RemoveReturn,
       Lists!RemoveReturn, Set!RemoveUnused, Lists!RemoveUnused, Set!RemoveEnd, Lists!RemoveEnd,
       Set!Next, Lists!Next, Set!Ids, Lists!Ids, Set!NoId, Lists!NoId, Set!Absent, Lists!Absent,
       Set!Taken, Lists!Taken, Set!Some, Lists!Some, Set!Depth, Lists!Depth, Set!Top, Lists!Top,
       Set!Pop, Lists!Pop, Set!Progress, Lists!Progress, Set!CallerRuns, Lists!CallerRuns,
       Set!First, Lists!First
<1>4. Set!setVars = Lists!setVars
    BY DEF Set!setVars, Lists!setVars
<1> QED
    BY <1>1, <1>2, <1>3, <1>4
-----------------------------------------------------------------------------
QueueType ==
    /\ pending_effects \in Seq(Effects)
    /\ pending_notifications \subseteq Entities
    /\ pending_global_notifications \subseteq Globals

\* The entity being released, or whose creation is being announced.
SubjectType ==
    /\ batch \subseteq Entities
    /\ subject \in Entities \cup {NoEntity}
    /\ phase \in Releasing => subject \in Entities
    /\ phase \notin Releasing \cup {"defer"} => subject = NoEntity

LEMMA KeyTypes ==
    /\ \A e \in Entities : /\ Observers(e) \in Keys /\ EventListeners(e) \in Keys
                           /\ ReleaseListeners(e) \in Keys
    /\ \A g \in Globals : GlobalObservers(g) \in Keys
BY DEF Keys, Observers, EventListeners, ReleaseListeners, GlobalObservers

\* What the head of the queue is of.
LEMMA PoppedType ==
    ASSUME QueueType, NEW kind, PopEffect(kind)
    PROVE  /\ Head(pending_effects) \in Effects /\ pending_effects' \in Seq(Effects)
           /\ kind \in {"Notify", "Emit", "EntityCreated"} => Popped \in Entities
           /\ kind = "NotifyGlobalObservers" => Popped \in Globals
           /\ kind = "Activate" => Popped \in 0 .. MaxSubscribers - 1
           /\ kind = "Defer" => Popped = NoEntity
<1>1. Head(pending_effects) \in Effects /\ pending_effects' \in Seq(Effects)
    BY DEF QueueType, PopEffect
<1>2. Head(pending_effects).kind = kind
    BY DEF PopEffect
<1> QED
    BY <1>1, <1>2 DEF Popped, Effects

\* A step of the application is a step of its lists of subscribers, or leaves them alone.
LEMMA ListStep ==
    ASSUME Set!TypeOK, QueueType, SubjectType, Next
    PROVE  Set!Next \/ UNCHANGED Set!setVars
<1> DEFINE Goal == Set!Next \/ UNCHANGED Set!setVars
<1>1. ASSUME NEW e \in Entities, Observe(e) \/ Subscribe(e) \/ ObserveRelease(e) PROVE Goal
    BY <1>1, KeyTypes DEF Observe, Subscribe, ObserveRelease, SubscribeTo, Set!Next
<1>2. ASSUME NEW g \in Globals, ObserveGlobal(g) PROVE Goal
    BY <1>2, KeyTypes DEF ObserveGlobal, SubscribeTo, Set!Next
<1>3. ASSUME NEW s \in subscriptions, DropSubscription(s) PROVE Goal
    BY <1>3 DEF DropSubscription, Set!Next
<1>4. CASE ListenerDone
    BY <1>4 DEF ListenerDone, Set!Next
<1>5. CASE CallbackPanics
    BY <1>5 DEF CallbackPanics, Set!Next
<1>6. ASSUME NEW keep \in BOOLEAN, CallbackReturns(keep) PROVE Goal
    BY <1>6 DEF CallbackReturns, Set!Next
<1>7. CASE ReleaseObservers
    <2>1. PICK e \in batch : Set!RemoveUnused({Observers(e), EventListeners(e)})
        BY <1>7 DEF ReleaseObservers
    <2>2. {Observers(e), EventListeners(e)} \in SUBSET Keys
        BY KeyTypes DEF SubjectType
    <2> QED
        BY <2>1, <2>2 DEF Set!Next
<1>8. CASE BeginListeners
    <2>1. ReleaseListeners(subject) \in Keys
        BY <1>8, KeyTypes DEF BeginListeners, SubjectType, Releasing
    <2> QED
        BY <1>8, <2>1 DEF BeginListeners, Set!Next, setVars, Set!setVars
<1>9. CASE NextListener
    BY <1>9 DEF NextListener, Set!Next
<1>10. CASE ListenersDone
    BY <1>10 DEF ListenersDone, Set!Next
<1>11. ASSUME NEW k \in Keys, Dispatch(k) PROVE Goal
    BY <1>11 DEF Dispatch, Set!Next, setVars, Set!setVars
<1>12. CASE ApplyNotify \/ ApplyNotifyGlobalObservers \/ ApplyEmit
    BY <1>11, <1>12, PoppedType, KeyTypes DEF ApplyNotify, ApplyNotifyGlobalObservers, ApplyEmit
<1>13. CASE ApplyActivate
    <2>1. Popped \in Set!Ids
        BY <1>13, PoppedType DEF ApplyActivate, Set!Ids
    <2> QED
        BY <1>13, <2>1 DEF ApplyActivate, Set!Next
<1>14. CASE RetainVisit \/ RetainSweeps
    BY <1>14 DEF RetainVisit, RetainSweeps, Set!Next
<1>15. CASE EnterCallback
    <2>1. Set!RetainReturn(FALSE) \/ UNCHANGED setVars
        BY <1>15 DEF EnterCallback
    <2> QED
        BY <2>1 DEF Set!Next, setVars, Set!setVars
<1>16. CASE RetainEnds
    BY <1>16 DEF RetainEnds, Set!Next
<1>17. CASE UNCHANGED setVars
    BY <1>17 DEF setVars, Set!setVars
<1>18. ASSUME \/ \E e \in Entities : Notify(e) \/ Emit(e) \/ AcquireHandle(e) \/ UpdateEntity(e)
                    \/ Borrow(e) \/ NewEntity(e) \/ DropHandle(e)
              \/ \E g \in Globals : SetGlobal(g) \/ RemoveGlobal(g)
              \/ Defer \/ Update \/ Finish \/ BodyPanics \/ DeferDone \/ TakeDropped \/ DropEntity
              \/ ReleaseDone \/ ApplyDefer \/ FlushDone
       PROVE UNCHANGED setVars
    BY <1>18 DEF Notify, Emit, AcquireHandle, UpdateEntity, Borrow, NewEntity, DropHandle,
       SetGlobal, RemoveGlobal, Defer, Update, Begin, Finish, BodyPanics, DeferDone,
       TakeDropped, DropEntity, ReleaseDone, ApplyDefer, FlushDone
<1> QED
    BY <1>1, <1>2, <1>3, <1>4, <1>5, <1>6, <1>7, <1>8, <1>9, <1>10, <1>12, <1>13, <1>14, <1>15,
       <1>16, <1>17, <1>18 DEF Next, UserStep, ReturnStep, FlushStep

LEMMA ListTypeStep ==
    ASSUME Set!TypeOK, QueueType, SubjectType, Next PROVE Set!TypeOK'
<1>1. MaxSubscribers \in Nat /\ 2 \in Nat
    BY CycleAssumption
<1>2. Lists!TypeOK /\ [Lists!Next]_(Lists!setVars)
    <2>1. CASE Set!Next
        BY <2>1, SameLists
    <2>2. CASE UNCHANGED Set!setVars
        BY <2>2, SameLists DEF Set!setVars, Lists!setVars
    <2> QED
        BY <2>1, <2>2, ListStep
<1>3. Lists!TypeOK'
    BY <1>1, <1>2, Lists!TypeInductive
<1> QED
    BY <1>3 DEF Set!TypeOK, Lists!TypeOK, Set!Slots, Lists!Slots, Set!Ids, Lists!Ids, Set!Calls,
       Lists!Calls, Set!NoId, Lists!NoId
-----------------------------------------------------------------------------
\* The call of the flush that is in progress.
CallsShape ==
    /\ phase \in Phases /\ entered \in BOOLEAN
    /\ phase \notin {"retain", "listeners"} => calls = <<>>
    /\ phase \in {"retain", "listeners"} => Len(calls) = 1
    /\ phase = "retain" => calls[1].op = "retain"
    /\ phase = "listeners" => calls[1].op = "remove" /\ (entered <=> calls[1].at # Set!NoId)
    /\ entered => phase \in {"retain", "listeners"} /\ calls[1].at # Set!NoId

\* Which steps change the call or where the flush is.
LEMMA PhaseFrame ==
    Next => \/ UNCHANGED <<phase, entered, calls>>
            \/ Finish \/ ListenerDone \/ DeferDone \/ CallbackPanics
            \/ \E keep \in BOOLEAN : CallbackReturns(keep)
            \/ ReleaseObservers \/ BeginListeners \/ NextListener \/ ListenersDone \/ DropEntity
            \/ ReleaseDone \/ ApplyNotify \/ ApplyNotifyGlobalObservers \/ ApplyEmit
            \/ ApplyActivate \/ ApplyDefer \/ RetainVisit \/ RetainSweeps \/ EnterCallback
            \/ RetainEnds
            \/ FlushDone
BY DEF Next, UserStep, ReturnStep, FlushStep, Notify, Emit, Observe, Subscribe, ObserveRelease,
   AcquireHandle, UpdateEntity, Borrow, NewEntity, SetGlobal, RemoveGlobal, ObserveGlobal,
   DropSubscription, Defer, Update, Begin, BodyPanics, TakeDropped, DropHandle, SubscribeTo,
   Set!Insert, Set!InsertActive, Set!DropSubscription, setVars, flushVars

\* The innermost call, when it is the only one.
LEMMA OneCall ==
    ASSUME Set!TypeOK, Len(calls) = 1
    PROVE  /\ Set!Depth = 1 /\ Set!Top = calls[1] /\ calls # <<>> /\ Set!Pop = <<>>
           /\ calls[1] \in Set!Calls
           /\ \A todo, kept, at :
                 /\ Len(Set!Progress(todo, kept, at)) = 1
                 /\ Set!Progress(todo, kept, at)[1] =
                        [op |-> calls[1].op, key |-> calls[1].key, todo |-> todo,
                         kept |-> kept, at |-> at]
<1>1. calls \in Seq(Set!Calls)
    BY DEF Set!TypeOK
<1>2. Set!Depth = 1 /\ Set!Top = calls[1] /\ calls # <<>> /\ Set!Pop = <<>>
    BY <1>1 DEF Set!Depth, Set!Top, Set!Pop
<1>3. ASSUME NEW todo, NEW kept, NEW at
      PROVE  /\ Len(Set!Progress(todo, kept, at)) = 1
             /\ Set!Progress(todo, kept, at)[1] =
                        [op |-> calls[1].op, key |-> calls[1].key, todo |-> todo,
                         kept |-> kept, at |-> at]
    BY <1>1, <1>2 DEF Set!Progress
<1> QED
    BY <1>1, <1>2, <1>3

LEMMA FirstCall ==
    ASSUME calls = <<>>, NEW op, NEW k, NEW ids
    PROVE  /\ Len(Set!Enter(op, k, ids)) = 1
           /\ Set!Enter(op, k, ids)[1] = [op |-> op, key |-> k, todo |-> ids, kept |-> {},
                                          at |-> Set!NoId]
BY DEF Set!Enter

LEMMA CallsStep ==
    ASSUME Set!TypeOK, CallsShape, flushing_effects <=> phase # "off", Next PROVE CallsShape'
<1> USE DEF Phases
<1>0. ASSUME phase \in {"retain", "listeners"}
      PROVE  Set!Top = calls[1] /\ Set!Pop = <<>>
    BY <1>0, OneCall DEF CallsShape
<1>a. ASSUME phase \in {"retain", "listeners"}, NEW todo, NEW kept, NEW at,
             calls' = Set!Progress(todo, kept, at)
      PROVE  Len(calls') = 1 /\ calls'[1].op = calls[1].op /\ calls'[1].at = at
    <2>1. Len(calls) = 1
        BY <1>a DEF CallsShape
    <2>2. calls'[1] = [op |-> calls[1].op, key |-> calls[1].key, todo |-> todo,
                       kept |-> kept, at |-> at]
        BY <1>a, <2>1, OneCall
    <2> QED
        BY <1>a, <2>1, <2>2, OneCall
<1>b. ASSUME calls = <<>>, NEW op, NEW k, NEW ids, calls' = Set!Enter(op, k, ids)
      PROVE  Len(calls') = 1 /\ calls'[1].op = op /\ calls'[1].at = Set!NoId
    <2>1. calls'[1] = [op |-> op, key |-> k, todo |-> ids, kept |-> {}, at |-> Set!NoId]
        BY <1>b, FirstCall
    <2> QED
        BY <1>b, <2>1, FirstCall
<1>1. CASE Finish
    BY <1>1 DEF Finish, CallsShape, setVars, StartsFlush
<1>2. CASE ListenerDone
    <2>1. Len(calls') = 1 /\ calls'[1].op = calls[1].op /\ calls'[1].at = Set!NoId
        BY <1>a, <1>2 DEF ListenerDone, Set!RemoveReturn
    <2> QED
        BY <1>2, <2>1 DEF ListenerDone, CallsShape
<1>3. CASE DeferDone
    BY <1>3 DEF DeferDone, GoOn, AbortFlush, CallsShape, setVars
<1>4. CASE CallbackPanics
    <2>1. Len(calls') = 1 /\ calls'[1].op = calls[1].op /\ calls'[1].at = Set!NoId
        BY <1>a, <1>4 DEF CallbackPanics, Set!RetainPanic
    <2> QED
        BY <1>4, <2>1 DEF CallbackPanics, LeaveCallback, CallsShape
<1>5. ASSUME NEW keep \in BOOLEAN, CallbackReturns(keep) PROVE CallsShape'
    <2>1. Len(calls') = 1 /\ calls'[1].op = calls[1].op /\ calls'[1].at = Set!NoId
        BY <1>a, <1>5 DEF CallbackReturns, Set!RetainReturn
    <2> QED
        BY <1>5, <2>1 DEF CallbackReturns, LeaveCallback, CallsShape
<1>6. CASE ReleaseObservers
    BY <1>6 DEF ReleaseObservers, Set!RemoveUnused, CallsShape
<1>7. CASE BeginListeners
    <2>1. CASE phase' = "drop" /\ UNCHANGED setVars
        BY <1>7, <2>1 DEF BeginListeners, CallsShape, setVars
    <2>2. CASE phase' = "listeners" /\ Set!RemoveBegin(ReleaseListeners(subject))
        <3>1. calls = <<>>
            BY <1>7 DEF BeginListeners, CallsShape
        <3>2. Len(calls') = 1 /\ calls'[1].op = "remove" /\ calls'[1].at = Set!NoId
            BY <1>b, <2>2, <3>1 DEF Set!RemoveBegin
        <3> QED
            BY <1>7, <2>2, <3>2 DEF BeginListeners, CallsShape
    <2> QED
        BY <1>7, <2>1, <2>2 DEF BeginListeners
<1>8. CASE NextListener
    <2>1. Len(calls') = 1 /\ calls'[1].op = calls[1].op
        BY <1>0, <1>a, <1>8 DEF NextListener, Set!RemoveVisit
    <2>2. Len(calls) = 1
        BY <1>8 DEF NextListener, CallsShape
    <2> QED
        BY <1>8, <2>1, <2>2 DEF NextListener, CallsShape
<1>9. CASE ListenersDone
    BY <1>0, <1>9 DEF ListenersDone, Set!RemoveEnd, CallsShape
<1>10. CASE DropEntity
    BY <1>10 DEF DropEntity, CallsShape, setVars
<1>11. CASE ReleaseDone
    BY <1>11 DEF ReleaseDone, AbortFlush, CallsShape, setVars
<1>12. ASSUME NEW k, phase = "effects", Dispatch(k) PROVE CallsShape'
    <2>1. CASE phase' = "release" /\ UNCHANGED setVars
        BY <1>12, <2>1 DEF Dispatch, CallsShape, setVars
    <2>2. CASE phase' = "retain" /\ Set!RetainBegin(k)
        <3>1. calls = <<>>
            BY <1>12 DEF CallsShape
        <3>2. Len(calls') = 1 /\ calls'[1].op = "retain" /\ calls'[1].at = Set!NoId
            BY <1>b, <2>2, <3>1 DEF Set!RetainBegin
        <3> QED
            BY <1>12, <2>2, <3>2 DEF Dispatch, CallsShape
    <2> QED
        BY <1>12, <2>1, <2>2 DEF Dispatch
<1>13. CASE ApplyNotify \/ ApplyNotifyGlobalObservers \/ ApplyEmit
    BY <1>12, <1>13 DEF ApplyNotify, ApplyNotifyGlobalObservers, ApplyEmit, PopEffect
<1>14. CASE ApplyActivate
    BY <1>14 DEF ApplyActivate, PopEffect, Set!Activate, CallsShape
<1>15. CASE ApplyDefer
    BY <1>15 DEF ApplyDefer, PopEffect, CallsShape, setVars
<1>16. CASE RetainVisit
    <2>1. Len(calls') = 1 /\ calls'[1].op = calls[1].op
        BY <1>a, <1>16 DEF RetainVisit, Set!RetainVisit
    <2> QED
        BY <1>16, <2>1 DEF RetainVisit, CallsShape, flushVars
<1>21. CASE RetainSweeps
    <2>1. Len(calls') = 1 /\ calls'[1].op = calls[1].op
        BY <1>a, <1>21 DEF RetainSweeps, Set!RetainSweep
    <2>2. ~entered
        BY <1>0, <1>21 DEF RetainSweeps, Set!RetainSweep, Set!InLoop, CallsShape
    <2> QED
        BY <1>21, <2>1, <2>2 DEF RetainSweeps, CallsShape, flushVars
<1>17. CASE EnterCallback
    <2>1. phase = "retain" /\ phase' = phase /\ calls[1].at # Set!NoId /\ ~entered
        BY <1>0, <1>17 DEF EnterCallback, Set!InCallback
    <2>2. CASE Set!RetainReturn(FALSE) /\ entered' = entered
        <3>1. Len(calls') = 1 /\ calls'[1].op = calls[1].op
            BY <1>a, <2>1, <2>2 DEF Set!RetainReturn
        <3> QED
            BY <2>1, <2>2, <3>1 DEF CallsShape
    <2>3. CASE UNCHANGED setVars /\ entered' = TRUE
        BY <2>1, <2>3 DEF CallsShape, setVars
    <2> QED
        BY <1>17, <2>2, <2>3 DEF EnterCallback
<1>18. CASE RetainEnds
    <2>1. phase = "retain" /\ calls[1].at = Set!NoId /\ calls' = <<>> /\ phase' \in {"off", "release"}
        BY <1>0, <1>18 DEF RetainEnds, Set!RetainEnd, Set!Swept, Set!StoreAgain, Set!InLoop,
           AbortFlush, GoOn
    <2>2. entered' = FALSE
        BY <1>18, <2>1 DEF RetainEnds, CallsShape
    <2> QED
        BY <2>1, <2>2 DEF CallsShape
<1>19. CASE FlushDone
    BY <1>19 DEF FlushDone, CallsShape, setVars
<1>20. CASE UNCHANGED <<phase, entered, calls>>
    BY <1>20 DEF CallsShape
<1> QED
    BY <1>1, <1>2, <1>3, <1>4, <1>5, <1>6, <1>7, <1>8, <1>9, <1>10, <1>11, <1>13, <1>14, <1>15,
       <1>16, <1>17, <1>18, <1>19, <1>20, <1>21, PhaseFrame
-----------------------------------------------------------------------------
\* The budgets of user code: only the calls left change.
OpsType == /\ ops = [allowed |-> ops.allowed, left |-> ops.left, depth |-> ops.depth]
           /\ ops.depth \in Nat

\* Each transaction remembers the counters it found; a flush is run by the outermost one,
\* and nested ones are open only while user code runs.
Stack ==
    /\ transactions \in Seq(Txns) /\ flushing_effects \in BOOLEAN
    /\ OpsType /\ Level <= ops.depth
    /\ pending_updates = Level
    /\ flushing_effects <=> phase # "off"
    /\ base = IF phase = "off" THEN 0 ELSE 1
    /\ phase # "off" => Level >= 1
    /\ phase # "off" /\ ~UserRuns => Level = 1
    /\ \A i \in 1 .. Level : /\ transactions[i].pending = i - 1
                             /\ transactions[i].flushing <=> phase # "off" /\ i > 1

LEMMA OpsStep == ASSUME OpsType, Next PROVE OpsType' /\ ops'.depth = ops.depth
<1>1. ops' = ops \/ ops' = [ops EXCEPT !.left = @ - 1]
    BY DEF Next, UserStep, ReturnStep, FlushStep, Notify, Emit, Observe, Subscribe,
       ObserveRelease, AcquireHandle, UpdateEntity, Borrow, NewEntity, SetGlobal, RemoveGlobal,
       ObserveGlobal, DropSubscription, Defer, Update, Begin, Call, SpendCall, Finish,
       BodyPanics, MayPanic, ListenerDone, DeferDone, CallbackPanics, CallbackReturns,
       TakeDropped, ReleaseObservers, BeginListeners, NextListener, ListenersDone, DropEntity,
       ReleaseDone, ApplyNotify, ApplyNotifyGlobalObservers, ApplyEmit, ApplyActivate,
       ApplyDefer, RetainVisit, RetainSweeps, EnterCallback, RetainEnds, FlushDone, DropHandle,
       Dispatch
<1> QED
    BY <1>1 DEF OpsType

LEMMA LevelType == ASSUME Stack PROVE Level \in Nat /\ (Level > 0 => Txn \in Txns)
BY DEF Stack, Level, Txn

LEMMA BodyLevel ==
    ASSUME Stack, InBody
    PROVE  /\ Level \in Nat /\ Level >= 1 /\ (phase # "off" => Level > 1)
           /\ base \in Nat /\ Level > base
BY LevelType DEF Stack, InBody, UserRuns, Level

\* A transaction begins.
LEMMA BeginStack ==
    ASSUME Stack, NEW kind \in Kinds, NEW e \in Entities \cup {NoEntity}, Begin(kind, e),
           OpsType', ops'.depth = ops.depth
    PROVE  /\ Stack'
           /\ Level' = Level + 1 /\ \A i \in 1 .. Level : transactions'[i] = transactions[i]
           /\ transactions'[Level + 1].kind = kind /\ transactions'[Level + 1].entity = e
           /\ base' = base
<1> DEFINE t == [kind |-> kind, entity |-> e, pending |-> pending_updates,
                 flushing |-> flushing_effects]
<1>1. /\ Level \in Nat /\ pending_updates = Level /\ t \in Txns
      /\ t.pending = Level /\ t.flushing = flushing_effects
      /\ t.kind = kind /\ t.entity = e
    BY LevelType DEF Stack, Txns
<1>2. transactions' = Append(transactions, t) /\ pending_updates' = Level + 1
      /\ flushing_effects' = flushing_effects /\ Level < ops.depth
      /\ UNCHANGED <<phase, base, entered>>
    BY <1>1 DEF Begin, flushVars
<1> HIDE DEF t
<1>3. /\ transactions' \in Seq(Txns) /\ Level' = Level + 1
      /\ \A i \in 1 .. Level : transactions'[i] = transactions[i]
      /\ transactions'[Level + 1] = t
    BY <1>1, <1>2 DEF Stack, Level
<1>4. phase # "off" => UserRuns /\ UserRuns'
    BY <1>2 DEF Begin, AppFree, Idle, UserRuns
<1>5. ASSUME NEW i \in 1 .. Level'
      PROVE  /\ transactions'[i].pending = i - 1
             /\ transactions'[i].flushing <=> phase' # "off" /\ i > 1
    <2>1. CASE i = Level + 1
        BY <1>1, <1>2, <1>3, <2>1 DEF Stack
    <2>2. CASE i # Level + 1
        <3>1. i \in 1 .. Level
            BY <1>1, <1>3, <2>2
        <3> QED
            BY <1>2, <1>3, <3>1 DEF Stack
    <2> QED
        BY <2>1, <2>2
<1>6. Stack'
    <2>1. (transactions \in Seq(Txns) /\ flushing_effects \in BOOLEAN /\ OpsType)'
        BY <1>2, <1>3 DEF Stack
    <2>2. Level' <= ops'.depth /\ pending_updates' = Level'
        BY <1>1, <1>2, <1>3 DEF Stack, OpsType
    <2>3. (flushing_effects <=> phase # "off")' /\ (base = IF phase = "off" THEN 0 ELSE 1)'
        BY <1>2 DEF Stack
    <2>4. (phase # "off" => Level >= 1)' /\ (phase # "off" /\ ~UserRuns => Level = 1)'
        BY <1>1, <1>2, <1>3, <1>4
    <2> QED
        BY <1>5, <2>1, <2>2, <2>3, <2>4 DEF Stack
<1> QED
    BY <1>1, <1>2, <1>3, <1>6

\* The innermost transaction of user code ends, and its counters are those it found.
LEMMA PopStack ==
    ASSUME Stack, InBody, transactions' = SubSeq(transactions, 1, Level - 1),
           pending_updates' = Level - 1, flushing_effects' = flushing_effects,
           UNCHANGED <<phase, base, entered>>, OpsType', ops'.depth = ops.depth
    PROVE  /\ Stack' /\ Level > base
           /\ Level' = Level - 1 /\ \A i \in 1 .. Level - 1 : transactions'[i] = transactions[i]
<1>1. Level \in Nat /\ Level >= 1 /\ (phase # "off" => Level > 1) /\ Level > base
    BY BodyLevel
<1>2. /\ transactions' \in Seq(Txns) /\ Level' = Level - 1
      /\ \A i \in 1 .. Level - 1 : transactions'[i] = transactions[i]
    BY <1>1 DEF Stack, Level
<1>3. phase # "off" => UserRuns'
    BY DEF InBody, UserRuns
<1>4. Stack'
    <2>1. (transactions \in Seq(Txns) /\ flushing_effects \in BOOLEAN /\ OpsType)'
        BY <1>2 DEF Stack
    <2>2. Level' <= ops'.depth /\ pending_updates' = Level'
        BY <1>1, <1>2 DEF Stack, OpsType
    <2>3. (flushing_effects <=> phase # "off")' /\ (base = IF phase = "off" THEN 0 ELSE 1)'
        BY DEF Stack
    <2>4. (phase # "off" => Level >= 1)' /\ (phase # "off" /\ ~UserRuns => Level = 1)'
        BY <1>1, <1>2, <1>3
    <2>5. ASSUME NEW i \in 1 .. Level'
          PROVE  /\ transactions'[i].pending = i - 1
                 /\ transactions'[i].flushing <=> phase' # "off" /\ i > 1
        <3>1. i \in 1 .. Level - 1 /\ i \in 1 .. Level
            BY <1>1, <1>2
        <3> QED
            BY <1>2, <3>1 DEF Stack
    <2> QED
        BY <2>1, <2>2, <2>3, <2>4, <2>5 DEF Stack
<1> QED
    BY <1>1, <1>2, <1>4

\* What the transaction restores is what holds outside it.
LEMMA RestoreStack ==
    ASSUME Stack, InBody, Restore(Txn)
    PROVE  pending_updates' = Level - 1 /\ flushing_effects' = flushing_effects
<1>1. Level \in Nat /\ Level >= 1 /\ (phase # "off" => Level > 1)
    BY BodyLevel
<1>2. Txn.pending = Level - 1 /\ (Txn.flushing <=> phase # "off") /\ Txn \in Txns
    BY <1>1, LevelType DEF Stack, Txn
<1> QED
    BY <1>2 DEF Restore, Stack, Txns

\* The flush ends, or a panic leaves it.
LEMMA EndStack ==
    ASSUME Stack, phase # "off", transactions' = SubSeq(transactions, 1, base - 1),
           pending_updates' = 0, flushing_effects' = FALSE, phase' = "off", base' = 0,
           OpsType', ops'.depth = ops.depth
    PROVE  Stack' /\ transactions' = <<>>
<1>1. transactions' = <<>>
    BY DEF Stack
<1>2. Level' = 0 /\ transactions' \in Seq(Txns)
    <2>1. Len(<<>>) = 0 /\ <<>> \in Seq(Txns)
        OBVIOUS
    <2> QED
        BY <1>1, <2>1 DEF Level
<1>3. Level' <= ops'.depth
    BY <1>2 DEF OpsType
<1>4. ASSUME NEW i \in 1 .. Level' PROVE FALSE
    BY <1>2
<1> QED
    BY <1>1, <1>2, <1>3, <1>4 DEF Stack

LEMMA AbortStack ==
    ASSUME Stack, phase # "off", AbortFlush, OpsType', ops'.depth = ops.depth
    PROVE  Stack' /\ transactions' = <<>>
<1>1. base = 1 /\ 1 \in 1 .. Level /\ Level \in Nat
    BY LevelType DEF Stack
<1>2. transactions[1].pending = 0 /\ transactions[1] \in Txns /\ ~transactions[1].flushing
    BY <1>1 DEF Stack, Level
<1>3. pending_updates' = 0 /\ flushing_effects' = FALSE
    BY <1>1, <1>2 DEF AbortFlush, Restore, Txns
<1> QED
    BY <1>3, EndStack DEF AbortFlush

\* Steps of the flush happen with the outermost transaction alone on the stack.
LEMMA FlushAlone ==
    ASSUME Set!TypeOK, CallsShape, Stack, phase # "off",
           \/ phase \in {"release", "unobserved", "drop", "effects"}
           \/ InCallback
           \/ ~entered /\ phase # "defer"
    PROVE  Level = 1 /\ base = 1
BY DEF Stack, CallsShape, Phases, UserRuns, InCallback

LEMMA RetainEndsOutside ==
    ASSUME Set!TypeOK, CallsShape, RetainEnds PROVE ~entered
<1>1. phase = "retain" /\ Len(calls) = 1
    BY DEF RetainEnds, CallsShape
<1> QED
    BY <1>1, OneCall DEF RetainEnds, Set!RetainEnd, Set!Swept, Set!StoreAgain, Set!InLoop,
       CallsShape

\* A step of the flush that leaves the transactions alone.
LEMMA QuietStack ==
    ASSUME Stack, UNCHANGED <<transactions, pending_updates, flushing_effects, base>>,
           OpsType', ops'.depth = ops.depth,
           \/ UNCHANGED <<phase, entered>>
           \/ phase # "off" /\ phase' # "off" /\ Level = 1
    PROVE  Stack' /\ Level' = Level
<1>1. Level' = Level
    BY DEF Level
<1>2. (phase = "off") <=> (phase' = "off")
    OBVIOUS
<1>3. (transactions \in Seq(Txns) /\ flushing_effects \in BOOLEAN /\ OpsType)'
    BY DEF Stack
<1>4. Level' <= ops'.depth /\ pending_updates' = Level'
    BY <1>1 DEF Stack
<1>5. (flushing_effects <=> phase # "off")' /\ (base = IF phase = "off" THEN 0 ELSE 1)'
    BY <1>2 DEF Stack
<1>6. (phase # "off" => Level >= 1)' /\ (phase # "off" /\ ~UserRuns => Level = 1)'
    <2>1. CASE UNCHANGED <<phase, entered>>
        BY <1>1, <2>1 DEF Stack, UserRuns
    <2>2. CASE Level = 1
        BY <1>1, <2>2
    <2> QED
        BY <2>1, <2>2
<1>7. ASSUME NEW i \in 1 .. Level'
      PROVE  /\ transactions'[i].pending = i - 1
             /\ transactions'[i].flushing <=> phase' # "off" /\ i > 1
    BY <1>1, <1>2 DEF Stack
<1> QED
    BY <1>1, <1>3, <1>4, <1>5, <1>6, <1>7 DEF Stack

LEMMA StackStep ==
    ASSUME Set!TypeOK, CallsShape, Stack, Next PROVE Stack'
<1>0. OpsType' /\ ops'.depth = ops.depth
    BY OpsStep DEF Stack
<1>1. CASE Update \/ \E e \in Entities : UpdateEntity(e) \/ Borrow(e) \/ NewEntity(e)
    <2>1. PICK kind \in Kinds, e \in Entities \cup {NoEntity} : Begin(kind, e)
        BY <1>1 DEF Update, UpdateEntity, Borrow, NewEntity, Kinds
    <2> QED
        BY <1>0, <2>1, BeginStack
<1>2. CASE Finish /\ ~StartsFlush
    <2>1. /\ InBody /\ transactions' = SubSeq(transactions, 1, Level - 1)
          /\ pending_updates' = Level - 1 /\ flushing_effects' = flushing_effects
          /\ UNCHANGED <<phase, base, entered>>
        BY <1>2 DEF Finish, Stack
    <2> QED
        BY <1>0, <2>1, PopStack
<1>3. CASE Finish /\ StartsFlush
    <2>1. /\ Level = 1 /\ phase = "off" /\ flushing_effects' = TRUE /\ phase' = "release"
          /\ base' = 1 /\ UNCHANGED <<pending_updates, transactions>>
        BY <1>3 DEF Finish, StartsFlush, Stack
    <2>2. Level' = 1
        BY <2>1 DEF Level
    <2>3. (transactions \in Seq(Txns) /\ flushing_effects \in BOOLEAN /\ OpsType)'
        BY <1>0, <2>1 DEF Stack
    <2>4. Level' <= ops'.depth /\ pending_updates' = Level'
        BY <1>0, <2>1, <2>2 DEF Stack
    <2>5. ASSUME NEW i \in 1 .. Level'
          PROVE  /\ transactions'[i].pending = i - 1
                 /\ transactions'[i].flushing <=> phase' # "off" /\ i > 1
        <3>1. i = 1
            BY <2>2
        <3> QED
            BY <2>1, <3>1 DEF Stack
    <2> QED
        BY <2>1, <2>2, <2>3, <2>4, <2>5 DEF Stack
<1>4. CASE BodyPanics
    <2>1. /\ InBody /\ transactions' = SubSeq(transactions, 1, Level - 1) /\ Restore(Txn)
          /\ UNCHANGED <<phase, base, entered>>
        BY <1>4 DEF BodyPanics, flushVars
    <2> QED
        BY <1>0, <2>1, RestoreStack, PopStack
<1>5. CASE AbortFlush /\ phase # "off"
    BY <1>0, <1>5, AbortStack
<1>6. CASE FlushDone
    <2>1. phase # "off" /\ Level = 1 /\ pending_updates = 1
        BY <1>6, FlushAlone DEF FlushDone, Stack
    <2>2. pending_updates' = 0
        BY <1>6, <2>1 DEF FlushDone
    <2> QED
        BY <1>0, <1>6, <2>1, <2>2, EndStack DEF FlushDone
<1>7. ASSUME UNCHANGED <<transactions, pending_updates, flushing_effects, base>>,
             phase # "off", phase' # "off", Level = 1
      PROVE  Stack'
    BY <1>0, <1>7, QuietStack
<1>8. CASE ReleaseDone \/ DeferDone \/ RetainEnds
    <2>1. AbortFlush \/ (phase' # "off"
                            /\ UNCHANGED <<transactions, pending_updates, flushing_effects, base>>)
        BY <1>8 DEF ReleaseDone, DeferDone, RetainEnds, GoOn
    <2>2. phase # "off" /\ Level = 1
        <3>1. CASE ReleaseDone \/ DeferDone
            BY <3>1, FlushAlone DEF ReleaseDone, DeferDone
        <3>2. CASE RetainEnds
            BY <3>2, FlushAlone, RetainEndsOutside DEF RetainEnds
        <3> QED
            BY <1>8, <3>1, <3>2
    <2> QED
        BY <1>5, <1>7, <2>1, <2>2
<1>9. CASE UNCHANGED <<transactions, pending_updates, flushing_effects, base>>
    <2>1. CASE UNCHANGED <<phase, entered>>
        BY <1>0, <1>9, <2>1, QuietStack
    <2>2. ASSUME \/ ListenerDone \/ CallbackPanics \/ \E keep \in BOOLEAN : CallbackReturns(keep)
                 \/ ReleaseObservers \/ BeginListeners \/ NextListener \/ ListenersDone
                 \/ DropEntity \/ ApplyNotify \/ ApplyNotifyGlobalObservers \/ ApplyEmit
                 \/ ApplyActivate \/ ApplyDefer \/ RetainVisit \/ EnterCallback
          PROVE  Stack'
        <3>1. phase # "off" /\ phase' # "off"
            BY <2>2 DEF ListenerDone, CallbackPanics, CallbackReturns, ReleaseObservers,
               BeginListeners, NextListener, ListenersDone, DropEntity, ApplyNotify,
               ApplyNotifyGlobalObservers, ApplyEmit, ApplyActivate, ApplyDefer, RetainVisit,
               EnterCallback, PopEffect, Dispatch, flushVars
        <3>2. \/ phase \in {"release", "unobserved", "drop", "effects"}
              \/ InCallback
              \/ ~entered /\ phase # "defer"
            BY <2>2 DEF ListenerDone, CallbackPanics, CallbackReturns, ReleaseObservers,
               BeginListeners, NextListener, ListenersDone, DropEntity, ApplyNotify,
               ApplyNotifyGlobalObservers, ApplyEmit, ApplyActivate, ApplyDefer, RetainVisit,
               EnterCallback, PopEffect
        <3> QED
            BY <1>7, <1>9, <3>1, <3>2, FlushAlone
    <2>3. CASE RetainSweeps
        <3>1. UNCHANGED <<phase, entered>>
            BY <2>3 DEF RetainSweeps, flushVars
        <3> QED
            BY <2>1, <3>1
    <2> QED
        BY <1>2, <1>3, <1>6, <1>8, <2>1, <2>2, <2>3, PhaseFrame
<1> QED
    BY <1>1, <1>2, <1>3, <1>4, <1>6, <1>8, <1>9, TxnFrame
-----------------------------------------------------------------------------
\* What a step does to the stack of transactions.
Grows == \E kind \in Kinds, e \in Entities \cup {NoEntity} :
             /\ Begin(kind, e) /\ (kind = "update" <=> e = NoEntity)
             /\ Level' = Level + 1 /\ \A i \in 1 .. Level : transactions'[i] = transactions[i]
             /\ transactions'[Level + 1].kind = kind /\ transactions'[Level + 1].entity = e
Shrinks == /\ InBody /\ Level > base /\ Level' = Level - 1
           /\ \A i \in 1 .. Level - 1 : transactions'[i] = transactions[i]
Ends == /\ phase # "off" /\ phase' = "off" /\ Level = 1 /\ base = 1
        /\ transactions' = <<>> /\ Level' = 0 /\ base' = 0

LEMMA StackMoves ==
    ASSUME Set!TypeOK, CallsShape, Stack, Next
    PROVE  \/ /\ Grows /\ UNCHANGED <<phase, base, entered>>
              /\ Update \/ \E e \in Entities : UpdateEntity(e) \/ Borrow(e) \/ NewEntity(e)
           \/ Shrinks /\ UNCHANGED <<phase, base, entered>> /\ ((Finish /\ ~StartsFlush) \/ BodyPanics)
           \/ /\ Finish /\ StartsFlush /\ phase = "off" /\ phase' = "release" /\ Level = 1
              /\ base = 0 /\ base' = 1 /\ transactions' = transactions /\ Level' = Level
           \/ Ends /\ (ReleaseDone \/ DeferDone \/ RetainEnds) /\ AbortFlush
           \/ Ends /\ FlushDone
           \/ UNCHANGED <<transactions, base>> /\ Level' = Level
<1>0. OpsType' /\ ops'.depth = ops.depth
    BY OpsStep DEF Stack
<1>1. CASE Update \/ \E e \in Entities : UpdateEntity(e) \/ Borrow(e) \/ NewEntity(e)
    <2>1. PICK kind \in Kinds, e \in Entities \cup {NoEntity} :
                  Begin(kind, e) /\ (kind = "update" <=> e = NoEntity)
        BY <1>1, CycleAssumption DEF Update, UpdateEntity, Borrow, NewEntity, Kinds
    <2>2. Grows
        BY <1>0, <2>1, BeginStack DEF Grows
    <2>3. UNCHANGED <<phase, base, entered>>
        BY <2>1 DEF Begin, flushVars
    <2> QED
        BY <1>1, <2>2, <2>3
<1>2. CASE Finish /\ ~StartsFlush
    <2>1. /\ InBody /\ transactions' = SubSeq(transactions, 1, Level - 1)
          /\ pending_updates' = Level - 1 /\ flushing_effects' = flushing_effects
          /\ UNCHANGED <<phase, base, entered>>
        BY <1>2 DEF Finish, Stack
    <2>2. Shrinks
        BY <1>0, <2>1, PopStack DEF Shrinks
    <2> QED
        BY <1>2, <2>1, <2>2
<1>3. CASE Finish /\ StartsFlush
    <2>1. /\ Level = 1 /\ phase = "off" /\ phase' = "release" /\ base = 0
          /\ base' = 1 /\ UNCHANGED transactions
        BY <1>3 DEF Finish, StartsFlush, Stack
    <2>2. Level' = Level
        BY <2>1 DEF Level
    <2> QED
        BY <1>3, <2>1, <2>2
<1>4. CASE BodyPanics
    <2>1. /\ InBody /\ transactions' = SubSeq(transactions, 1, Level - 1) /\ Restore(Txn)
          /\ UNCHANGED <<phase, base, entered>>
        BY <1>4 DEF BodyPanics, flushVars
    <2>2. Shrinks
        BY <1>0, <2>1, RestoreStack, PopStack DEF Shrinks
    <2> QED
        BY <1>4, <2>1, <2>2
<1>5. Len(<<>>) = 0
    OBVIOUS
<1>6. CASE FlushDone
    <2>1. phase # "off" /\ Level = 1 /\ pending_updates = 1 /\ base = 1
        BY <1>6, FlushAlone DEF FlushDone, Stack
    <2>2. pending_updates' = 0
        BY <1>6, <2>1 DEF FlushDone
    <2>3. transactions' = <<>>
        BY <1>0, <1>6, <2>1, <2>2, EndStack DEF FlushDone
    <2> QED
        BY <1>5, <1>6, <2>1, <2>3 DEF FlushDone, Ends, Level
<1>8. CASE ReleaseDone \/ DeferDone \/ RetainEnds
    <2>1. AbortFlush \/ UNCHANGED <<transactions, base>>
        BY <1>8 DEF ReleaseDone, DeferDone, RetainEnds, GoOn
    <2>2. phase # "off" /\ Level = 1 /\ base = 1
        <3>1. CASE ReleaseDone \/ DeferDone
            BY <3>1, FlushAlone DEF ReleaseDone, DeferDone
        <3>2. CASE RetainEnds
            BY <3>2, FlushAlone, RetainEndsOutside DEF RetainEnds
        <3> QED
            BY <1>8, <3>1, <3>2
    <2>3. CASE AbortFlush
        <3>1. transactions' = <<>>
            BY <1>0, <2>2, <2>3, AbortStack
        <3>2. Level' = 0
            BY <1>5, <3>1 DEF Level
        <3> QED
            BY <1>8, <2>2, <2>3, <3>1, <3>2 DEF Ends, AbortFlush
    <2>4. CASE UNCHANGED <<transactions, base>>
        BY <2>4 DEF Level
    <2> QED
        BY <2>1, <2>3, <2>4
<1>9. CASE UNCHANGED <<transactions, base>>
    BY <1>9 DEF Level
<1> QED
    BY <1>1, <1>2, <1>3, <1>4, <1>6, <1>8, <1>9, TxnFrame

\* Only a plain update is of no entity.
KindsFit ==
    \A i \in 1 .. Level :
        /\ transactions[i].kind \in Kinds /\ transactions[i].entity \in Entities \cup {NoEntity}
        /\ transactions[i].kind = "update" <=> transactions[i].entity = NoEntity

LEMMA KindsStep == ASSUME Set!TypeOK, CallsShape, Stack, KindsFit, Next PROVE KindsFit'
<1>0. Level \in Nat
    BY LevelType
<1>1. CASE Grows
    <2>1. PICK kind \in Kinds, e \in Entities \cup {NoEntity} :
             /\ kind = "update" <=> e = NoEntity
             /\ Level' = Level + 1 /\ \A i \in 1 .. Level : transactions'[i] = transactions[i]
             /\ transactions'[Level + 1].kind = kind /\ transactions'[Level + 1].entity = e
        BY <1>1 DEF Grows
    <2>2. \A i \in 1 .. Level' : i \in 1 .. Level \/ i = Level + 1
        BY <1>0, <2>1
    <2> QED
        BY <2>1, <2>2 DEF KindsFit
<1>2. CASE Shrinks
    <2>1. \A i \in 1 .. Level' : i \in 1 .. Level - 1 /\ i \in 1 .. Level
        BY <1>0, <1>2 DEF Shrinks
    <2> QED
        BY <1>2, <2>1 DEF KindsFit, Shrinks
<1>3. CASE Ends
    BY <1>3 DEF Ends, KindsFit
<1>4. CASE transactions' = transactions /\ Level' = Level
    BY <1>4 DEF KindsFit
<1> QED
    BY <1>1, <1>2, <1>3, <1>4, StackMoves
-----------------------------------------------------------------------------
\* Which steps change the effect queue.
Pushes == \/ \E e \in Entities : Notify(e) \/ Emit(e) \/ Observe(e) \/ Subscribe(e)
          \/ \E g \in Globals : SetGlobal(g) \/ RemoveGlobal(g) \/ ObserveGlobal(g)
          \/ Defer \/ Finish \/ BodyPanics
Pops == \/ ApplyNotify \/ ApplyNotifyGlobalObservers \/ ApplyEmit \/ ApplyActivate \/ ApplyDefer

LEMMA QueueFrame ==
    Next => Pushes \/ Pops
              \/ UNCHANGED <<pending_effects, pending_notifications, pending_global_notifications>>
BY DEF Next, UserStep, ReturnStep, FlushStep, Pushes, Pops, ObserveRelease, AcquireHandle,
   UpdateEntity, Borrow, NewEntity, DropSubscription, Update, Begin, ListenerDone, DeferDone,
   CallbackPanics, CallbackReturns, TakeDropped, ReleaseObservers, BeginListeners, NextListener,
   ListenersDone, DropEntity, ReleaseDone, RetainVisit, RetainSweeps, EnterCallback, RetainEnds,
   FlushDone, DropHandle, queueVars

\* The effect a step queues.
Sent == {[kind |-> k, of |-> e, born |-> next_subscriber_id] :
             k \in {"Notify", "Emit", "EntityCreated"}, e \in Entities}
          \cup {[kind |-> "NotifyGlobalObservers", of |-> g, born |-> next_subscriber_id] :
                    g \in Globals}
          \cup {[kind |-> "Activate", of |-> next_subscriber_id, born |-> next_subscriber_id],
                [kind |-> "Defer", of |-> NoEntity, born |-> next_subscriber_id]}

\* A step that pushes queues at most one effect, and marks what it notifies.
LEMMA PushStep ==
    ASSUME Stack, KindsFit, Pushes
    PROVE  \/ UNCHANGED <<pending_effects, pending_notifications, pending_global_notifications>>
           \/ \E effect \in Sent :
                 /\ pending_effects' = Append(pending_effects, effect)
                 /\ IF effect.kind = "Notify"
                    THEN /\ effect.of \notin pending_notifications
                         /\ pending_notifications' = pending_notifications \cup {effect.of}
                    ELSE UNCHANGED pending_notifications
                 /\ IF effect.kind = "NotifyGlobalObservers"
                    THEN /\ effect.of \notin pending_global_notifications
                         /\ pending_global_notifications' =
                               pending_global_notifications \cup {effect.of}
                    ELSE UNCHANGED pending_global_notifications
<1> DEFINE Marked(effect) ==
                 /\ pending_effects' = Append(pending_effects, effect)
                 /\ IF effect.kind = "Notify"
                    THEN /\ effect.of \notin pending_notifications
                         /\ pending_notifications' = pending_notifications \cup {effect.of}
                    ELSE UNCHANGED pending_notifications
                 /\ IF effect.kind = "NotifyGlobalObservers"
                    THEN /\ effect.of \notin pending_global_notifications
                         /\ pending_global_notifications' =
                               pending_global_notifications \cup {effect.of}
                    ELSE UNCHANGED pending_global_notifications
           Same == UNCHANGED <<pending_effects, pending_notifications,
                               pending_global_notifications>>
           Goal == Same \/ \E effect \in Sent : Marked(effect)
<1>1. ASSUME NEW e \in Entities, PushNotify(e) PROVE Goal
    <2>1. CASE e \notin pending_notifications
        <3>1. Marked(Effect("Notify", e))
            BY <1>1, <2>1 DEF PushNotify, Effect
        <3>2. Effect("Notify", e) \in Sent
            BY DEF Effect, Sent
        <3> QED
            BY <3>1, <3>2
    <2> QED
        BY <1>1, <2>1 DEF PushNotify
<1>2. ASSUME NEW g \in Globals, PushNotifyGlobal(g) PROVE Goal
    <2>1. CASE g \notin pending_global_notifications
        <3>1. Marked(Effect("NotifyGlobalObservers", g))
            BY <1>2, <2>1 DEF PushNotifyGlobal, Effect
        <3>2. Effect("NotifyGlobalObservers", g) \in Sent
            BY DEF Effect, Sent
        <3> QED
            BY <3>1, <3>2
    <2> QED
        BY <1>2, <2>1 DEF PushNotifyGlobal
<1>3. ASSUME NEW e \in Entities,
             Push(Effect("Emit", e)) \/ Push(Effect("EntityCreated", e))
      PROVE  Goal
    <2>1. Marked(Effect("Emit", e)) \/ Marked(Effect("EntityCreated", e))
        BY <1>3 DEF Push, Effect
    <2>2. Effect("Emit", e) \in Sent /\ Effect("EntityCreated", e) \in Sent
        BY DEF Effect, Sent
    <2> QED
        BY <2>1, <2>2
<1>4. ASSUME Push(Effect("Activate", next_subscriber_id)) \/ Push(Effect("Defer", NoEntity))
      PROVE  Goal
    <2>1. Marked(Effect("Activate", next_subscriber_id)) \/ Marked(Effect("Defer", NoEntity))
        BY <1>4 DEF Push, Effect
    <2>2. Effect("Activate", next_subscriber_id) \in Sent /\ Effect("Defer", NoEntity) \in Sent
        BY DEF Effect, Sent
    <2> QED
        BY <2>1, <2>2
<1> HIDE DEF Marked, Same, Goal
<1>5. ASSUME \E e \in Entities : Notify(e) \/ Emit(e) PROVE Goal
    BY <1>1, <1>3, <1>5 DEF Notify, Emit
<1>6. ASSUME \/ \E e \in Entities : Observe(e) \/ Subscribe(e)
             \/ \E g \in Globals : ObserveGlobal(g)
             \/ Defer
      PROVE  Goal
    BY <1>4, <1>6 DEF Observe, Subscribe, ObserveGlobal, Defer, SubscribeTo
<1>7. ASSUME \E g \in Globals : SetGlobal(g) \/ RemoveGlobal(g) PROVE Goal
    BY <1>2, <1>7 DEF SetGlobal, RemoveGlobal
<1>8. ASSUME Finish \/ BodyPanics PROVE Goal
    <2>0. InBody
        BY <1>8 DEF Finish, BodyPanics
    <2>1. Level \in Nat /\ Level > 0
        BY <2>0, BodyLevel
    <2>2. Txn.kind \in Kinds /\ (Txn.kind # "update" => Txn.entity \in Entities)
        BY <2>1, CycleAssumption DEF KindsFit, Txn
    <2>3. \/ Txn.kind = "borrow" /\ PushNotify(Txn.entity)
          \/ Txn.kind = "new" /\ Push(Effect("EntityCreated", Txn.entity))
          \/ Same
        BY <1>8, <2>2 DEF Finish, BodyPanics, BodyEffects, queueVars, Same, Kinds
    <2> QED
        BY <1>1, <1>3, <2>2, <2>3 DEF Goal
<1>9. Goal
    BY <1>5, <1>6, <1>7, <1>8 DEF Pushes
<1> QED
    BY <1>9 DEF Goal, Marked, Same

\* The first effect is taken and its mark with it.
LEMMA PopStep ==
    ASSUME Pops
    PROVE  /\ pending_effects # <<>> /\ pending_effects' = Tail(pending_effects)
           /\ phase = "effects" /\ age' = Head(pending_effects).born
           /\ Head(pending_effects).kind = "Notify" => ApplyNotify
           /\ Head(pending_effects).kind = "NotifyGlobalObservers" => ApplyNotifyGlobalObservers
           /\ Head(pending_effects).kind = "Activate" => ApplyActivate
           /\ pending_notifications' =
                 IF Head(pending_effects).kind = "Notify"
                 THEN pending_notifications \ {Popped} ELSE pending_notifications
           /\ pending_global_notifications' =
                 IF Head(pending_effects).kind = "NotifyGlobalObservers"
                 THEN pending_global_notifications \ {Popped} ELSE pending_global_notifications
BY DEF Pops, ApplyNotify, ApplyNotifyGlobalObservers, ApplyEmit, ApplyActivate, ApplyDefer,
   PopEffect

LEMMA SentTyped ==
    ASSUME Set!TypeOK, NEW effect \in Sent,
           effect.kind = "Activate" => next_subscriber_id < MaxSubscribers
    PROVE  effect \in Effects
BY CycleAssumption DEF Sent, Effects, Set!TypeOK

\* The effect that activates a subscriber is queued with its subscription.
LEMMA ActivatePushed ==
    ASSUME QueueType, Pushes, NEW effect \in Sent,
           pending_effects' = Append(pending_effects, effect), effect.kind = "Activate"
    PROVE  /\ next_subscriber_id < MaxSubscribers
           /\ next_subscriber_id' = next_subscriber_id + 1 /\ active' = active
<1>1. Len(pending_effects') = Len(pending_effects) + 1
      /\ pending_effects'[Len(pending_effects) + 1] = effect
    BY DEF QueueType
<1>2. CASE \/ \E e \in Entities : Observe(e) \/ Subscribe(e)
           \/ \E g \in Globals : ObserveGlobal(g)
    BY <1>2 DEF Observe, Subscribe, ObserveGlobal, SubscribeTo, Set!Insert
<1>3. ASSUME NEW kind, NEW of, kind # "Activate",
             pending_effects' = Append(pending_effects, Effect(kind, of))
      PROVE  FALSE
    <2>1. pending_effects'[Len(pending_effects) + 1] = Effect(kind, of)
        BY <1>3 DEF QueueType
    <2> QED
        BY <1>1, <1>3, <2>1 DEF Effect
<1>4. ASSUME UNCHANGED pending_effects PROVE FALSE
    BY <1>1, <1>4 DEF QueueType
<1>5. ASSUME NEW e, PushNotify(e) PROVE FALSE
    BY <1>3, <1>4, <1>5 DEF PushNotify
<1>6. ASSUME NEW e, PushNotifyGlobal(e) PROVE FALSE
    BY <1>3, <1>4, <1>6 DEF PushNotifyGlobal
<1>7. ASSUME NEW e, Push(Effect("Emit", e)) \/ Push(Effect("EntityCreated", e))
               \/ Push(Effect("Defer", e)) PROVE FALSE
    BY <1>3, <1>7 DEF Push
<1>8. CASE \/ \E e \in Entities : Notify(e) \/ Emit(e)
           \/ \E g \in Globals : SetGlobal(g) \/ RemoveGlobal(g)
           \/ Defer
    BY <1>5, <1>6, <1>7, <1>8 DEF Notify, Emit, SetGlobal, RemoveGlobal, Defer
<1>9. CASE Finish \/ BodyPanics
    BY <1>4, <1>5, <1>7, <1>9 DEF Finish, BodyPanics, BodyEffects, queueVars
<1> QED
    BY <1>2, <1>8, <1>9 DEF Pushes

LEMMA QueueStep ==
    ASSUME Set!TypeOK, Stack, KindsFit, QueueType, Next PROVE QueueType'
<1>1. CASE Pushes
    <2>1. CASE UNCHANGED <<pending_effects, pending_notifications, pending_global_notifications>>
        BY <2>1 DEF QueueType
    <2>2. ASSUME NEW effect \in Sent, pending_effects' = Append(pending_effects, effect),
                 effect.kind = "Activate"
          PROVE  next_subscriber_id < MaxSubscribers
        BY <1>1, <2>2, ActivatePushed
    <2>3. ASSUME NEW effect \in Sent, pending_effects' = Append(pending_effects, effect)
          PROVE  pending_effects' \in Seq(Effects)
        BY <2>2, <2>3, SentTyped DEF QueueType
    <2>4. ASSUME NEW effect \in Sent
          PROVE  /\ effect.kind = "Notify" => effect.of \in Entities
                 /\ effect.kind = "NotifyGlobalObservers" => effect.of \in Globals
        BY DEF Sent
    <2> QED
        BY <1>1, <2>1, <2>3, <2>4, PushStep DEF QueueType
<1>2. CASE Pops
    BY <1>2, PopStep DEF QueueType
<1>3. CASE UNCHANGED <<pending_effects, pending_notifications, pending_global_notifications>>
    BY <1>3 DEF QueueType
<1> QED
    BY <1>1, <1>2, <1>3, QueueFrame
-----------------------------------------------------------------------------
LEMMA SubjectStep ==
    ASSUME Set!TypeOK, CallsShape, QueueType, SubjectType, dropped_entity_ids \subseteq Entities,
           flushing_effects <=> phase # "off", Next
    PROVE  SubjectType'
<1> USE DEF Releasing
<1>1. CASE TakeDropped
    BY <1>1 DEF TakeDropped, SubjectType
<1>2. CASE ReleaseObservers
    BY <1>2 DEF ReleaseObservers, SubjectType
<1>3. CASE DropEntity
    BY <1>3 DEF DropEntity, SubjectType
<1>4. CASE ApplyDefer
    <2>1. Popped \in Entities \cup {NoEntity}
        BY <1>4, PoppedType DEF ApplyDefer
    <2> QED
        BY <1>4, <2>1 DEF ApplyDefer, SubjectType
<1>5. CASE DeferDone
    BY <1>5 DEF DeferDone, SubjectType, GoOn, AbortFlush
<1>6. CASE Finish
    BY <1>6 DEF Finish, SubjectType, StartsFlush
<1>7. CASE BeginListeners \/ ListenersDone
    BY <1>7 DEF BeginListeners, ListenersDone, SubjectType
<1>8. CASE ReleaseDone
    BY <1>8 DEF ReleaseDone, AbortFlush, SubjectType
<1>9. CASE ApplyNotify \/ ApplyNotifyGlobalObservers \/ ApplyEmit \/ ApplyActivate
    BY <1>9 DEF ApplyNotify, ApplyNotifyGlobalObservers, ApplyEmit, ApplyActivate, PopEffect,
       Dispatch, SubjectType
<1>10. CASE RetainEnds \/ FlushDone
    BY <1>10 DEF RetainEnds, FlushDone, AbortFlush, GoOn, SubjectType
<1>11. CASE UNCHANGED <<phase, subject, batch>>
    BY <1>11 DEF SubjectType
<1>12. ASSUME \/ ListenerDone \/ CallbackPanics \/ \E keep \in BOOLEAN : CallbackReturns(keep)
              \/ NextListener \/ RetainVisit \/ RetainSweeps \/ EnterCallback
       PROVE  UNCHANGED <<phase, subject, batch>>
    BY <1>12 DEF ListenerDone, CallbackPanics, CallbackReturns, NextListener, RetainVisit,
       RetainSweeps, EnterCallback, flushVars
<1>13. ASSUME \/ UserStep \/ BodyPanics \/ \E e \in Entities : DropHandle(e)
       PROVE  UNCHANGED <<phase, subject, batch>>
    BY <1>13 DEF UserStep, Notify, Emit, Observe, Subscribe, ObserveRelease, AcquireHandle,
       UpdateEntity, Borrow, NewEntity, SetGlobal, RemoveGlobal, ObserveGlobal,
       DropSubscription, Defer, Update, Begin, BodyPanics, DropHandle, SubscribeTo, flushVars
<1> QED
    BY <1>1, <1>2, <1>3, <1>4, <1>5, <1>6, <1>7, <1>8, <1>9, <1>10, <1>11, <1>12, <1>13
       DEF Next, ReturnStep, FlushStep
-----------------------------------------------------------------------------
\* The map of entities; that no count is negative follows from RefCountsExact.
EntityType ==
    /\ slot \in [Entities -> Slots]
    /\ strong \in [Entities -> Int]
    /\ handles \in [Entities -> Nat]
    /\ dropped_entity_ids \subseteq Entities

\* Which steps change the slots, the counts and the handles.
LEMMA EntityFrame ==
    Next => \/ UNCHANGED entityVars
            \/ \E e \in Entities : AcquireHandle(e) \/ UpdateEntity(e) \/ Borrow(e) \/ NewEntity(e)
                 \/ DropHandle(e)
            \/ Finish \/ BodyPanics \/ TakeDropped \/ DropEntity \/ ReleaseDone \/ DeferDone
            \/ EnterCallback \/ CallbackPanics \/ \E keep \in BOOLEAN : CallbackReturns(keep)
            \/ RetainEnds \/ FlushDone
BY DEF Next, UserStep, ReturnStep, FlushStep, Notify, Emit, Observe, Subscribe, ObserveRelease,
   SetGlobal, RemoveGlobal, ObserveGlobal, DropSubscription, Defer, Update, Begin, ListenerDone,
   ReleaseObservers, BeginListeners, NextListener, ListenersDone, ApplyNotify,
   ApplyNotifyGlobalObservers, ApplyEmit, ApplyActivate, ApplyDefer, RetainVisit, RetainSweeps,
   SubscribeTo, Dispatch, entityVars

\* What dropping handles does to the counts.
LEMMA RefsType ==
    ASSUME EntityType, NEW lost \in [Entities -> Int], ReleaseRefs(lost)
    PROVE  strong' \in [Entities -> Int] /\ dropped_entity_ids' \subseteq Entities
BY DEF ReleaseRefs, EntityType

LEMMA LostTypes ==
    /\ \A e : One(e) \in [Entities -> 0 .. 1]
    /\ \A e, x : Sum(One(e), One(x)) \in [Entities -> 0 .. 2]
<1>1. \A e : One(e) \in [Entities -> 0 .. 1]
    BY DEF One
<1> QED
    BY <1>1 DEF Sum

\* The handles the caller has again.
LEMMA ReturnType ==
    ASSUME EntityType, NEW t, NEW ok, ReturnHandles(t, ok), t.kind # "update" => t.entity \in Entities
    PROVE  handles' \in [Entities -> Nat]
BY DEF ReturnHandles, EntityType

\* What the unwinding of a transaction drops.
LEMMA LostResultIs == \E x : LostResult = One(x)
BY DEF LostResult

LEMMA EntityStep ==
    ASSUME Set!TypeOK, CallsShape, Stack, KindsFit, SubjectType, EntityType, Next
    PROVE  EntityType'
<1> USE DEF Slots
<1>a. ASSUME NEW x, ReleaseRefs(One(x))
      PROVE  strong' \in [Entities -> Int] /\ dropped_entity_ids' \subseteq Entities
    <2>1. One(x) \in [Entities -> Int]
        BY DEF One
    <2> QED
        BY <1>a, <2>1, RefsType
<1>b. ASSUME NEW x, NEW y, ReleaseRefs(Sum(One(x), One(y)))
      PROVE  strong' \in [Entities -> Int] /\ dropped_entity_ids' \subseteq Entities
    <2>1. Sum(One(x), One(y)) \in [Entities -> Int]
        BY DEF One, Sum
    <2> QED
        BY <1>b, <2>1, RefsType
<1>c. ASSUME AbortFlush, phase # "off"
      PROVE  handles' \in [Entities -> Nat]
    <2>1. base = 1 /\ 1 \in 1 .. Level
        BY <1>c, LevelType DEF Stack
    <2>2. transactions[base].kind # "update" => transactions[base].entity \in Entities
        BY <2>1, CycleAssumption DEF KindsFit
    <2> QED
        BY <1>c, <2>2, ReturnType DEF AbortFlush
<1>1. ASSUME NEW e \in Entities, AcquireHandle(e) \/ DropHandle(e) PROVE EntityType'
    <2>1. CASE AcquireHandle(e)
        BY <2>1 DEF AcquireHandle, EntityType
    <2>2. CASE DropHandle(e)
        <3>1. strong' \in [Entities -> Int] /\ dropped_entity_ids' \subseteq Entities
            BY <1>a, <2>2 DEF DropHandle
        <3>2. handles[e] - 1 \in Nat
            BY <2>2 DEF DropHandle, EntityType
        <3>3. slot' = slot /\ handles' = [handles EXCEPT ![e] = @ - 1]
            BY <2>2 DEF DropHandle
        <3> QED
            BY <3>1, <3>2, <3>3 DEF EntityType
    <2> QED
        BY <1>1, <2>1, <2>2
<1>2. ASSUME NEW e \in Entities, UpdateEntity(e) \/ Borrow(e) \/ NewEntity(e) PROVE EntityType'
    <2>1. handles[e] > 0 => handles[e] - 1 \in Nat
        BY DEF EntityType
    <2>2. dropped_entity_ids' = dropped_entity_ids
        BY <1>2 DEF UpdateEntity, Borrow, NewEntity, Begin
    <2>3. handles' = handles \/ (handles[e] > 0 /\ handles' = [handles EXCEPT ![e] = @ - 1])
        BY <1>2 DEF UpdateEntity, Borrow, NewEntity
    <2>4. slot' \in [Entities -> Slots] /\ strong' \in [Entities -> Int]
        BY <1>2 DEF UpdateEntity, Borrow, NewEntity, EntityType
    <2> QED
        BY <2>1, <2>2, <2>3, <2>4 DEF EntityType
<1>3. CASE Finish \/ BodyPanics
    <2>0. InBody
        BY <1>3 DEF Finish, BodyPanics
    <2>1. Level \in Nat /\ Level > 0
        BY <2>0, BodyLevel
    <2>2. Txn.kind # "update" => Txn.entity \in Entities
        BY <2>1, CycleAssumption DEF KindsFit, Txn
    <2>3. Txn.entity \in Entities \cup {NoEntity}
        BY <2>1 DEF KindsFit, Txn
    <2>4. handles' \in [Entities -> Nat]
        BY <1>3, <2>2, ReturnType DEF Finish, BodyPanics, EntityType
    <2>5. slot' \in [Entities -> Slots]
        BY <1>3, <2>3 DEF Finish, BodyPanics, UnwindSlot, StoreEntity, EntityType
    <2>6. strong' \in [Entities -> Int] /\ dropped_entity_ids' \subseteq Entities
        BY <1>3, <1>a, <1>b DEF Finish, BodyPanics, EntityType
    <2> QED
        BY <2>4, <2>5, <2>6 DEF EntityType
<1>4. CASE TakeDropped \/ DropEntity
    BY <1>4 DEF TakeDropped, DropEntity, EntityType
<1>5. CASE ReleaseDone \/ RetainEnds
    <2>1. PICK x : LostResult = One(x)
        BY LostResultIs
    <2>2. CASE AbortFlush
        BY <1>5, <1>a, <1>c, <2>1, <2>2 DEF ReleaseDone, RetainEnds, EntityType
    <2> QED
        BY <1>5, <1>a, <1>c, <2>1 DEF ReleaseDone, RetainEnds, GoOn, EntityType
<1>6. CASE DeferDone
    <2>1. PICK x : LostResult = One(x)
        BY LostResultIs
    <2>2. handles' \in [Entities -> Nat] /\ slot' = slot
        BY <1>6, <1>c DEF DeferDone, GoOn, EntityType
    <2>3. strong' \in [Entities -> Int] /\ dropped_entity_ids' \subseteq Entities
        BY <1>6, <1>a, <1>b, <2>1 DEF DeferDone
    <2> QED
        BY <2>2, <2>3 DEF EntityType
<1>7. CASE EnterCallback
    <2>1. strong' = strong \/ strong' = [strong EXCEPT ![Emitter] = @ + 1]
        BY <1>7 DEF EnterCallback
    <2>2. strong' \in [Entities -> Int]
        BY <2>1 DEF EntityType
    <2> QED
        BY <1>7, <2>2 DEF EnterCallback, EntityType
<1>8. CASE CallbackPanics \/ \E keep \in BOOLEAN : CallbackReturns(keep)
    BY <1>8, <1>a DEF CallbackPanics, CallbackReturns, LeaveCallback, EntityType
<1>9. CASE FlushDone
    <2>1. base = 1 /\ 1 \in 1 .. Level
        BY <1>9, LevelType DEF Stack, FlushDone
    <2>2. transactions[base].kind # "update" => transactions[base].entity \in Entities
        BY <2>1, CycleAssumption DEF KindsFit
    <2> QED
        BY <1>9, <2>2, ReturnType DEF FlushDone, EntityType
<1>10. CASE UNCHANGED entityVars
    BY <1>10 DEF entityVars, EntityType
<1> QED
    BY <1>1, <1>2, <1>3, <1>4, <1>5, <1>6, <1>7, <1>8, <1>9, <1>10, EntityFrame
-----------------------------------------------------------------------------
\* A body has its entity for itself: what it leases is out of the map, what it creates is
\* not in it yet, and no two bodies have the same entity.
Leases ==
    /\ LeasesBalanced
    /\ \A i \in base + 1 .. Level :
          transactions[i].kind = "new" => slot[transactions[i].entity] \in {"reserved", "abandoned"}
    /\ \A i, j \in base + 1 .. Level :
          /\ transactions[i].entity = transactions[j].entity
          /\ transactions[i].entity # NoEntity
          => i = j

LEMMA SlotFrame ==
    Next => \/ UNCHANGED slot
            \/ \E e \in Entities : UpdateEntity(e) \/ Borrow(e) \/ NewEntity(e)
            \/ Finish \/ BodyPanics \/ TakeDropped \/ DropEntity
<1>1. UNCHANGED entityVars => UNCHANGED slot
    BY DEF entityVars
<1>2. \/ \E e \in Entities : AcquireHandle(e) \/ DropHandle(e)
      \/ ReleaseDone \/ DeferDone \/ EnterCallback \/ CallbackPanics
      \/ \E keep \in BOOLEAN : CallbackReturns(keep)
      \/ RetainEnds \/ FlushDone
      => UNCHANGED slot
    BY DEF AcquireHandle, DropHandle, ReleaseDone, DeferDone, EnterCallback, CallbackPanics,
       CallbackReturns, RetainEnds, FlushDone
<1> QED
    BY <1>1, <1>2, EntityFrame

\* A body begins with an entity no other body has.
LEMMA LeaseBegins ==
    ASSUME Stack, KindsFit, EntityType, Leases, OpsType', ops'.depth = ops.depth,
           NEW kind \in Kinds \ {"update"}, NEW e \in Entities, Begin(kind, e),
           slot[e] = IF kind = "new" THEN "vacant" ELSE "stored",
           slot' = [slot EXCEPT ![e] = IF kind = "new" THEN "reserved" ELSE "leased"]
    PROVE  Leases'
<1>1. /\ Level \in Nat /\ base \in 0 .. 1
      /\ Level' = Level + 1 /\ \A i \in 1 .. Level : transactions'[i] = transactions[i]
      /\ transactions'[Level + 1].kind = kind /\ transactions'[Level + 1].entity = e
      /\ base' = base /\ base <= Level
    BY BeginStack, LevelType DEF Stack
<1>2. \A i \in base' + 1 .. Level' :
          (i \in base + 1 .. Level /\ transactions'[i] = transactions[i]) \/ i = Level + 1
    BY <1>1
<1>3. \A i \in base + 1 .. Level : i \in base' + 1 .. Level'
    BY <1>1
<1>4. Level + 1 \in base' + 1 .. Level'
    BY <1>1
<1>5. \A i \in base + 1 .. Level : transactions[i].entity # e
    <2> SUFFICES ASSUME NEW i \in base + 1 .. Level, transactions[i].entity = e PROVE FALSE
        OBVIOUS
    <2>1. i \in 1 .. Level
        BY <1>1
    <2>2. transactions[i].kind \in {"update_entity", "borrow", "new"}
        BY <2>1, CycleAssumption DEF KindsFit, Kinds
    <2> QED
        BY <2>2 DEF Leases, LeasesBalanced
<1>6. LeasesBalanced'
    <2> SUFFICES ASSUME NEW x \in Entities
                 PROVE  slot'[x] = "leased" <=>
                            \E i \in base' + 1 .. Level' :
                                /\ transactions'[i].kind \in {"update_entity", "borrow"}
                                /\ transactions'[i].entity = x
        BY DEF LeasesBalanced
    <2>1. CASE x = e
        <3>1. slot'[x] = "leased" <=> kind # "new"
            BY <2>1 DEF EntityType
        <3> QED
            BY <1>1, <1>2, <1>4, <1>5, <2>1, <3>1 DEF Kinds
    <2>2. CASE x # e
        <3>1. slot'[x] = slot[x]
            BY <2>2 DEF EntityType
        <3>2. slot[x] = "leased" <=>
                  \E i \in base + 1 .. Level :
                                /\ transactions[i].kind \in {"update_entity", "borrow"}
                                /\ transactions[i].entity = x
            BY DEF Leases, LeasesBalanced
        <3>3. \A i \in base + 1 .. Level : transactions'[i] = transactions[i]
            BY <1>1
        <3> QED
            BY <1>1, <1>2, <1>3, <2>2, <3>1, <3>2, <3>3
    <2> QED
        BY <2>1, <2>2
<1>7. ASSUME NEW i \in base' + 1 .. Level', transactions'[i].kind = "new"
      PROVE  slot'[transactions'[i].entity] \in {"reserved", "abandoned"}
    <2>1. CASE i = Level + 1
        BY <1>1, <1>7, <2>1 DEF EntityType
    <2>2. CASE i \in base + 1 .. Level /\ transactions'[i] = transactions[i]
        <3>1. i \in 1 .. Level
            BY <1>1, <2>2
        <3>2. transactions[i].entity \in Entities
            BY <1>7, <2>2, <3>1, CycleAssumption DEF KindsFit
        <3> QED
            BY <1>5, <1>7, <2>2, <3>2 DEF Leases, EntityType
    <2> QED
        BY <1>2, <2>1, <2>2
<1>8. ASSUME NEW i \in base' + 1 .. Level', NEW j \in base' + 1 .. Level',
             transactions'[i].entity = transactions'[j].entity, transactions'[i].entity # NoEntity
      PROVE  i = j
    BY <1>1, <1>2, <1>5, <1>8 DEF Leases
<1> QED
    BY <1>6, <1>7, <1>8 DEF Leases

\* A body gives its entity back when it ends.
LEMMA LeaseEnds ==
    ASSUME Stack, KindsFit, EntityType, Leases, Shrinks, base' = base,
           \/ StoreEntity(Txn)
           \/ Txn.kind \in {"update", "new"} /\ slot' = slot
    PROVE  Leases'
<1>1. /\ Level \in Nat /\ base \in 0 .. 1 /\ Level > base /\ Level' = Level - 1
      /\ \A i \in 1 .. Level - 1 : transactions'[i] = transactions[i]
    BY LevelType DEF Stack, Shrinks
<1>2. Level \in base + 1 .. Level /\ Level \in 1 .. Level /\ Txn = transactions[Level]
    BY <1>1 DEF Txn
<1>3. \A i \in base' + 1 .. Level' : /\ i \in base + 1 .. Level /\ i # Level
                                     /\ transactions'[i] = transactions[i]
    BY <1>1
<1>4. \A i \in base + 1 .. Level : i = Level \/ i \in base' + 1 .. Level'
    BY <1>1
<1>5. Txn.entity \in Entities \cup {NoEntity} /\ (Txn.kind = "update" <=> Txn.entity = NoEntity)
    BY <1>2 DEF KindsFit
<1>6. \A i \in base' + 1 .. Level' : Txn.entity # NoEntity => transactions[i].entity # Txn.entity
    BY <1>2, <1>3 DEF Leases
<1>7. \A x \in Entities : x # Txn.entity => slot'[x] = slot[x]
    BY <1>5 DEF StoreEntity, EntityType
<1>8. slot'[Txn.entity] # "leased" \/ Txn.entity = NoEntity
    <2>1. CASE Txn.kind = "new" /\ slot' = slot
        BY <1>2, <2>1 DEF Leases
    <2>2. CASE StoreEntity(Txn) /\ Txn.entity # NoEntity
        BY <1>5, <2>2 DEF StoreEntity, EntityType
    <2> QED
        BY <1>5, <2>1, <2>2
<1>9. LeasesBalanced'
    <2> SUFFICES ASSUME NEW x \in Entities
                 PROVE  slot'[x] = "leased" <=>
                            \E i \in base' + 1 .. Level' :
                                /\ transactions'[i].kind \in {"update_entity", "borrow"}
                                /\ transactions'[i].entity = x
        BY DEF LeasesBalanced
    <2>1. CASE x = Txn.entity
        <3>1. x # NoEntity
            BY CycleAssumption
        <3> QED
            BY <1>3, <1>6, <1>8, <2>1, <3>1
    <2>2. CASE x # Txn.entity
        <3>1. slot[x] = "leased" <=>
                  \E i \in base + 1 .. Level :
                                /\ transactions[i].kind \in {"update_entity", "borrow"}
                                /\ transactions[i].entity = x
            BY DEF Leases, LeasesBalanced
        <3> QED
            BY <1>2, <1>3, <1>4, <1>7, <2>2, <3>1
    <2> QED
        BY <2>1, <2>2
<1>10. ASSUME NEW i \in base' + 1 .. Level', transactions'[i].kind = "new"
      PROVE  slot'[transactions'[i].entity] \in {"reserved", "abandoned"}
    <2>1. i \in 1 .. Level
        BY <1>1, <1>3
    <2>2. transactions[i].entity \in Entities /\ transactions[i].entity # Txn.entity
        BY <1>3, <1>5, <1>6, <1>10, <2>1, CycleAssumption DEF KindsFit
    <2> QED
        BY <1>3, <1>7, <1>10, <2>2 DEF Leases
<1>11. ASSUME NEW i \in base' + 1 .. Level', NEW j \in base' + 1 .. Level',
             transactions'[i].entity = transactions'[j].entity, transactions'[i].entity # NoEntity
      PROVE  i = j
    BY <1>3, <1>11 DEF Leases
<1> QED
    BY <1>9, <1>10, <1>11 DEF Leases

\* With no body left, no entity is leased.
LEMMA NoLeases ==
    ASSUME Level' = base', base' \in Nat, \A x \in Entities : slot'[x] # "leased" PROVE Leases'
<1>0. \A n \in Nat : \A i \in n + 1 .. n : FALSE
    OBVIOUS
<1>1. \A i \in base' + 1 .. Level' : FALSE
    BY <1>0
<1> QED
    BY <1>1 DEF Leases, LeasesBalanced

LEMMA LeasesStep ==
    ASSUME Set!TypeOK, CallsShape, Stack, KindsFit, EntityType, Leases, Next PROVE Leases'
<1>0. OpsType' /\ ops'.depth = ops.depth
    BY OpsStep DEF Stack
<1>a. ASSUME Level = base PROVE \A x \in Entities : slot[x] # "leased"
    <2>1. \A i \in base + 1 .. Level : FALSE
        BY <1>a DEF Stack
    <2> QED
        BY <2>1 DEF Leases, LeasesBalanced
<1>1. ASSUME NEW e \in Entities, UpdateEntity(e) \/ Borrow(e) \/ NewEntity(e) PROVE Leases'
    <2>1. CASE UpdateEntity(e)
        BY <1>0, <2>1, LeaseBegins DEF UpdateEntity, Kinds
    <2>2. CASE Borrow(e)
        BY <1>0, <2>2, LeaseBegins DEF Borrow, Kinds
    <2>3. CASE NewEntity(e)
        BY <1>0, <2>3, LeaseBegins DEF NewEntity, Kinds
    <2> QED
        BY <1>1, <2>1, <2>2, <2>3
<1>2. CASE Update
    <2>1. Begin("update", NoEntity) /\ slot' = slot
        BY <1>2 DEF Update
    <2>2. /\ Level \in Nat /\ base \in 0 .. 1
          /\ Level' = Level + 1 /\ \A i \in 1 .. Level : transactions'[i] = transactions[i]
          /\ transactions'[Level + 1].kind = "update"
          /\ transactions'[Level + 1].entity = NoEntity
          /\ base' = base /\ base <= Level
        <3>1. "update" \in Kinds /\ NoEntity \in Entities \cup {NoEntity}
            BY DEF Kinds
        <3> QED
            BY <1>0, <2>1, <3>1, BeginStack, LevelType DEF Stack
    <2>3. \A i \in base' + 1 .. Level' :
              (i \in base + 1 .. Level /\ transactions'[i] = transactions[i]) \/ i = Level + 1
        BY <2>2
    <2>4. \A i \in base + 1 .. Level : i \in base' + 1 .. Level' /\ transactions'[i] = transactions[i]
        BY <2>2
    <2>5. LeasesBalanced'
        <3> SUFFICES ASSUME NEW x \in Entities
                     PROVE  slot[x] = "leased" <=>
                                \E i \in base' + 1 .. Level' :
                                    /\ transactions'[i].kind \in {"update_entity", "borrow"}
                                    /\ transactions'[i].entity = x
            BY <2>1 DEF LeasesBalanced
        <3>1. slot[x] = "leased" <=>
                  \E i \in base + 1 .. Level :
                                /\ transactions[i].kind \in {"update_entity", "borrow"}
                                /\ transactions[i].entity = x
            BY DEF Leases, LeasesBalanced
        <3> QED
            BY <2>2, <2>3, <2>4, <3>1
    <2>6. ASSUME NEW i \in base' + 1 .. Level', transactions'[i].kind = "new"
          PROVE  slot'[transactions'[i].entity] \in {"reserved", "abandoned"}
        BY <2>1, <2>2, <2>3, <2>6 DEF Leases
    <2>7. ASSUME NEW i \in base' + 1 .. Level', NEW j \in base' + 1 .. Level',
                 transactions'[i].entity = transactions'[j].entity,
                 transactions'[i].entity # NoEntity
          PROVE  i = j
        BY <2>2, <2>3, <2>7 DEF Leases
    <2> QED
        BY <2>5, <2>6, <2>7 DEF Leases
<1>3. CASE Shrinks /\ base' = base /\ (Finish \/ BodyPanics)
    <2>0. InBody
        BY <1>3 DEF Finish, BodyPanics
    <2>1. Level \in Nat /\ Level > 0
        BY <2>0, BodyLevel
    <2>2. Txn.kind \in Kinds
        BY <2>1 DEF KindsFit, Txn
    <2>3. StoreEntity(Txn) \/ (Txn.kind \in {"update", "new"} /\ slot' = slot)
        BY <1>3, <2>2 DEF Finish, BodyPanics, UnwindSlot, Kinds
    <2> QED
        BY <1>3, <2>3, LeaseEnds
<1>4. CASE Finish /\ base = 0 /\ base' = 1 /\ Level = 1 /\ Level' = Level
    <2>1. Txn.entity \in Entities \cup {NoEntity} /\ Txn = transactions[1]
        BY <1>4 DEF KindsFit, Txn
    <2>2. \A x \in Entities : slot[x] = "leased" => transactions[1].entity = x
        <3>1. \A i \in base + 1 .. Level : i = 1
            BY <1>4
        <3> QED
            BY <3>1 DEF Leases, LeasesBalanced
    <2>3. StoreEntity(Txn)
        BY <1>4 DEF Finish
    <2>4. \A x \in Entities : slot'[x] # "leased"
        BY <2>1, <2>2, <2>3, CycleAssumption DEF StoreEntity, EntityType
    <2> QED
        BY <1>4, <2>4, NoLeases
<1>5. CASE Ends /\ slot' = slot
    BY <1>5, <1>a, NoLeases DEF Ends
<1>6. CASE TakeDropped \/ DropEntity
    <2>1. Level = 1 /\ base = 1 /\ UNCHANGED <<transactions, base>>
        BY <1>6, FlushAlone DEF TakeDropped, DropEntity, txnVars
    <2>2. Level' = base' /\ base' \in Nat
        BY <2>1 DEF Level
    <2>3. \A x \in Entities : slot'[x] # "leased"
        BY <1>6, <1>a, <2>1 DEF TakeDropped, DropEntity, EntityType
    <2> QED
        BY <2>2, <2>3, NoLeases
<1>7. CASE UNCHANGED <<transactions, base, slot>> /\ Level' = Level
    BY <1>7 DEF Leases, LeasesBalanced
<1>8. ReleaseDone \/ DeferDone \/ RetainEnds \/ FlushDone => slot' = slot
    BY DEF ReleaseDone, DeferDone, RetainEnds, FlushDone
<1>9. ASSUME UNCHANGED <<transactions, base>>, Level' = Level, UNCHANGED slot PROVE Leases'
    BY <1>7, <1>9
<1>10. ASSUME UNCHANGED <<transactions, base>>, Finish \/ BodyPanics PROVE FALSE
    <2>1. InBody
        BY <1>10 DEF Finish, BodyPanics
    <2>2. CASE Finish /\ StartsFlush
        BY <1>10, <2>2, LevelType DEF Finish, StartsFlush, Stack
    <2>3. CASE ~(Finish /\ StartsFlush)
        <3>1. transactions' = SubSeq(transactions, 1, Level - 1)
            BY <1>10, <2>3 DEF Finish, BodyPanics
        <3>2. Level \in Nat /\ Level >= 1 /\ transactions \in Seq(Txns)
            BY <2>1, BodyLevel DEF Stack
        <3>3. Level' = Level - 1 /\ Level' = Level
            BY <1>10, <3>1, <3>2 DEF Level
        <3> QED
            BY <3>2, <3>3
    <2> QED
        BY <2>2, <2>3
<1> QED
    BY <1>1, <1>2, <1>3, <1>4, <1>5, <1>6, <1>8, <1>9, <1>10, StackMoves, SlotFrame
-----------------------------------------------------------------------------
Notifying == {"Notify", "NotifyGlobalObservers"}

\* What is marked is queued, and nothing that is marked is queued twice.
Marks ==
    /\ \A e \in Entities :
          e \in pending_notifications <=>
              \E i \in 1 .. Len(pending_effects) :
                  pending_effects[i].kind = "Notify" /\ pending_effects[i].of = e
    /\ \A g \in Globals :
          g \in pending_global_notifications <=>
              \E i \in 1 .. Len(pending_effects) :
                  pending_effects[i].kind = "NotifyGlobalObservers" /\ pending_effects[i].of = g
    /\ \A i, j \in 1 .. Len(pending_effects) :
          /\ pending_effects[i].kind = pending_effects[j].kind
          /\ pending_effects[i].kind \in Notifying
          /\ pending_effects[i].of = pending_effects[j].of
          => i = j

LEMMA QueueAppends ==
    ASSUME QueueType, NEW effect, pending_effects' = Append(pending_effects, effect)
    PROVE  /\ Len(pending_effects) \in Nat
           /\ Len(pending_effects') = Len(pending_effects) + 1
           /\ pending_effects'[Len(pending_effects) + 1] = effect
           /\ \A i \in 1 .. Len(pending_effects) : pending_effects'[i] = pending_effects[i]
BY DEF QueueType

LEMMA QueuePops ==
    ASSUME QueueType, pending_effects # <<>>, pending_effects' = Tail(pending_effects)
    PROVE  /\ Len(pending_effects) \in Nat /\ Len(pending_effects) >= 1
           /\ Len(pending_effects') = Len(pending_effects) - 1
           /\ Head(pending_effects) = pending_effects[1]
           /\ \A i \in 1 .. Len(pending_effects') :
                 pending_effects'[i] = pending_effects[i + 1]
BY DEF QueueType

LEMMA MarksExact == ASSUME QueueType, Marks PROVE MarksMatchQueue
<1>1. Len(pending_effects) \in Nat
    BY DEF QueueType
<1>2. ASSUME NEW kind \in Notifying, NEW of,
             \E i \in 1 .. Len(pending_effects) :
                  pending_effects[i].kind = kind /\ pending_effects[i].of = of
      PROVE  Cardinality(Queued(kind, of)) = 1
    <2>1. PICK i \in 1 .. Len(pending_effects) :
                  pending_effects[i].kind = kind /\ pending_effects[i].of = of
        BY <1>2
    <2>2. Queued(kind, of) = {i}
        BY <2>1 DEF Queued, Marks
    <2> QED
        BY <2>2, FS_Singleton
<1>3. ASSUME NEW kind, NEW of,
             ~ \E i \in 1 .. Len(pending_effects) :
                  pending_effects[i].kind = kind /\ pending_effects[i].of = of
      PROVE  Cardinality(Queued(kind, of)) = 0
    <2>1. Queued(kind, of) = {}
        BY <1>3 DEF Queued
    <2> QED
        BY <2>1, FS_EmptySet
<1> QED
    BY <1>2, <1>3 DEF Marks, MarksMatchQueue, Notifying

LEMMA MarksStep ==
    ASSUME Set!TypeOK, Stack, KindsFit, QueueType, Marks, Next PROVE Marks'
<1>0. Len(pending_effects) \in Nat
    BY DEF QueueType
<1>1. ASSUME NEW effect \in Sent, pending_effects' = Append(pending_effects, effect),
             IF effect.kind = "Notify"
             THEN /\ effect.of \notin pending_notifications
                  /\ pending_notifications' = pending_notifications \cup {effect.of}
             ELSE UNCHANGED pending_notifications,
             IF effect.kind = "NotifyGlobalObservers"
             THEN /\ effect.of \notin pending_global_notifications
                  /\ pending_global_notifications' = pending_global_notifications \cup {effect.of}
             ELSE UNCHANGED pending_global_notifications
      PROVE  Marks'
    <2> DEFINE n == Len(pending_effects)
    <2>1. /\ n \in Nat /\ Len(pending_effects') = n + 1 /\ pending_effects'[n + 1] = effect
          /\ \A i \in 1 .. n : pending_effects'[i] = pending_effects[i]
        BY <1>1, QueueAppends
    <2>2. /\ effect.kind = "Notify" => effect.of \in Entities
          /\ effect.kind = "NotifyGlobalObservers" => effect.of \in Globals
        BY DEF Sent
    <2> HIDE DEF n
    <2>3. \A i \in 1 .. n + 1 : i \in 1 .. n \/ i = n + 1
        BY <2>1
    <2>4. \A i \in 1 .. n : i \in 1 .. n + 1
        BY <2>1
    <2>5. n + 1 \in 1 .. n + 1
        BY <2>1
    <2>6. ASSUME NEW e \in Entities
          PROVE  e \in pending_notifications' <=>
                     \E i \in 1 .. n + 1 :
                         pending_effects'[i].kind = "Notify" /\ pending_effects'[i].of = e
        <3>1. e \in pending_notifications <=>
                  \E i \in 1 .. n : pending_effects[i].kind = "Notify" /\ pending_effects[i].of = e
            BY DEF Marks, n
        <3>2. e \in pending_notifications' <=>
                  e \in pending_notifications \/ (effect.kind = "Notify" /\ effect.of = e)
            BY <1>1
        <3> QED
            BY <2>1, <2>3, <2>4, <2>5, <3>1, <3>2
    <2>7. ASSUME NEW g \in Globals
          PROVE  g \in pending_global_notifications' <=>
                     \E i \in 1 .. n + 1 : /\ pending_effects'[i].kind = "NotifyGlobalObservers"
                                           /\ pending_effects'[i].of = g
        <3>1. g \in pending_global_notifications <=>
                  \E i \in 1 .. n : /\ pending_effects[i].kind = "NotifyGlobalObservers"
                                    /\ pending_effects[i].of = g
            BY DEF Marks, n
        <3>2. g \in pending_global_notifications' <=>
                  \/ g \in pending_global_notifications
                  \/ effect.kind = "NotifyGlobalObservers" /\ effect.of = g
            BY <1>1
        <3> QED
            BY <2>1, <2>3, <2>4, <2>5, <3>1, <3>2
    <2>8. ASSUME NEW i \in 1 .. n, effect.kind \in Notifying,
                 pending_effects[i].kind = effect.kind, pending_effects[i].of = effect.of
          PROVE  FALSE
        <3>1. effect.kind = "Notify" => effect.of \in pending_notifications
            BY <2>2, <2>8 DEF Marks, n
        <3>2. effect.kind = "NotifyGlobalObservers" => effect.of \in pending_global_notifications
            BY <2>2, <2>8 DEF Marks, n
        <3> QED
            BY <1>1, <2>8, <3>1, <3>2 DEF Notifying
    <2>9. ASSUME NEW i \in 1 .. n + 1, NEW j \in 1 .. n + 1,
                 pending_effects'[i].kind = pending_effects'[j].kind,
                 pending_effects'[i].kind \in Notifying,
                 pending_effects'[i].of = pending_effects'[j].of
          PROVE  i = j
        <3>1. CASE i \in 1 .. n /\ j \in 1 .. n
            BY <2>1, <2>9, <3>1 DEF Marks, n
        <3>2. CASE i = n + 1 /\ j \in 1 .. n
            BY <2>1, <2>8, <2>9, <3>2
        <3>3. CASE i \in 1 .. n /\ j = n + 1
            BY <2>1, <2>8, <2>9, <3>3
        <3> QED
            BY <2>3, <3>1, <3>2, <3>3
    <2> QED
        BY <2>1, <2>6, <2>7, <2>9 DEF Marks
<1>2. CASE Pops
    <2> DEFINE n == Len(pending_effects)
               h == pending_effects[1]
    <2>1. /\ n \in Nat /\ n >= 1 /\ Len(pending_effects') = n - 1
          /\ Head(pending_effects) = h /\ Popped = h.of
          /\ \A i \in 1 .. n - 1 : pending_effects'[i] = pending_effects[i + 1]
        BY <1>2, PopStep, QueuePops DEF Popped
    <2>2. /\ pending_notifications' =
                 IF h.kind = "Notify" THEN pending_notifications \ {h.of}
                 ELSE pending_notifications
          /\ pending_global_notifications' =
                 IF h.kind = "NotifyGlobalObservers" THEN pending_global_notifications \ {h.of}
                 ELSE pending_global_notifications
        BY <1>2, <2>1, PopStep
    <2> HIDE DEF n
    <2>3. \A i \in 1 .. n : i = 1 \/ (i - 1 \in 1 .. n - 1 /\ i = (i - 1) + 1)
        BY <2>1
    <2>4. \A i \in 1 .. n - 1 : i + 1 \in 1 .. n /\ i + 1 # 1
        BY <2>1
    <2>5. 1 \in 1 .. n
        BY <2>1
    <2>6. ASSUME NEW e \in Entities
          PROVE  e \in pending_notifications' <=>
                     \E i \in 1 .. n - 1 :
                         pending_effects'[i].kind = "Notify" /\ pending_effects'[i].of = e
        <3>1. e \in pending_notifications <=>
                  \E i \in 1 .. n : pending_effects[i].kind = "Notify" /\ pending_effects[i].of = e
            BY DEF Marks, n
        <3>2. CASE h.kind = "Notify" /\ h.of = e
            <4>1. \A i \in 1 .. n - 1 :
                      ~(pending_effects'[i].kind = "Notify" /\ pending_effects'[i].of = e)
                BY <2>1, <2>4, <2>5, <3>2 DEF Marks, n, Notifying
            <4> QED
                BY <2>2, <3>2, <4>1
        <3>3. CASE ~(h.kind = "Notify" /\ h.of = e)
            <4>1. e \in pending_notifications' <=> e \in pending_notifications
                BY <2>2, <3>3
            <4>2. ASSUME NEW i \in 1 .. n, pending_effects[i].kind = "Notify",
                         pending_effects[i].of = e
                  PROVE  \E k \in 1 .. n - 1 :
                             pending_effects'[k].kind = "Notify" /\ pending_effects'[k].of = e
                <5>1. i - 1 \in 1 .. n - 1 /\ i = (i - 1) + 1
                    BY <2>3, <3>3, <4>2
                <5>2. pending_effects'[i - 1] = pending_effects[i]
                    BY <2>1, <5>1
                <5> QED
                    BY <4>2, <5>1, <5>2
            <4> QED
                BY <2>1, <2>4, <3>1, <4>1, <4>2
        <3> QED
            BY <3>2, <3>3
    <2>7. ASSUME NEW g \in Globals
          PROVE  g \in pending_global_notifications' <=>
                     \E i \in 1 .. n - 1 : /\ pending_effects'[i].kind = "NotifyGlobalObservers"
                                           /\ pending_effects'[i].of = g
        <3>1. g \in pending_global_notifications <=>
                  \E i \in 1 .. n : /\ pending_effects[i].kind = "NotifyGlobalObservers"
                                    /\ pending_effects[i].of = g
            BY DEF Marks, n
        <3>2. CASE h.kind = "NotifyGlobalObservers" /\ h.of = g
            <4>1. \A i \in 1 .. n - 1 :
                      ~(/\ pending_effects'[i].kind = "NotifyGlobalObservers"
                        /\ pending_effects'[i].of = g)
                BY <2>1, <2>4, <2>5, <3>2 DEF Marks, n, Notifying
            <4> QED
                BY <2>2, <3>2, <4>1
        <3>3. CASE ~(h.kind = "NotifyGlobalObservers" /\ h.of = g)
            <4>1. g \in pending_global_notifications' <=> g \in pending_global_notifications
                BY <2>2, <3>3
            <4>2. ASSUME NEW i \in 1 .. n, pending_effects[i].kind = "NotifyGlobalObservers",
                         pending_effects[i].of = g
                  PROVE  \E k \in 1 .. n - 1 : /\ pending_effects'[k].kind = "NotifyGlobalObservers"
                                               /\ pending_effects'[k].of = g
                <5>1. i - 1 \in 1 .. n - 1 /\ i = (i - 1) + 1
                    BY <2>3, <3>3, <4>2
                <5>2. pending_effects'[i - 1] = pending_effects[i]
                    BY <2>1, <5>1
                <5> QED
                    BY <4>2, <5>1, <5>2
            <4> QED
                BY <2>1, <2>4, <3>1, <4>1, <4>2
        <3> QED
            BY <3>2, <3>3
    <2>8. ASSUME NEW i \in 1 .. n - 1, NEW j \in 1 .. n - 1,
                 pending_effects'[i].kind = pending_effects'[j].kind,
                 pending_effects'[i].kind \in Notifying,
                 pending_effects'[i].of = pending_effects'[j].of
          PROVE  i = j
        <3>1. i + 1 = j + 1
            BY <2>1, <2>4, <2>8 DEF Marks, n
        <3> QED
            BY <2>1, <3>1
    <2> QED
        BY <2>1, <2>6, <2>7, <2>8 DEF Marks
<1>3. CASE UNCHANGED <<pending_effects, pending_notifications, pending_global_notifications>>
    BY <1>3 DEF Marks
<1>4. CASE Pushes
    BY <1>1, <1>3, <1>4, PushStep
<1> QED
    BY <1>2, <1>3, <1>4, QueueFrame
-----------------------------------------------------------------------------
\* The inductive invariant: the types, the stack of transactions, the call the flush is in,
\* the leases and the marks.
Shape ==
    /\ Set!TypeOK /\ CallsShape /\ Stack /\ KindsFit
    /\ QueueType /\ SubjectType /\ EntityType /\ Leases /\ Marks

LEMMA ShapeInit == Init => Shape
<1> SUFFICES ASSUME Init PROVE Shape
    OBVIOUS
<1>0. Len(<<>>) = 0 /\ <<>> \in Seq(Txns) /\ <<>> \in Seq(Effects)
    OBVIOUS
<1>1. Set!TypeOK
    <2>1. MaxSubscribers \in Nat
        BY CycleAssumption
    <2>2. discarding \in BOOLEAN
        BY DEF Init, Set!Init
    <2>3. /\ subscribers \in [Keys -> Set!Slots]
          /\ next_subscriber_id \in 0 .. MaxSubscribers
          /\ emitter_key \in Seq(Keys)
          /\ Len(emitter_key) = next_subscriber_id
          /\ active \in SUBSET Set!Ids
          /\ dropped \in SUBSET Set!Ids
          /\ subscriptions \in SUBSET SUBSET Set!Ids
          /\ calls \in Seq(Set!Calls)
          /\ passed \in SUBSET Set!Ids
          /\ finished \in SUBSET Set!Ids
          /\ late \in SUBSET Set!Ids
        BY <2>1 DEF Init, Set!Init, Set!Absent, Set!Slots, Set!Ids
    <2> QED
        BY <2>2, <2>3 DEF Set!TypeOK
<1>2. CallsShape
    BY DEF Init, Set!Init, CallsShape, Phases
<1>3. Level = 0 /\ base = 0 /\ phase = "off" /\ transactions = <<>>
    BY <1>0 DEF Init, Level
<1>4. \A i \in 1 .. Level : FALSE
    BY <1>3
<1>5. OpsType
    BY CycleAssumption DEF Init, OpsType
<1>6. Stack
    <2>1. Level <= ops.depth
        BY <1>3, <1>5 DEF OpsType
    <2>2. transactions \in Seq(Txns) /\ flushing_effects = FALSE /\ pending_updates = 0
        BY <1>0 DEF Init
    <2> QED
        BY <1>3, <1>4, <1>5, <2>1, <2>2 DEF Stack
<1>7. KindsFit
    BY <1>4 DEF KindsFit
<1>8. pending_effects = <<>> /\ Len(pending_effects) = 0
    BY <1>0 DEF Init
<1>9. QueueType /\ SubjectType
    BY <1>0 DEF Init, QueueType, SubjectType, Releasing
<1>10. EntityType
    BY DEF Init, EntityType, Slots
<1>11. Leases
    <2>1. \A i \in base + 1 .. Level : FALSE
        BY <1>3
    <2>2. \A e \in Entities : slot[e] # "leased"
        BY DEF Init
    <2> QED
        BY <2>1, <2>2 DEF Leases, LeasesBalanced
<1>12. Marks
    <2>1. \A i \in 1 .. Len(pending_effects) : FALSE
        BY <1>8
    <2> QED
        BY <2>1 DEF Init, Marks
<1> QED
    BY <1>1, <1>2, <1>6, <1>7, <1>9, <1>10, <1>11, <1>12 DEF Shape

LEMMA ShapeStep == Shape /\ [Next]_vars => Shape'
<1>1. ASSUME Shape, Next PROVE Shape'
    <2>0. flushing_effects <=> phase # "off"
        BY <1>1 DEF Shape, Stack
    <2>1. Set!TypeOK'
        BY <1>1, ListTypeStep DEF Shape
    <2>2. CallsShape'
        BY <1>1, <2>0, CallsStep DEF Shape
    <2>3. Stack' /\ KindsFit'
        BY <1>1, StackStep, KindsStep DEF Shape
    <2>4. QueueType'
        BY <1>1, QueueStep DEF Shape
    <2>5. SubjectType'
        <3>1. dropped_entity_ids \subseteq Entities
            BY <1>1 DEF Shape, EntityType
        <3> QED
            BY <1>1, <2>0, <3>1, SubjectStep DEF Shape
    <2>6. EntityType'
        BY <1>1, EntityStep DEF Shape
    <2>7. Leases' /\ Marks'
        BY <1>1, LeasesStep, MarksStep DEF Shape
    <2> QED
        BY <2>1, <2>2, <2>3, <2>4, <2>5, <2>6, <2>7 DEF Shape
<1>2. ASSUME Shape, UNCHANGED vars PROVE Shape'
    <2> USE <1>2 DEF vars
    <2>1. Set!TypeOK'
        BY DEF setVars, Shape, Set!TypeOK, Set!Slots, Set!Ids, Set!Calls, Set!NoId
    <2>2. CallsShape'
        BY DEF setVars, flushVars, Shape, CallsShape
    <2>3. Stack' /\ KindsFit'
        BY DEF txnVars, flushVars, Shape, Stack, KindsFit, Level, UserRuns, OpsType
    <2>4. QueueType' /\ Marks'
        BY DEF queueVars, Shape, QueueType, Marks
    <2>5. SubjectType' /\ EntityType'
        BY DEF flushVars, entityVars, Shape, SubjectType, EntityType
    <2>6. Leases'
        BY DEF flushVars, entityVars, txnVars, Shape, Leases, LeasesBalanced, Level
    <2> QED
        BY <2>1, <2>2, <2>3, <2>4, <2>5, <2>6 DEF Shape
<1> QED
    BY <1>1, <1>2

LEMMA ShapeHolds == Spec => []Shape
BY ShapeInit, ShapeStep, PTL DEF Spec

\* However deep updates nest and wherever user code panics, the counters, the leases and the
\* notification marks of App are what they would be had the code returned.
THEOREM UnwindingAlwaysRestores == Spec => []UnwindingRestores
<1>1. Shape => UnwindingRestores
    <2> SUFFICES ASSUME Shape PROVE UnwindingRestores
        OBVIOUS
    <2>1. TransactionsBalanced
        BY DEF Shape, Stack, TransactionsBalanced
    <2>2. LeasesBalanced /\ MarksMatchQueue
        BY MarksExact DEF Shape, Leases
    <2> QED
        BY <2>1, <2>2 DEF UnwindingRestores
<1> QED
    BY <1>1, ShapeHolds, PTL

\* The application uses its observer lists only as SubscriberSet allows, so that what is
\* proved of SubscriberSet holds of them: no callback is lost or called twice for one
\* notification, and a dropped one is stored only if a destructor that the sweep of retain
\* ran dropped it after the sweep had passed it.
THEOREM ListsUsedAsSpecified ==
    Spec => /\ Set!Spec
            /\ []Set!NoSubscriberLost /\ []Set!NoSubscriberTwice /\ []Set!DroppedNotStored
<1>1. Init => Set!Init
    BY DEF Init
<1>2. Shape /\ [Next]_vars => [Set!Next]_(Set!setVars)
    <2>1. Shape /\ Next => Set!Next \/ UNCHANGED Set!setVars
        BY ListStep DEF Shape
    <2>2. UNCHANGED vars => UNCHANGED Set!setVars
        BY DEF vars, setVars, Set!setVars
    <2> QED
        BY <2>1, <2>2
<1>3. Spec => Set!Spec
    BY <1>1, <1>2, ShapeHolds, PTL DEF Spec, Set!Spec
<1>4. MaxSubscribers \in Nat /\ 2 \in Nat
    BY CycleAssumption
<1>5. Set!Spec => Lists!Spec
    <2>1. [Set!Next]_(Set!setVars) => [Lists!Next]_(Lists!setVars)
        BY SameLists DEF Set!setVars, Lists!setVars
    <2>2. Set!Init => Lists!Init
        BY SameLists
    <2> QED
        BY <2>1, <2>2, PTL DEF Set!Spec, Lists!Spec
<1>6. Lists!Spec => []Lists!NoSubscriberLost /\ []Lists!NoSubscriberTwice /\ []Lists!DroppedNotStored
    BY <1>4, Lists!NeverLost, Lists!NeverTwice, Lists!DroppedStaysOut, PTL
<1>7. /\ Lists!NoSubscriberLost <=> Set!NoSubscriberLost
      /\ Lists!NoSubscriberTwice <=> Set!NoSubscriberTwice
      /\ Lists!DroppedNotStored <=> Set!DroppedNotStored
    BY DEF Lists!NoSubscriberLost, Set!NoSubscriberLost, Lists!NoSubscriberTwice,
       Set!NoSubscriberTwice, Lists!DroppedNotStored, Set!DroppedNotStored, Lists!Held,
       Set!Held, Lists!Pending, Set!Pending, Lists!KeyOf, Set!KeyOf, Lists!Depth, Set!Depth,
       Lists!NoId, Set!NoId
<1> QED
    BY <1>3, <1>5, <1>6, <1>7, PTL
-----------------------------------------------------------------------------
\* The entities taken from the dropped list and not yet gone; none is put on it again.
Batch ==
    /\ \A e \in batch : slot[e] = "releasing"
    /\ \A e \in Entities :
          slot[e] \in {"releasing", "gone", "abandoned"} => e \notin dropped_entity_ids
    /\ phase \in Releasing => slot[subject] = "releasing" /\ subject \notin batch

\* A slot that was never used has no handle.
VacantUnused == \A e \in Entities : slot[e] = "vacant" => strong[e] = 0 /\ e \notin dropped_entity_ids

Counts == RefCountsExact /\ VacantUnused /\ Batch
-----------------------------------------------------------------------------
\* Counting the members of a range that grows at its end ...
LEMMA CountLast ==
    ASSUME NEW m \in Nat, NEW n \in Nat, NEW S \in SUBSET (m .. n), NEW T \in SUBSET (m .. n + 1),
           \A i \in m .. n : i \in S <=> i \in T
    PROVE  /\ IsFiniteSet(S) /\ IsFiniteSet(T) /\ Cardinality(S) \in Nat /\ Cardinality(T) \in Nat
           /\ Cardinality(T) = Cardinality(S) + (IF n + 1 \in T THEN 1 ELSE 0)
<1>0. m \in Int /\ n \in Int /\ n + 1 \in Int /\ \A i \in m .. n + 1 : i \in m .. n \/ i = n + 1
    OBVIOUS
<1>1. IsFiniteSet(S) /\ IsFiniteSet(T)
    <2>1. IsFiniteSet(m .. n) /\ IsFiniteSet(m .. n + 1)
        BY <1>0, FS_Interval
    <2> QED
        BY <2>1, FS_Subset
<1>2. Cardinality(S) \in Nat /\ Cardinality(T) \in Nat
    BY <1>1, FS_CardinalityType
<1>3. n + 1 \notin S
    OBVIOUS
<1>4. CASE n + 1 \in T
    <2>1. T = S \cup {n + 1}
        BY <1>0, <1>4
    <2> QED
        BY <1>1, <1>2, <1>3, <1>4, <2>1, FS_AddElement
<1>5. CASE n + 1 \notin T
    <2>1. T = S
        BY <1>0, <1>5
    <2> QED
        BY <1>1, <1>2, <1>5, <2>1
<1> QED
    BY <1>1, <1>2, <1>4, <1>5

\* ... or loses its first place.
LEMMA CountFirst ==
    ASSUME NEW S \in SUBSET (Nat \ {0}), NEW T \in SUBSET (Nat \ {0}),
           IsFiniteSet(S), IsFiniteSet(T), \A i \in Nat \ {0} : i \in T <=> i + 1 \in S
    PROVE  /\ Cardinality(S) \in Nat /\ Cardinality(T) \in Nat
           /\ Cardinality(S) = Cardinality(T) + (IF 1 \in S THEN 1 ELSE 0)
<1>1. IsFiniteSet(S) /\ IsFiniteSet(T)
    OBVIOUS
<1>2. Cardinality(S) \in Nat /\ Cardinality(T) \in Nat
    BY <1>1, FS_CardinalityType
<1> DEFINE f == [i \in T |-> i + 1]
<1>3. f \in Bijection(T, S \ {1})
    <2>1. f \in [T -> S \ {1}]
        OBVIOUS
    <2>2. \A i, j \in T : f[i] = f[j] => i = j
        OBVIOUS
    <2>3. ASSUME NEW k \in S \ {1} PROVE \E i \in T : f[i] = k
        <3>1. k - 1 \in Nat \ {0} /\ k = (k - 1) + 1
            OBVIOUS
        <3>2. k - 1 \in T
            BY <3>1
        <3> QED
            BY <3>1, <3>2
    <2> QED
        BY <2>1, <2>2, <2>3 DEF Bijection, Injection, Surjection, IsInjective
<1>4. Cardinality(S \ {1}) = Cardinality(T)
    BY <1>1, <1>3, FS_Bijection DEF ExistsBijection
<1>5. Cardinality(S \ {1}) = IF 1 \in S THEN Cardinality(S) - 1 ELSE Cardinality(S)
    BY <1>1, FS_RemoveElement
<1> QED
    BY <1>2, <1>4, <1>5
-----------------------------------------------------------------------------
\* The handles the framework holds, one kind at a time.
Announced(e) == Cardinality(Queued("EntityCreated", e))
Deferred(e) == IF phase = "defer" /\ subject = e THEN 1 ELSE 0
Upgraded(e) == IF phase = "retain" /\ entered /\ OnEntity /\ Emitter = e THEN 1 ELSE 0
FramesOf(kind, first, e) ==
    {i \in first .. Level : transactions[i].kind = kind /\ transactions[i].entity = e}
Frames(kind, first, e) == Cardinality(FramesOf(kind, first, e))
Updating(e) == Frames("update_entity", 1, e)
Creating(e) == Frames("new", 1, e)
Building(e) == Frames("new", base + 1, e)

LEMMA HandlesSplit ==
    ASSUME NEW e
    PROVE  /\ FrameworkHandles(e) = Announced(e) + Deferred(e) + Upgraded(e)
                                      + Updating(e) + Creating(e) + Building(e)
           /\ FrameworkHandles(e)' = Announced(e)' + Deferred(e)' + Upgraded(e)'
                                      + Updating(e)' + Creating(e)' + Building(e)'
BY DEF FrameworkHandles, Announced, Deferred, Upgraded, Updating, Creating, Building, Frames,
   FramesOf

LEMMA HandlesType ==
    ASSUME Stack, QueueType, NEW e
    PROVE  /\ Announced(e) \in Nat /\ Deferred(e) \in 0 .. 1 /\ Upgraded(e) \in 0 .. 1
           /\ Updating(e) \in Nat /\ Creating(e) \in Nat /\ Building(e) \in Nat
<1>1. Len(pending_effects) \in Nat /\ Level \in Nat /\ base \in Nat
    BY LevelType DEF QueueType, Stack
<1>2. /\ IsFiniteSet(Queued("EntityCreated", e)) /\ IsFiniteSet(FramesOf("update_entity", 1, e))
      /\ IsFiniteSet(FramesOf("new", 1, e)) /\ IsFiniteSet(FramesOf("new", base + 1, e))
    <2>1. /\ IsFiniteSet(1 .. Len(pending_effects)) /\ IsFiniteSet(1 .. Level)
          /\ IsFiniteSet(base + 1 .. Level)
        BY <1>1, FS_Interval
    <2>2. /\ Queued("EntityCreated", e) \in SUBSET (1 .. Len(pending_effects))
          /\ FramesOf("update_entity", 1, e) \in SUBSET (1 .. Level)
          /\ FramesOf("new", 1, e) \in SUBSET (1 .. Level)
          /\ FramesOf("new", base + 1, e) \in SUBSET (base + 1 .. Level)
        BY DEF Queued, FramesOf
    <2> QED
        BY <2>1, <2>2, FS_Subset
<1> QED
    BY <1>2, FS_CardinalityType DEF Announced, Deferred, Upgraded, Updating, Creating, Building,
       Frames

\* What the queue's part becomes.
LEMMA AnnouncedGrows ==
    ASSUME QueueType, NEW effect, pending_effects' = Append(pending_effects, effect), NEW e
    PROVE  Announced(e)' = Announced(e)
               + (IF effect.kind = "EntityCreated" /\ effect.of = e THEN 1 ELSE 0)
<1> DEFINE n == Len(pending_effects)
           S == Queued("EntityCreated", e)
           T == Queued("EntityCreated", e)'
<1>1. /\ n \in Nat /\ Len(pending_effects') = n + 1 /\ pending_effects'[n + 1] = effect
      /\ \A i \in 1 .. n : pending_effects'[i] = pending_effects[i]
    BY QueueAppends
<1>2. /\ S \in SUBSET (1 .. n) /\ T \in SUBSET (1 .. n + 1)
      /\ \A i \in 1 .. n : i \in S <=> i \in T
    BY <1>1 DEF Queued
<1>3. n + 1 \in T <=> effect.kind = "EntityCreated" /\ effect.of = e
    BY <1>1 DEF Queued
<1> HIDE DEF n, S, T
<1>4. Cardinality(T) = Cardinality(S) + (IF n + 1 \in T THEN 1 ELSE 0)
    <2>1. PICK m \in Nat : m = 1
        OBVIOUS
    <2>2. /\ S \in SUBSET (m .. n) /\ T \in SUBSET (m .. n + 1)
          /\ \A i \in m .. n : i \in S <=> i \in T
        BY <1>2, <2>1
    <2>3. m \in Nat /\ n \in Nat
        BY <1>1
    <2> HIDE <2>1
    <2> QED
        BY <2>2, <2>3, CountLast
<1> QED
    BY <1>3, <1>4 DEF Announced, S, T

LEMMA AnnouncedShrinks ==
    ASSUME QueueType, pending_effects # <<>>, pending_effects' = Tail(pending_effects), NEW e
    PROVE  Announced(e) = Announced(e)'
               + (IF Head(pending_effects).kind = "EntityCreated" /\ Popped = e THEN 1 ELSE 0)
<1> DEFINE n == Len(pending_effects)
           S == Queued("EntityCreated", e)
           T == Queued("EntityCreated", e)'
<1>1. /\ n \in Nat /\ n >= 1 /\ Len(pending_effects') = n - 1
      /\ Head(pending_effects) = pending_effects[1]
      /\ \A i \in 1 .. n - 1 : pending_effects'[i] = pending_effects[i + 1]
    BY QueuePops
<1>2. /\ S \in SUBSET (1 .. n) /\ T \in SUBSET (1 .. n - 1)
      /\ \A i \in 1 .. n - 1 : i \in T <=> i + 1 \in S
    BY <1>1 DEF Queued
<1>5. IsFiniteSet(S) /\ IsFiniteSet(T)
    <2>1. IsFiniteSet(1 .. n) /\ IsFiniteSet(1 .. n - 1)
        BY <1>1, FS_Interval
    <2> HIDE DEF n, S, T
    <2> QED
        BY <1>2, <2>1, FS_Subset
<1>6. /\ S \in SUBSET (Nat \ {0}) /\ T \in SUBSET (Nat \ {0})
      /\ \A i \in Nat \ {0} : i \in T <=> i + 1 \in S
    <2> HIDE DEF n, S, T
    <2>1. \A i \in Nat \ {0} : i + 1 \in 1 .. n => i \in 1 .. n - 1
        BY <1>1
    <2> QED
        BY <1>1, <1>2, <2>1
<1>3. 1 \in S <=> Head(pending_effects).kind = "EntityCreated" /\ Popped = e
    BY <1>1 DEF Queued, Popped
<1> HIDE DEF n, S, T
<1>4. Cardinality(S) = Cardinality(T) + (IF 1 \in S THEN 1 ELSE 0)
    BY <1>5, <1>6, CountFirst
<1> QED
    BY <1>3, <1>4 DEF Announced, S, T

\* What the transactions' part becomes.
LEMMA FramesGrow ==
    ASSUME Stack, NEW kind, NEW first \in 0 .. Level + 1, NEW e,
           Level' = Level + 1, \A i \in 1 .. Level : transactions'[i] = transactions[i], first >= 1
    PROVE  Cardinality(FramesOf(kind, first, e)') = Cardinality(FramesOf(kind, first, e))
               + (IF transactions'[Level + 1].kind = kind /\ transactions'[Level + 1].entity = e
                  THEN 1 ELSE 0)
<1> DEFINE S == FramesOf(kind, first, e)
           T == FramesOf(kind, first, e)'
<1>1. Level \in Nat /\ first \in Nat
    BY LevelType
<1>2. \A i \in first .. Level : i \in 1 .. Level /\ i \in first .. Level + 1
    BY <1>1
<1>3. /\ S \in SUBSET (first .. Level) /\ T \in SUBSET (first .. Level + 1)
      /\ \A i \in first .. Level : i \in S <=> i \in T
    BY <1>1, <1>2 DEF FramesOf
<1>4. Level + 1 \in T <=> transactions'[Level + 1].kind = kind /\ transactions'[Level + 1].entity = e
    BY <1>1 DEF FramesOf
<1> HIDE DEF S, T
<1>5. Cardinality(T) = Cardinality(S) + (IF Level + 1 \in T THEN 1 ELSE 0)
    BY <1>1, <1>3, CountLast
<1> QED
    BY <1>4, <1>5 DEF S, T

LEMMA FramesShrink ==
    ASSUME Stack, NEW kind, NEW first \in 0 .. Level, NEW e, Level > 0,
           Level' = Level - 1, \A i \in 1 .. Level - 1 : transactions'[i] = transactions[i], first >= 1
    PROVE  Cardinality(FramesOf(kind, first, e)) = Cardinality(FramesOf(kind, first, e)')
               + (IF Txn.kind = kind /\ Txn.entity = e THEN 1 ELSE 0)
<1> DEFINE S == FramesOf(kind, first, e)'
           T == FramesOf(kind, first, e)
           n == Level - 1
<1>1. Level \in Nat /\ first \in Nat /\ n \in Nat /\ n + 1 = Level
    BY LevelType
<1>2. \A i \in first .. n : i \in 1 .. Level - 1 /\ i \in first .. Level
    BY <1>1
<1>3. /\ S \in SUBSET (first .. n) /\ T \in SUBSET (first .. n + 1)
      /\ \A i \in first .. n : i \in S <=> i \in T
    BY <1>1, <1>2 DEF FramesOf
<1>4. n + 1 \in T <=> Txn.kind = kind /\ Txn.entity = e
    BY <1>1 DEF FramesOf, Txn
<1> HIDE DEF S, T, n
<1>5. Cardinality(T) = Cardinality(S) + (IF n + 1 \in T THEN 1 ELSE 0)
    BY <1>1, <1>3, CountLast
<1> QED
    BY <1>4, <1>5 DEF S, T

\* With one transaction there is one frame to count, with none there is none.
LEMMA FramesOne ==
    ASSUME Level = 1, NEW kind, NEW e
    PROVE  /\ Frames(kind, 1, e) =
                 IF transactions[1].kind = kind /\ transactions[1].entity = e THEN 1 ELSE 0
           /\ Frames(kind, 2, e) = 0
<1>1. 1 .. 1 = {1} /\ 2 .. 1 = {}
    OBVIOUS
<1>2. FramesOf(kind, 2, e) = {}
    BY <1>1 DEF FramesOf
<1>3. FramesOf(kind, 1, e) =
          IF transactions[1].kind = kind /\ transactions[1].entity = e THEN {1} ELSE {}
    BY <1>1 DEF FramesOf
<1> QED
    BY <1>2, <1>3, FS_Singleton, FS_EmptySet DEF Frames

LEMMA FramesNone ==
    ASSUME Level' = 0, NEW kind, NEW e
    PROVE  Frames(kind, 1, e)' = 0
<1>1. FramesOf(kind, 1, e)' = {}
    <2>1. \A i \in 1 .. Level' : FALSE
        OBVIOUS
    <2> QED
        BY <2>1 DEF FramesOf
<1> QED
    BY <1>1, FS_EmptySet DEF Frames

LEMMA FramesNat ==
    ASSUME Level' \in Nat, base' \in Nat, NEW e
    PROVE  Updating(e)' \in Nat /\ Creating(e)' \in Nat /\ Building(e)' \in Nat
<1>1. IsFiniteSet(1 .. Level') /\ IsFiniteSet(base' + 1 .. Level')
    BY FS_Interval
<1>2. /\ FramesOf("update_entity", 1, e)' \in SUBSET (1 .. Level')
      /\ FramesOf("new", 1, e)' \in SUBSET (1 .. Level')
      /\ FramesOf("new", base + 1, e)' \in SUBSET (base' + 1 .. Level')
    BY DEF FramesOf
<1>3. /\ IsFiniteSet(FramesOf("update_entity", 1, e)') /\ IsFiniteSet(FramesOf("new", 1, e)')
      /\ IsFiniteSet(FramesOf("new", base + 1, e)')
    BY <1>1, <1>2, FS_Subset
<1> QED
    BY <1>3, FS_CardinalityType DEF Updating, Creating, Building, Frames

LEMMA FramesBegin ==
    ASSUME Stack, OpsType', ops'.depth = ops.depth,
           NEW kind \in Kinds, NEW x \in Entities \cup {NoEntity}, Begin(kind, x), NEW e
    PROVE  /\ Updating(e)' = Updating(e) + (IF kind = "update_entity" /\ x = e THEN 1 ELSE 0)
           /\ Creating(e)' = Creating(e) + (IF kind = "new" /\ x = e THEN 1 ELSE 0)
           /\ Building(e)' = Building(e) + (IF kind = "new" /\ x = e THEN 1 ELSE 0)
<1>1. /\ Level \in Nat /\ base \in 0 .. 1 /\ base <= Level
      /\ Level' = Level + 1 /\ \A i \in 1 .. Level : transactions'[i] = transactions[i]
      /\ transactions'[Level + 1].kind = kind /\ transactions'[Level + 1].entity = x
      /\ base' = base
    BY BeginStack, LevelType DEF Stack
<1>2. 1 \in 0 .. Level + 1 /\ base + 1 \in 0 .. Level + 1 /\ base + 1 >= 1 /\ 1 >= 1
    BY <1>1
<1>3. Cardinality(FramesOf("update_entity", 1, e)') = Cardinality(FramesOf("update_entity", 1, e))
               + (IF kind = "update_entity" /\ x = e THEN 1 ELSE 0)
    BY <1>1, <1>2, FramesGrow
<1>4. Cardinality(FramesOf("new", 1, e)') = Cardinality(FramesOf("new", 1, e))
               + (IF kind = "new" /\ x = e THEN 1 ELSE 0)
    BY <1>1, <1>2, FramesGrow
<1>5. FramesOf("new", base + 1, e)' = {i \in base + 1 .. Level' : /\ transactions'[i].kind = "new"
                                                               /\ transactions'[i].entity = e}
    BY <1>1 DEF FramesOf
<1>6. PICK f \in 0 .. Level + 1 : f = base + 1
    BY <1>2
<1>7. Cardinality(FramesOf("new", f, e)') = Cardinality(FramesOf("new", f, e))
               + (IF kind = "new" /\ x = e THEN 1 ELSE 0)
    BY <1>1, <1>2, <1>6, FramesGrow
<1>8. FramesOf("new", f, e)' = FramesOf("new", base + 1, e)'
      /\ FramesOf("new", f, e) = FramesOf("new", base + 1, e)
    BY <1>5, <1>6 DEF FramesOf
<1> QED
    BY <1>3, <1>4, <1>7, <1>8 DEF Updating, Creating, Building, Frames

LEMMA FramesPop ==
    ASSUME Stack, Shrinks, base' = base, NEW e
    PROVE  /\ Updating(e) =
                 Updating(e)' + (IF Txn.kind = "update_entity" /\ Txn.entity = e THEN 1 ELSE 0)
           /\ Creating(e) = Creating(e)' + (IF Txn.kind = "new" /\ Txn.entity = e THEN 1 ELSE 0)
           /\ Building(e) = Building(e)' + (IF Txn.kind = "new" /\ Txn.entity = e THEN 1 ELSE 0)
<1>1. /\ Level \in Nat /\ base \in 0 .. 1 /\ Level > base /\ Level > 0 /\ Level' = Level - 1
      /\ \A i \in 1 .. Level - 1 : transactions'[i] = transactions[i]
    BY LevelType DEF Stack, Shrinks
<1>2. 1 \in 0 .. Level /\ base + 1 \in 0 .. Level /\ base + 1 >= 1 /\ 1 >= 1
    BY <1>1
<1>3. Cardinality(FramesOf("update_entity", 1, e)) = Cardinality(FramesOf("update_entity", 1, e)')
               + (IF Txn.kind = "update_entity" /\ Txn.entity = e THEN 1 ELSE 0)
    BY <1>1, <1>2, FramesShrink
<1>4. Cardinality(FramesOf("new", 1, e)) = Cardinality(FramesOf("new", 1, e)')
               + (IF Txn.kind = "new" /\ Txn.entity = e THEN 1 ELSE 0)
    BY <1>1, <1>2, FramesShrink
<1>5. FramesOf("new", base + 1, e)' = {i \in base + 1 .. Level' : /\ transactions'[i].kind = "new"
                                                               /\ transactions'[i].entity = e}
    BY <1>1 DEF FramesOf
<1>6. PICK f \in 0 .. Level : f = base + 1
    BY <1>2
<1>7. Cardinality(FramesOf("new", f, e)) = Cardinality(FramesOf("new", f, e)')
               + (IF Txn.kind = "new" /\ Txn.entity = e THEN 1 ELSE 0)
    BY <1>1, <1>2, <1>6, FramesShrink
<1>8. FramesOf("new", f, e)' = FramesOf("new", base + 1, e)'
      /\ FramesOf("new", f, e) = FramesOf("new", base + 1, e)
    BY <1>5, <1>6 DEF FramesOf
<1> QED
    BY <1>3, <1>4, <1>7, <1>8 DEF Updating, Creating, Building, Frames

LEMMA FramesFlush ==
    ASSUME Level = 1, Level' = 1, base = 0, base' = 1, transactions' = transactions, NEW e
    PROVE  /\ Updating(e)' = Updating(e) /\ Creating(e)' = Creating(e) /\ Building(e)' = 0
           /\ Building(e) =
                 IF transactions[1].kind = "new" /\ transactions[1].entity = e THEN 1 ELSE 0
<1>1. Updating(e)' = Updating(e) /\ Creating(e)' = Creating(e)
    BY DEF Updating, Creating, Frames, FramesOf
<1>2. FramesOf("new", base + 1, e)' = {}
    <2>1. \A i \in base' + 1 .. Level' : FALSE
        OBVIOUS
    <2> QED
        BY <2>1 DEF FramesOf
<1>3. base + 1 = 1
    OBVIOUS
<1> QED
    BY <1>1, <1>2, <1>3, FramesOne, FS_EmptySet DEF Building, Frames

LEMMA FramesEnd ==
    ASSUME Ends, NEW e
    PROVE  /\ Updating(e)' = 0 /\ Creating(e)' = 0 /\ Building(e)' = 0 /\ Building(e) = 0
           /\ Updating(e) =
                 IF transactions[base].kind = "update_entity" /\ transactions[base].entity = e
                 THEN 1 ELSE 0
           /\ Creating(e) =
                 IF transactions[base].kind = "new" /\ transactions[base].entity = e THEN 1 ELSE 0
<1>1. Level = 1 /\ base = 1 /\ Level' = 0 /\ base' = 0
    BY DEF Ends
<1>2. Updating(e)' = 0 /\ Creating(e)' = 0
    BY <1>1, FramesNone DEF Updating, Creating
<1>3. FramesOf("new", base + 1, e)' = {}
    <2>1. \A i \in base' + 1 .. Level' : FALSE
        BY <1>1
    <2> QED
        BY <2>1 DEF FramesOf
<1>4. Building(e)' = 0
    BY <1>3, FS_EmptySet DEF Building, Frames
<1>5. base + 1 = 2
    BY <1>1
<1> QED
    BY <1>1, <1>2, <1>4, <1>5, FramesOne DEF Updating, Creating, Building

LEMMA FramesStay ==
    ASSUME UNCHANGED <<transactions, base>>, NEW e
    PROVE  Updating(e)' = Updating(e) /\ Creating(e)' = Creating(e) /\ Building(e)' = Building(e)
BY DEF Updating, Creating, Building, Frames, FramesOf, Level

\* Only these steps change what the framework holds otherwise.
LEMMA UpgradedStays ==
    ASSUME Set!TypeOK, CallsShape, flushing_effects <=> phase # "off", Next, ~EnterCallback,
           ~CallbackPanics, ~ \E keep \in BOOLEAN : CallbackReturns(keep), NEW e
    PROVE  Upgraded(e)' = Upgraded(e)
<1>1. CASE UNCHANGED <<phase, entered, calls>>
    BY <1>1 DEF Upgraded, OnEntity, Emitter, Set!Top, Set!Depth
<1>2. CASE ~(phase = "retain" /\ entered) /\ ~(phase' = "retain" /\ entered')
    BY <1>2 DEF Upgraded
<1>3. CASE Finish
    BY <1>1, <1>2, <1>3 DEF Finish, StartsFlush, CallsShape, setVars
<1>4. CASE ListenerDone \/ BeginListeners \/ NextListener \/ ListenersDone
    BY <1>2, <1>4 DEF ListenerDone, BeginListeners, NextListener, ListenersDone
<1>5. CASE DeferDone \/ ReleaseObservers \/ DropEntity \/ ReleaseDone \/ FlushDone
    BY <1>2, <1>5 DEF DeferDone, ReleaseObservers, DropEntity, ReleaseDone, FlushDone, GoOn,
       AbortFlush
<1>6. CASE ApplyNotify \/ ApplyNotifyGlobalObservers \/ ApplyEmit \/ ApplyActivate \/ ApplyDefer
    <2>1. phase = "effects" /\ entered' = entered
        BY <1>6 DEF ApplyNotify, ApplyNotifyGlobalObservers, ApplyEmit, ApplyActivate,
           ApplyDefer, PopEffect, Dispatch
    <2> QED
        BY <1>2, <2>1 DEF CallsShape
<1>7. CASE RetainVisit
    BY <1>2, <1>7 DEF RetainVisit, flushVars
<1>9. CASE RetainSweeps
    <2>1. ~entered
        <3>1. phase = "retain" /\ Set!InLoop("retain")
            BY <1>9 DEF RetainSweeps, Set!RetainSweep
        <3>2. Len(calls) = 1 /\ Set!Top = calls[1]
            BY <3>1, OneCall DEF CallsShape
        <3> QED
            BY <3>1, <3>2 DEF CallsShape, Set!InLoop
    <2> QED
        BY <1>2, <1>9, <2>1 DEF RetainSweeps, flushVars
<1>8. CASE RetainEnds
    <2>1. ~entered
        BY <1>8, RetainEndsOutside
    <2> QED
        BY <1>2, <1>8, <2>1 DEF RetainEnds
<1> QED
    BY <1>1, <1>3, <1>4, <1>5, <1>6, <1>7, <1>8, <1>9, PhaseFrame

LEMMA DeferredStays ==
    ASSUME Next, ~ApplyDefer, ~DeferDone, flushing_effects <=> phase # "off", NEW e
    PROVE  Deferred(e)' = Deferred(e)
<1>1. CASE UNCHANGED <<phase, subject>>
    BY <1>1 DEF Deferred
<1>2. CASE phase # "defer" /\ phase' # "defer"
    BY <1>2 DEF Deferred
<1>3. CASE Finish
    BY <1>1, <1>2, <1>3 DEF Finish, StartsFlush
<1>4. ASSUME \/ TakeDropped \/ ReleaseObservers \/ BeginListeners \/ NextListener \/ ListenersDone
             \/ DropEntity \/ ReleaseDone \/ ApplyNotify \/ ApplyNotifyGlobalObservers \/ ApplyEmit
             \/ ApplyActivate \/ RetainVisit \/ RetainSweeps \/ EnterCallback
             \/ RetainEnds \/ FlushDone
             \/ ListenerDone \/ CallbackPanics \/ \E keep \in BOOLEAN : CallbackReturns(keep)
      PROVE  phase # "defer" /\ phase' # "defer"
    BY <1>4 DEF TakeDropped, ReleaseObservers, BeginListeners, NextListener, ListenersDone,
       DropEntity, ReleaseDone, ApplyNotify, ApplyNotifyGlobalObservers, ApplyEmit,
       ApplyActivate, RetainVisit, RetainSweeps, EnterCallback, RetainEnds, FlushDone,
       ListenerDone, CallbackPanics, CallbackReturns, PopEffect, Dispatch, GoOn, AbortFlush,
       flushVars
<1>5. ASSUME \/ UserStep \/ BodyPanics \/ \E x \in Entities : DropHandle(x)
      PROVE  UNCHANGED <<phase, subject>>
    BY <1>5 DEF UserStep, Notify, Emit, Observe, Subscribe, ObserveRelease, AcquireHandle,
       UpdateEntity, Borrow, NewEntity, SetGlobal, RemoveGlobal, ObserveGlobal,
       DropSubscription, Defer, Update, Begin, BodyPanics, DropHandle, SubscribeTo, flushVars
<1> QED
    BY <1>1, <1>2, <1>3, <1>4, <1>5 DEF Next, ReturnStep, FlushStep

LEMMA AnnouncedStays ==
    ASSUME Stack, KindsFit, QueueType, Next, ~ApplyDefer, ~Finish, NEW e
    PROVE  Announced(e)' = Announced(e)
<1>0. ASSUME UNCHANGED pending_effects PROVE Announced(e)' = Announced(e)
    BY <1>0 DEF Announced, Queued
<1>a. Announced(e) \in Nat
    BY HandlesType
<1>1. ASSUME NEW kind, NEW of, kind # "EntityCreated",
             pending_effects' = Append(pending_effects, Effect(kind, of))
      PROVE  Announced(e)' = Announced(e)
    <2>1. Effect(kind, of).kind = kind
        BY DEF Effect
    <2> HIDE DEF Effect
    <2> QED
        BY <1>1, <1>a, <2>1, AnnouncedGrows
<1>2. ASSUME NEW x, PushNotify(x) \/ PushNotifyGlobal(x) PROVE Announced(e)' = Announced(e)
    BY <1>0, <1>1, <1>2 DEF PushNotify, PushNotifyGlobal
<1>3. ASSUME NEW x, \/ Push(Effect("Emit", x)) \/ Push(Effect("Activate", x))
                    \/ Push(Effect("Defer", x))
      PROVE  Announced(e)' = Announced(e)
    BY <1>1, <1>3 DEF Push
<1>4. CASE Pushes
    <2>1. ASSUME NEW x, Notify(x) \/ Emit(x) \/ Observe(x) \/ Subscribe(x) \/ SetGlobal(x)
                          \/ RemoveGlobal(x) \/ ObserveGlobal(x)
          PROVE  Announced(e)' = Announced(e)
        BY <1>2, <1>3, <2>1 DEF Notify, Emit, Observe, Subscribe, SetGlobal, RemoveGlobal,
           ObserveGlobal, SubscribeTo
    <2>2. CASE Defer
        BY <1>3, <2>2 DEF Defer
    <2>3. CASE BodyPanics
        BY <1>0, <1>2, <2>3 DEF BodyPanics, queueVars
    <2> QED
        BY <1>4, <2>1, <2>2, <2>3 DEF Pushes
<1>5. CASE Pops
    <2>1. Head(pending_effects).kind # "EntityCreated"
        BY <1>5 DEF Pops, ApplyNotify, ApplyNotifyGlobalObservers, ApplyEmit, ApplyActivate,
           PopEffect
    <2>2. pending_effects # <<>> /\ pending_effects' = Tail(pending_effects)
        BY <1>5, PopStep
    <2>3. Announced(e) = Announced(e)' + 0
        BY <2>1, <2>2, AnnouncedShrinks
    <2>4. Announced(e)' \in Nat
        <3>1. QueueType'
            BY <2>2, <1>5, PopStep DEF QueueType
        <3>2. IsFiniteSet(1 .. Len(pending_effects')) /\ Queued("EntityCreated", e)' \in
                  SUBSET (1 .. Len(pending_effects'))
            BY <3>1, FS_Interval DEF QueueType, Queued
        <3> QED
            BY <3>2, FS_Subset, FS_CardinalityType DEF Announced
    <2> QED
        BY <2>3, <2>4
<1> QED
    BY <1>0, <1>4, <1>5, QueueFrame
-----------------------------------------------------------------------------
Dead == {"releasing", "gone", "abandoned"}

Exact(e) == strong[e] = handles[e] + FrameworkHandles(e)

\* The count of an entity that exists is zero exactly when its release is due or done.
Alive(e) ==
    /\ slot[e] # "vacant" => (strong[e] = 0 <=> e \in dropped_entity_ids \/ slot[e] \in Dead)
    /\ slot[e] = "vacant" => strong[e] = 0 /\ e \notin dropped_entity_ids

LEMMA CountsSplit ==
    /\ RefCountsExact /\ VacantUnused <=> \A e \in Entities : Exact(e) /\ Alive(e)
    /\ (RefCountsExact /\ VacantUnused)' <=> \A e \in Entities : Exact(e)' /\ Alive(e)'
BY DEF RefCountsExact, VacantUnused, Exact, Alive, Dead

LEMMA AliveReleases ==
    ASSUME EntityType, NEW e \in Entities, Alive(e), NEW lost, ReleaseRefs(lost),
           lost[e] \in Nat, lost[e] <= strong[e],
           \/ slot'[e] = slot[e]
           \/ slot[e] \in {"leased", "reserved"} /\ slot'[e] = "stored"
    PROVE  strong'[e] = strong[e] - lost[e] /\ Alive(e)'
<1>1. strong[e] \in Int /\ strong'[e] = strong[e] - lost[e]
    BY DEF EntityType, ReleaseRefs
<1>2. e \in dropped_entity_ids' <=> e \in dropped_entity_ids \/ (lost[e] > 0 /\ lost[e] = strong[e])
    BY DEF ReleaseRefs
<1> QED
    BY <1>1, <1>2 DEF Alive, Dead

\* A step that leaves the counts alone, but for the place of the entity.
LEMMA AliveStays ==
    ASSUME NEW e \in Entities, Alive(e), strong'[e] = strong[e],
           dropped_entity_ids' = dropped_entity_ids,
           \/ slot'[e] = slot[e]
           \/ slot[e] \in {"leased", "reserved"} /\ slot'[e] = "stored"
           \/ slot[e] = "stored" /\ slot'[e] = "leased"
    PROVE  Alive(e)'
BY DEF Alive, Dead

\* Steps that leave the handles of the framework alone, the counts of user code apart.
LEMMA ExactStays ==
    ASSUME Shape, NEW e \in Entities, Exact(e), UNCHANGED <<transactions, base>>,
           Announced(e)' = Announced(e), Deferred(e)' = Deferred(e), Upgraded(e)' = Upgraded(e),
           strong'[e] - strong[e] = handles'[e] - handles[e],
           strong'[e] \in Int, handles'[e] \in Int
    PROVE  Exact(e)'
<1>1. Updating(e)' = Updating(e) /\ Creating(e)' = Creating(e) /\ Building(e)' = Building(e)
    BY FramesStay
<1>2. FrameworkHandles(e)' = FrameworkHandles(e)
    BY <1>1, HandlesSplit
<1>3. FrameworkHandles(e) \in Nat
    BY HandlesSplit, HandlesType DEF Shape
<1>4. strong[e] \in Int /\ handles[e] \in Int
    BY DEF Shape, EntityType
<1> QED
    BY <1>2, <1>3, <1>4 DEF Exact

LEMMA HandlesTotal ==
    ASSUME Shape, NEW e \in Entities, Exact(e)
    PROVE  /\ Announced(e) \in Nat /\ Deferred(e) \in 0 .. 1 /\ Upgraded(e) \in 0 .. 1
           /\ Updating(e) \in Nat /\ Creating(e) \in Nat /\ Building(e) \in Nat
           /\ handles[e] \in Nat /\ strong[e] \in Nat
           /\ strong[e] = handles[e] + (Announced(e) + Deferred(e) + Upgraded(e)
                                          + Updating(e) + Creating(e) + Building(e))
<1>1. /\ Announced(e) \in Nat /\ Deferred(e) \in 0 .. 1 /\ Upgraded(e) \in 0 .. 1
      /\ Updating(e) \in Nat /\ Creating(e) \in Nat /\ Building(e) \in Nat
    BY HandlesType DEF Shape
<1>2. handles[e] \in Nat /\ strong[e] \in Int
    BY DEF Shape, EntityType
<1>3. strong[e] = handles[e] + (Announced(e) + Deferred(e) + Upgraded(e)
                                  + Updating(e) + Creating(e) + Building(e))
    BY HandlesSplit DEF Exact
<1> QED
    BY <1>1, <1>2, <1>3

LEMMA ExactFollows ==
    ASSUME NEW e \in Entities,
           strong'[e] = handles'[e] + (Announced(e)' + Deferred(e)' + Upgraded(e)'
                                          + Updating(e)' + Creating(e)' + Building(e)')
    PROVE  Exact(e)'
BY HandlesSplit DEF Exact

\* User code: handles are acquired, dropped, lent to a body, and made.
LEMMA CountsUser ==
    ASSUME Shape, Shape', Next, NEW e \in Entities, Exact(e), Alive(e),
           Announced(e)' = Announced(e), Deferred(e)' = Deferred(e), Upgraded(e)' = Upgraded(e),
           NEW x \in Entities,
           AcquireHandle(x) \/ DropHandle(x) \/ UpdateEntity(x) \/ Borrow(x) \/ NewEntity(x)
    PROVE  Exact(e)' /\ Alive(e)'
<1>0. OpsType' /\ ops'.depth = ops.depth
    BY OpsStep DEF Shape, Stack
<1>a. /\ slot \in [Entities -> Slots] /\ strong \in [Entities -> Int]
      /\ handles \in [Entities -> Nat]
    BY DEF Shape, EntityType
<1>b. Stack
    BY DEF Shape
<1>1. CASE AcquireHandle(x)
    <2>1. /\ strong'[e] = strong[e] + (IF e = x THEN 1 ELSE 0)
          /\ handles'[e] = handles[e] + (IF e = x THEN 1 ELSE 0)
          /\ UNCHANGED <<transactions, base, slot, dropped_entity_ids>> /\ strong[x] > 0
        BY <1>1, <1>a DEF AcquireHandle, txnVars, flushVars
    <2>2. Exact(e)'
        BY <1>a, <2>1, ExactStays
    <2>3. Alive(e)'
        BY <1>a, <2>1, HandlesTotal DEF Alive
    <2> QED
        BY <2>2, <2>3
<1>2. CASE DropHandle(x)
    <2>1. /\ ReleaseRefs(One(x)) /\ handles[x] > 0
          /\ handles'[e] = handles[e] - (IF e = x THEN 1 ELSE 0)
          /\ UNCHANGED <<transactions, base, slot>>
        BY <1>2, <1>a DEF DropHandle, txnVars, flushVars
    <2>2. One(x)[e] = (IF e = x THEN 1 ELSE 0)
        BY DEF One
    <2>3. strong[e] \in Nat /\ One(x)[e] <= strong[e] /\ One(x)[e] \in Nat
        BY <2>1, <2>2, HandlesTotal
    <2>4. strong'[e] = strong[e] - One(x)[e] /\ Alive(e)'
        BY <2>1, <2>3, AliveReleases DEF Shape
    <2>5. Exact(e)'
        BY <1>a, <2>1, <2>2, <2>4, ExactStays
    <2> QED
        BY <2>4, <2>5
<1>3. CASE UpdateEntity(x)
    <2>1. /\ Begin("update_entity", x) /\ strong' = strong /\ slot[x] = "stored"
          /\ handles'[e] = handles[e] - (IF e = x THEN 1 ELSE 0)
          /\ slot'[e] = (IF e = x THEN "leased" ELSE slot[e])
        BY <1>3, <1>a DEF UpdateEntity
    <2>2. /\ Updating(e)' = Updating(e) + (IF x = e THEN 1 ELSE 0)
          /\ Creating(e)' = Creating(e) /\ Building(e)' = Building(e)
        <3>1. "update_entity" \in Kinds
            BY DEF Kinds
        <3> QED
            BY <1>0, <1>b, <2>1, <3>1, FramesBegin, HandlesTotal
    <2>3. Exact(e)'
        BY <2>1, <2>2, HandlesTotal, ExactFollows
    <2>4. dropped_entity_ids' = dropped_entity_ids
        BY <2>1 DEF Begin
    <2> QED
        BY <2>1, <2>3, <2>4, AliveStays
<1>4. CASE Borrow(x)
    <2>1. /\ Begin("borrow", x) /\ strong' = strong /\ handles' = handles /\ slot[x] = "stored"
          /\ slot'[e] = (IF e = x THEN "leased" ELSE slot[e])
        BY <1>4, <1>a DEF Borrow
    <2>2. Updating(e)' = Updating(e) /\ Creating(e)' = Creating(e) /\ Building(e)' = Building(e)
        <3>1. "borrow" \in Kinds
            BY DEF Kinds
        <3> QED
            BY <1>0, <1>b, <2>1, <3>1, FramesBegin, HandlesTotal
    <2>3. Exact(e)'
        BY <2>1, <2>2, HandlesTotal, ExactFollows
    <2>4. dropped_entity_ids' = dropped_entity_ids
        BY <2>1 DEF Begin
    <2> QED
        BY <2>1, <2>3, <2>4, AliveStays
<1>5. CASE NewEntity(x)
    <2>1. /\ Begin("new", x) /\ handles' = handles /\ slot[x] = "vacant"
          /\ strong'[e] = (IF e = x THEN 2 ELSE strong[e])
          /\ slot'[e] = (IF e = x THEN "reserved" ELSE slot[e])
        BY <1>5, <1>a DEF NewEntity
    <2>2. /\ Updating(e)' = Updating(e) /\ Creating(e)' = Creating(e) + (IF x = e THEN 1 ELSE 0)
          /\ Building(e)' = Building(e) + (IF x = e THEN 1 ELSE 0)
        <3>1. "new" \in Kinds
            BY DEF Kinds
        <3> QED
            BY <1>0, <1>b, <2>1, <3>1, FramesBegin, HandlesTotal
    <2>3. dropped_entity_ids' = dropped_entity_ids
        BY <2>1 DEF Begin
    <2>4. e = x => strong[e] = 0 /\ e \notin dropped_entity_ids
        BY <2>1 DEF Alive
    <2>5. Exact(e)'
        <3>1. CASE e = x
            <4>0. /\ Announced(e) \in Nat /\ Deferred(e) \in Nat /\ Upgraded(e) \in Nat
                  /\ Updating(e) \in Nat /\ Creating(e) \in Nat /\ Building(e) \in Nat
                  /\ handles[e] \in Nat
                  /\ 0 = handles[e] + (Announced(e) + Deferred(e) + Upgraded(e)
                                          + Updating(e) + Creating(e) + Building(e))
                BY <2>4, <3>1, HandlesTotal
            <4>a. /\ handles[e] <= 0 /\ Announced(e) <= 0 /\ Deferred(e) <= 0 /\ Upgraded(e) <= 0
                  /\ Updating(e) <= 0 /\ Creating(e) <= 0 /\ Building(e) <= 0
                <5>1. handles[e] <= 0
                    BY <4>0
                <5>2. Announced(e) <= 0 /\ Deferred(e) <= 0
                    BY <4>0
                <5>3. Upgraded(e) <= 0 /\ Updating(e) <= 0
                    BY <4>0
                <5>4. Creating(e) <= 0 /\ Building(e) <= 0
                    BY <4>0
                <5> QED
                    BY <5>1, <5>2, <5>3, <5>4
            <4>1. handles[e] = 0 /\ Announced(e) = 0 /\ Deferred(e) = 0 /\ Upgraded(e) = 0
                  /\ Updating(e) = 0 /\ Creating(e) = 0 /\ Building(e) = 0
                BY <4>0, <4>a
            <4> QED
                BY <2>1, <2>2, <3>1, <4>1, ExactFollows
        <3>2. CASE e # x
            BY <2>1, <2>2, <3>2, HandlesTotal, ExactFollows
        <3> QED
            BY <3>1, <3>2
    <2>6. Alive(e)'
        <3>1. CASE e = x
            BY <2>1, <2>3, <2>4, <3>1 DEF Alive, Dead
        <3>2. CASE e # x
            BY <2>1, <2>3, <3>2, AliveStays
        <3> QED
            BY <3>1, <3>2
    <2> QED
        BY <2>5, <2>6
<1> QED
    BY <1>1, <1>2, <1>3, <1>4, <1>5

\* A body returns: what it leased or made is in the map, its caller has its handle again.
LEMMA CountsFinish ==
    ASSUME Shape, NEW e \in Entities, Exact(e), Alive(e), Finish,
           \/ Shrinks /\ ~StartsFlush /\ base' = base
           \/ /\ StartsFlush /\ Level = 1 /\ Level' = 1 /\ base = 0 /\ base' = 1
              /\ transactions' = transactions
    PROVE  Exact(e)' /\ Alive(e)'
<1>a. /\ slot \in [Entities -> Slots] /\ strong \in [Entities -> Int]
      /\ handles \in [Entities -> Nat] /\ Stack /\ KindsFit /\ QueueType
    BY DEF Shape, EntityType
<1>b. InBody
    BY DEF Finish
<1>c. Level \in Nat /\ Level >= 1 /\ Level > base /\ base \in Nat
    BY <1>a, <1>b, BodyLevel
<1>d. Txn = transactions[Level] /\ Level \in 1 .. Level /\ Level \in base + 1 .. Level
    BY <1>c DEF Txn
<1>e. /\ Txn.kind \in Kinds /\ Txn.entity \in Entities \cup {NoEntity}
      /\ Txn.kind = "update" <=> Txn.entity = NoEntity
    BY <1>a, <1>d DEF KindsFit
<1>f. strong' = strong /\ dropped_entity_ids' = dropped_entity_ids /\ StoreEntity(Txn)
    BY DEF Finish
<1> DEFINE One1(kind) == IF Txn.kind = kind /\ Txn.entity = e THEN 1 ELSE 0
<1>1. Announced(e)' = Announced(e) + One1("new")
    <2>1. CASE Txn.kind = "borrow"
        <3>1. PushNotify(Txn.entity)
            BY <2>1 DEF Finish, BodyEffects
        <3>2. CASE UNCHANGED pending_effects
            <4>1. Announced(e)' = Announced(e)
                BY <3>2 DEF Announced, Queued
            <4> QED
                BY <2>1, <4>1, HandlesTotal
        <3>3. CASE pending_effects' = Append(pending_effects, Effect("Notify", Txn.entity))
            <4>1. Effect("Notify", Txn.entity).kind = "Notify"
                BY DEF Effect
            <4> QED
                BY <1>a, <2>1, <3>3, <4>1, AnnouncedGrows
        <3> QED
            BY <3>1, <3>2, <3>3 DEF PushNotify
    <2>2. CASE Txn.kind = "new"
        <3>1. pending_effects' = Append(pending_effects, Effect("EntityCreated", Txn.entity))
            BY <2>2 DEF Finish, BodyEffects, Push
        <3>2. /\ Effect("EntityCreated", Txn.entity).kind = "EntityCreated"
              /\ Effect("EntityCreated", Txn.entity).of = Txn.entity
            BY DEF Effect
        <3> QED
            BY <1>a, <2>2, <3>1, <3>2, AnnouncedGrows
    <2>3. CASE Txn.kind \notin {"borrow", "new"}
        <3>1. UNCHANGED pending_effects
            BY <2>3 DEF Finish, BodyEffects, queueVars
        <3>2. Announced(e)' = Announced(e)
            BY <3>1 DEF Announced, Queued
        <3> QED
            BY <2>3, <3>2, HandlesTotal
    <2> QED
        BY <2>1, <2>2, <2>3
<1>2. Deferred(e)' = Deferred(e) /\ Upgraded(e)' = Upgraded(e)
    <2>1. UNCHANGED <<subject, entered, calls>>
        BY DEF Finish, setVars
    <2>2. phase' = phase \/ (phase = "off" /\ phase' = "release")
        BY <1>a DEF Finish, StartsFlush, Stack
    <2> QED
        BY <2>1, <2>2 DEF Deferred, Upgraded, OnEntity, Emitter, Set!Top, Set!Depth
<1>3. Exact(e)'
    <2>1. CASE Shrinks /\ ~StartsFlush /\ base' = base
        <3>1. handles'[e] = handles[e] + One1("update_entity") + One1("new")
            <4>1. ReturnHandles(Txn, TRUE)
                BY <2>1 DEF Finish
            <4> QED
                BY <1>a, <1>e, <4>1 DEF ReturnHandles
        <3>2. /\ Updating(e) = Updating(e)' + One1("update_entity")
              /\ Creating(e) = Creating(e)' + One1("new")
              /\ Building(e) = Building(e)' + One1("new")
            BY <1>a, <2>1, FramesPop
        <3>3. Updating(e)' \in Nat /\ Creating(e)' \in Nat /\ Building(e)' \in Nat
            <4>1. Level' \in Nat /\ base' \in Nat
                BY <1>c, <2>1 DEF Shrinks
            <4> QED
                BY <4>1, FramesNat
        <3> HIDE DEF One1
        <3>4. One1("update_entity") \in 0 .. 1 /\ One1("new") \in 0 .. 1
            BY DEF One1
        <3> QED
            BY <1>1, <1>2, <1>f, <3>1, <3>2, <3>3, <3>4, HandlesTotal, ExactFollows
    <2>2. CASE /\ StartsFlush /\ Level = 1 /\ Level' = 1 /\ base = 0 /\ base' = 1
               /\ transactions' = transactions
        <3>1. handles' = handles
            BY <2>2 DEF Finish
        <3>2. /\ Updating(e)' = Updating(e) /\ Creating(e)' = Creating(e) /\ Building(e)' = 0
              /\ Building(e) = One1("new")
            BY <1>d, <2>2, FramesFlush
        <3> HIDE DEF One1
        <3> QED
            BY <1>1, <1>2, <1>f, <3>1, <3>2, HandlesTotal, ExactFollows
    <2> QED
        BY <2>1, <2>2
<1>4. Alive(e)'
    <2>1. CASE Txn.entity # e
        <3>1. slot'[e] = slot[e]
            BY <1>a, <1>f, <2>1 DEF StoreEntity
        <3> QED
            BY <1>f, <3>1, AliveStays
    <2>2. CASE Txn.entity = e
        <3>1. e # NoEntity
            BY CycleAssumption
        <3>2. slot'[e] = "stored"
            BY <1>a, <1>f, <2>2, <3>1 DEF StoreEntity
        <3>3. CASE Txn.kind = "new"
            <4>1. slot[e] \in {"reserved", "abandoned"}
                BY <1>d, <2>2, <3>3 DEF Shape, Leases
            <4>2. strong[e] > 0
                <5>1. Building(e) > 0
                    <6>1. Level \in FramesOf("new", base + 1, e)
                        BY <1>d, <2>2, <3>3 DEF FramesOf
                    <6>2. IsFiniteSet(FramesOf("new", base + 1, e))
                        <7>1. IsFiniteSet(base + 1 .. Level)
                            BY <1>c, FS_Interval
                        <7> QED
                            BY <7>1, FS_Subset DEF FramesOf
                    <6>3. Cardinality(FramesOf("new", base + 1, e)) # 0
                        BY <6>1, <6>2, FS_EmptySet
                    <6> QED
                        BY <6>3, HandlesTotal DEF Building, Frames
                <5> QED
                    BY <5>1, HandlesTotal
            <4>3. slot[e] = "reserved"
                BY <4>1, <4>2 DEF Alive, Dead
            <4> QED
                BY <1>f, <3>2, <4>3, AliveStays
        <3>4. CASE Txn.kind \in {"update_entity", "borrow"}
            <4>1. slot[e] = "leased"
                BY <1>d, <2>2, <3>4 DEF Shape, Leases, LeasesBalanced
            <4> QED
                BY <1>f, <3>2, <4>1, AliveStays
        <3> QED
            BY <1>e, <2>2, <3>1, <3>3, <3>4 DEF Kinds
    <2> QED
        BY <2>1, <2>2
<1> QED
    BY <1>3, <1>4

\* A body panics: what it leased is back, what it was making loses both its handles.
LEMMA CountsPanic ==
    ASSUME Shape, NEW e \in Entities, Exact(e), Alive(e), BodyPanics, Shrinks, base' = base,
           Announced(e)' = Announced(e), Deferred(e)' = Deferred(e), Upgraded(e)' = Upgraded(e)
    PROVE  Exact(e)' /\ Alive(e)'
<1>a. /\ slot \in [Entities -> Slots] /\ strong \in [Entities -> Int]
      /\ handles \in [Entities -> Nat] /\ Stack /\ KindsFit /\ EntityType
    BY DEF Shape, EntityType
<1>b. InBody
    BY DEF BodyPanics
<1>c. Level \in Nat /\ Level >= 1 /\ Level > base /\ base \in Nat
    BY <1>a, <1>b, BodyLevel
<1>d. Txn = transactions[Level] /\ Level \in 1 .. Level /\ Level \in base + 1 .. Level
    BY <1>c DEF Txn
<1>e. /\ Txn.kind \in Kinds /\ Txn.entity \in Entities \cup {NoEntity}
      /\ Txn.kind = "update" <=> Txn.entity = NoEntity
    BY <1>a, <1>d DEF KindsFit
<1> DEFINE One1(kind) == IF Txn.kind = kind /\ Txn.entity = e THEN 1 ELSE 0
           lost == IF Txn.kind = "new" THEN Sum(One(Txn.entity), One(Txn.entity)) ELSE One(NoEntity)
<1>1. ReleaseRefs(lost) /\ UnwindSlot(Txn) /\ ReturnHandles(Txn, FALSE)
    BY DEF BodyPanics
<1>2. lost[e] = One1("new") + One1("new")
    BY CycleAssumption DEF One, Sum
<1>3. handles'[e] = handles[e] + One1("update_entity")
    BY <1>a, <1>e, <1>1 DEF ReturnHandles
<1>4. /\ Updating(e) = Updating(e)' + One1("update_entity")
      /\ Creating(e) = Creating(e)' + One1("new")
      /\ Building(e) = Building(e)' + One1("new")
    BY <1>a, FramesPop
<1>5. Updating(e)' \in Nat /\ Creating(e)' \in Nat /\ Building(e)' \in Nat
    <2>1. Level' \in Nat /\ base' \in Nat
        BY <1>c DEF Shrinks
    <2> QED
        BY <2>1, FramesNat
<1>6. One1("update_entity") \in 0 .. 1 /\ One1("new") \in 0 .. 1
    OBVIOUS
<1>7. slot'[e] = slot[e] \/ (slot[e] \in {"leased", "reserved"} /\ slot'[e] = "stored")
    <2>1. CASE Txn.kind \in {"update_entity", "borrow"} /\ Txn.entity = e
        <3>1. slot[e] = "leased"
            BY <1>d, <2>1 DEF Shape, Leases, LeasesBalanced
        <3> QED
            BY <1>1, <1>a, <2>1, <3>1, CycleAssumption DEF UnwindSlot, StoreEntity
    <2> QED
        BY <1>1, <1>a, <2>1 DEF UnwindSlot, StoreEntity
<1> HIDE DEF One1, lost
<1>8. lost[e] \in Nat /\ lost[e] <= strong[e]
    BY <1>2, <1>4, <1>5, <1>6, HandlesTotal
<1>9. strong'[e] = strong[e] - lost[e] /\ Alive(e)'
    BY <1>1, <1>7, <1>8, <1>a, AliveReleases
<1>10. Exact(e)'
    <2>1. /\ Announced(e) \in Nat /\ Deferred(e) \in Nat /\ Upgraded(e) \in Nat
          /\ Updating(e) \in Nat /\ Creating(e) \in Nat /\ Building(e) \in Nat
          /\ handles[e] \in Nat /\ strong[e] \in Nat
          /\ strong[e] = handles[e] + (Announced(e) + Deferred(e) + Upgraded(e)
                                          + Updating(e) + Creating(e) + Building(e))
        BY HandlesTotal
    <2>2. strong'[e] = handles'[e] + (Announced(e)' + Deferred(e)' + Upgraded(e)'
                                      + Updating(e)' + Creating(e)' + Building(e)')
        BY <1>2, <1>3, <1>4, <1>5, <1>6, <1>9, <2>1
    <2> QED
        BY <2>2, ExactFollows
<1> QED
    BY <1>9, <1>10

\* The last transaction ends with the flush, or is unwound by a panic that leaves it.
LEMMA CountsEnd ==
    ASSUME Shape, NEW e \in Entities, Exact(e), Alive(e), Ends, Announced(e)' = Announced(e),
           Deferred(e)' = 0, Upgraded(e)' = Upgraded(e), slot' = slot,
           \/ /\ AbortFlush
              /\ \/ ReleaseRefs(LostResult) /\ Deferred(e) = 0
                 \/ ReleaseRefs(Sum(One(subject), LostResult)) /\ phase = "defer"
           \/ /\ ReturnHandles(transactions[base], TRUE) /\ Deferred(e) = 0
              /\ UNCHANGED <<strong, dropped_entity_ids>>
    PROVE  Exact(e)' /\ Alive(e)'
<1>a. /\ strong \in [Entities -> Int] /\ handles \in [Entities -> Nat] /\ Stack /\ KindsFit
      /\ EntityType
    BY DEF Shape, EntityType
<1> DEFINE t == transactions[base]
           One1(kind) == IF t.kind = kind /\ t.entity = e THEN 1 ELSE 0
<1>1. t.kind # "update" => t.entity \in Entities
    <2>1. base = 1 /\ 1 \in 1 .. Level
        BY DEF Ends
    <2> QED
        BY <1>a, <2>1, CycleAssumption DEF KindsFit
<1>2. /\ Updating(e)' = 0 /\ Creating(e)' = 0 /\ Building(e)' = 0 /\ Building(e) = 0
      /\ Updating(e) = One1("update_entity") /\ Creating(e) = One1("new")
    BY FramesEnd
<1>3. LostResult[e] = One1("new")
    BY CycleAssumption DEF LostResult, One
<1>4. One1("update_entity") \in 0 .. 1 /\ One1("new") \in 0 .. 1
    OBVIOUS
<1>5. CASE ReturnHandles(t, TRUE) /\ Deferred(e) = 0 /\ UNCHANGED <<strong, dropped_entity_ids>>
    <2>1. handles'[e] = handles[e] + One1("update_entity") + One1("new")
        BY <1>1, <1>5, <1>a DEF ReturnHandles
    <2> HIDE DEF One1
    <2>2. Exact(e)'
        <3>1. /\ Announced(e) \in Nat /\ Deferred(e) \in Nat /\ Upgraded(e) \in Nat
              /\ Updating(e) \in Nat /\ Creating(e) \in Nat /\ Building(e) \in Nat
              /\ handles[e] \in Nat /\ strong[e] \in Nat
              /\ strong[e] = handles[e] + (Announced(e) + Deferred(e) + Upgraded(e)
                                              + Updating(e) + Creating(e) + Building(e))
            BY HandlesTotal
        <3>2. strong'[e] = handles'[e] + (Announced(e)' + Deferred(e)' + Upgraded(e)'
                                          + Updating(e)' + Creating(e)' + Building(e)')
            BY <1>2, <1>4, <1>5, <2>1, <3>1
        <3> QED
            BY <3>2, ExactFollows
    <2> QED
        BY <1>5, <2>2, AliveStays
<1>6. CASE AbortFlush
    <2>1. handles'[e] = handles[e] + One1("update_entity")
        BY <1>1, <1>6, <1>a DEF AbortFlush, ReturnHandles
    <2> HIDE DEF One1, t
    <2>2. CASE ReleaseRefs(LostResult) /\ Deferred(e) = 0
        <3>1. LostResult[e] \in Nat /\ LostResult[e] <= strong[e]
            BY <1>2, <1>3, <1>4, HandlesTotal
        <3>2. strong'[e] = strong[e] - LostResult[e] /\ Alive(e)'
            BY <1>a, <2>2, <3>1, AliveReleases
        <3>3. Exact(e)'
            BY <1>2, <1>3, <1>4, <2>1, <2>2, <3>2, HandlesTotal, ExactFollows
        <3> QED
            BY <3>2, <3>3
    <2>3. CASE ReleaseRefs(Sum(One(subject), LostResult)) /\ phase = "defer"
        <3> DEFINE lost == Sum(One(subject), LostResult)
        <3>1. One(subject)[e] = Deferred(e)
            BY <2>3 DEF One, Deferred
        <3>2. lost[e] = Deferred(e) + One1("new")
            BY <1>3, <3>1 DEF Sum
        <3> HIDE DEF lost
        <3>3. lost[e] \in Nat /\ lost[e] <= strong[e]
            BY <1>2, <1>4, <3>2, HandlesTotal
        <3>4. strong'[e] = strong[e] - lost[e] /\ Alive(e)'
            BY <1>a, <2>3, <3>3, AliveReleases DEF lost
        <3>5. Exact(e)'
            BY <1>2, <1>4, <2>1, <3>2, <3>4, HandlesTotal, ExactFollows
        <3> QED
            BY <3>4, <3>5
    <2>4. CASE ReturnHandles(transactions[base], TRUE) /\ Deferred(e) = 0
                   /\ UNCHANGED <<strong, dropped_entity_ids>>
        BY <1>5, <2>4 DEF t
    <2> QED
        BY <2>2, <2>3, <2>4
<1> QED
    BY <1>5, <1>6

\* A deferred effect takes its handle over from the queue, and drops it at the end.
LEMMA CountsApplyDefer ==
    ASSUME Shape, NEW e \in Entities, Exact(e), Alive(e), ApplyDefer
    PROVE Exact(e)' /\ Alive(e)'
<1>a. QueueType
    BY DEF Shape
<1>1. /\ pending_effects # <<>> /\ pending_effects' = Tail(pending_effects)
      /\ UNCHANGED <<strong, handles, slot, dropped_entity_ids, transactions, base>>
      /\ phase = "effects" /\ phase' = "defer" /\ subject' = Popped
    BY DEF ApplyDefer, PopEffect, entityVars, txnVars
<1>2. Head(pending_effects).kind = "EntityCreated" \/ Popped = NoEntity
    <2>1. CASE PopEffect("Defer")
        BY <1>a, <2>1, PoppedType
    <2>2. CASE PopEffect("EntityCreated")
        BY <2>2 DEF PopEffect
    <2> QED
        BY <2>1, <2>2 DEF ApplyDefer
<1>3. Announced(e) = Announced(e)' + Deferred(e)'
    <2>1. Announced(e) = Announced(e)'
               + (IF Head(pending_effects).kind = "EntityCreated" /\ Popped = e THEN 1 ELSE 0)
        BY <1>1, <1>a, AnnouncedShrinks
    <2>2. Deferred(e)' = IF Head(pending_effects).kind = "EntityCreated" /\ Popped = e THEN 1 ELSE 0
        BY <1>1, <1>2, CycleAssumption DEF Deferred
    <2> QED
        BY <2>1, <2>2
<1>4. Deferred(e) = 0 /\ Upgraded(e) = 0 /\ Upgraded(e)' = 0
    BY <1>1 DEF Deferred, Upgraded
<1>5. Updating(e)' = Updating(e) /\ Creating(e)' = Creating(e) /\ Building(e)' = Building(e)
    BY <1>1, FramesStay
<1>6. Announced(e)' \in Nat /\ Deferred(e)' \in Nat
    <2>1. Len(pending_effects') \in Nat
        BY <1>1, <1>a DEF QueueType
    <2>2. IsFiniteSet(1 .. Len(pending_effects'))
          /\ Queued("EntityCreated", e)' \in SUBSET (1 .. Len(pending_effects'))
        BY <2>1, FS_Interval DEF Queued
    <2>3. IsFiniteSet(Queued("EntityCreated", e)')
        BY <2>2, FS_Subset
    <2> QED
        BY <2>3, FS_CardinalityType DEF Announced, Deferred
<1>7. Exact(e)'
    BY <1>1, <1>3, <1>4, <1>5, <1>6, HandlesTotal, ExactFollows
<1> QED
    BY <1>1, <1>7, AliveStays

\* The flush goes on after a deferred effect.
LEMMA CountsGoOn ==
    ASSUME Shape, NEW e \in Entities, Exact(e), Alive(e), GoOn, ReleaseRefs(One(subject)),
           phase = "defer", slot' = slot, Announced(e)' = Announced(e)
    PROVE  Exact(e)' /\ Alive(e)'
<1>1. One(subject)[e] = Deferred(e) /\ Deferred(e)' = 0 /\ Upgraded(e)' = 0 /\ Upgraded(e) = 0
    BY DEF One, Deferred, Upgraded, GoOn
<1>2. UNCHANGED <<handles, transactions, base>>
    BY DEF GoOn
<1>3. Updating(e)' = Updating(e) /\ Creating(e)' = Creating(e) /\ Building(e)' = Building(e)
    BY <1>2, FramesStay
<1>4. One(subject)[e] \in Nat /\ One(subject)[e] <= strong[e]
    BY <1>1, HandlesTotal
<1>5. strong'[e] = strong[e] - One(subject)[e] /\ Alive(e)'
    BY <1>4, AliveReleases DEF Shape
<1>6. Exact(e)'
    BY <1>1, <1>2, <1>3, <1>5, HandlesTotal, ExactFollows
<1> QED
    BY <1>5, <1>6

\* An observer runs with a handle of its own.
LEMMA CountsEnter ==
    ASSUME Shape, NEW e \in Entities, Exact(e), Alive(e), EnterCallback
    PROVE Exact(e)' /\ Alive(e)'
<1>1. /\ phase = "retain" /\ phase' = phase /\ ~entered /\ subject' = subject
      /\ UNCHANGED <<handles, slot, dropped_entity_ids, transactions, base, pending_effects>>
    BY DEF EnterCallback, txnVars, queueVars
<1>2. Announced(e)' = Announced(e) /\ Deferred(e)' = Deferred(e) /\ Upgraded(e) = 0
    BY <1>1 DEF Announced, Queued, Deferred, Upgraded
<1>3. CASE UNCHANGED <<strong, entered>>
    <2>1. Upgraded(e)' = 0
        BY <1>1, <1>3 DEF Upgraded
    <2>2. strong'[e] \in Int /\ handles'[e] \in Int
        BY <1>1, <1>3 DEF Shape, EntityType
    <2>3. Exact(e)'
        BY <1>1, <1>2, <1>3, <2>1, <2>2, ExactStays, HandlesTotal
    <2> QED
        BY <1>1, <1>3, <2>3, AliveStays
<1>4. CASE /\ ~(OnEntity /\ strong[Emitter] = 0)
           /\ strong' = IF OnEntity THEN [strong EXCEPT ![Emitter] = @ + 1] ELSE strong
           /\ entered' = TRUE /\ UNCHANGED setVars
    <2> DEFINE d == IF OnEntity /\ Emitter = e THEN 1 ELSE 0
    <2>1. strong'[e] = strong[e] + d
        BY <1>4 DEF Shape, EntityType
    <2>2. Upgraded(e)' = d
        BY <1>1, <1>4 DEF Upgraded, OnEntity, Emitter, setVars, Set!Top, Set!Depth
    <2>3. Updating(e)' = Updating(e) /\ Creating(e)' = Creating(e) /\ Building(e)' = Building(e)
        BY <1>1, FramesStay
    <2>4. d = 1 => strong[e] > 0
        BY <1>4, HandlesTotal
    <2>5. d \in 0 .. 1
        OBVIOUS
    <2> HIDE DEF d
    <2>6. Exact(e)'
        BY <1>1, <1>2, <2>1, <2>2, <2>3, <2>5, HandlesTotal, ExactFollows
    <2>7. Alive(e)'
        BY <1>1, <2>1, <2>4, <2>5, HandlesTotal DEF Alive
    <2> QED
        BY <2>6, <2>7
<1> QED
    BY <1>3, <1>4 DEF EnterCallback

LEMMA CountsLeave ==
    ASSUME Shape, NEW e \in Entities, Exact(e), Alive(e), phase = "retain", InCallback, LeaveCallback,
           UNCHANGED <<handles, slot, transactions, base, pending_effects, phase, subject>>
    PROVE  Exact(e)' /\ Alive(e)'
<1> DEFINE x == IF OnEntity THEN Emitter ELSE NoEntity
<1>1. entered /\ ~entered' /\ ReleaseRefs(One(x))
    BY DEF InCallback, UserRuns, LeaveCallback
<1>2. Announced(e)' = Announced(e) /\ Deferred(e)' = Deferred(e) /\ Upgraded(e)' = 0
    BY <1>1 DEF Announced, Queued, Deferred, Upgraded
<1>3. One(x)[e] = Upgraded(e)
    BY <1>1, CycleAssumption DEF One, Upgraded
<1>4. Updating(e)' = Updating(e) /\ Creating(e)' = Creating(e) /\ Building(e)' = Building(e)
    BY FramesStay
<1> HIDE DEF x
<1>5. One(x)[e] \in Nat /\ One(x)[e] <= strong[e]
    BY <1>3, HandlesTotal
<1>6. strong'[e] = strong[e] - One(x)[e] /\ Alive(e)'
    BY <1>1, <1>5, AliveReleases DEF Shape
<1>7. Exact(e)'
    BY <1>2, <1>3, <1>4, <1>6, HandlesTotal, ExactFollows
<1> QED
    BY <1>6, <1>7

LEMMA CountsStep ==
    ASSUME Shape, Shape', Next, RefCountsExact, VacantUnused, Batch
    PROVE  RefCountsExact' /\ VacantUnused'
<1> SUFFICES ASSUME NEW e \in Entities PROVE Exact(e)' /\ Alive(e)'
    BY CountsSplit
<1>a. Exact(e) /\ Alive(e)
    BY CountsSplit
<1>b. Set!TypeOK /\ CallsShape /\ Stack /\ KindsFit /\ QueueType /\ EntityType
      /\ (flushing_effects <=> phase # "off")
    BY DEF Shape, Stack
<1>1. CASE Finish
    <2>1. \/ Shrinks /\ ~StartsFlush /\ base' = base
          \/ /\ StartsFlush /\ Level = 1 /\ Level' = 1 /\ base = 0 /\ base' = 1
             /\ transactions' = transactions
        <3>1. CASE StartsFlush
            <4>1. Level = 1 /\ base = 0 /\ base' = 1 /\ transactions' = transactions
                BY <1>1, <1>b, <3>1 DEF Finish, StartsFlush, Stack
            <4> QED
                BY <3>1, <4>1 DEF Level
        <3>2. CASE ~StartsFlush
            <4>1. /\ InBody /\ transactions' = SubSeq(transactions, 1, Level - 1)
                  /\ pending_updates' = Level - 1 /\ flushing_effects' = flushing_effects
                  /\ UNCHANGED <<phase, base, entered>>
                BY <1>1, <1>b, <3>2 DEF Finish, Stack
            <4>2. OpsType' /\ ops'.depth = ops.depth
                BY <1>b, OpsStep DEF Stack
            <4> QED
                BY <1>b, <3>2, <4>1, <4>2, PopStack DEF Shrinks
        <3> QED
            BY <3>1, <3>2
    <2> QED
        BY <1>1, <1>a, <2>1, CountsFinish
<1>2. CASE ApplyDefer
    BY <1>2, <1>a, CountsApplyDefer
<1>3. CASE DeferDone
    <2>0. phase = "defer" /\ slot' = slot /\ UNCHANGED pending_effects
        BY <1>3 DEF DeferDone, queueVars
    <2>1. Announced(e)' = Announced(e)
        BY <2>0 DEF Announced, Queued
    <2>2. CASE GoOn /\ ReleaseRefs(One(subject))
        BY <1>a, <2>0, <2>1, <2>2, CountsGoOn
    <2>3. CASE AbortFlush /\ ReleaseRefs(Sum(One(subject), LostResult))
        <3>1. OpsType' /\ ops'.depth = ops.depth
            BY <1>b, OpsStep DEF Stack
        <3>2. Ends
            <4>1. transactions' = <<>>
                BY <1>b, <2>0, <2>3, <3>1, AbortStack
            <4>2. Len(<<>>) = 0
                OBVIOUS
            <4>3. Level = 1 /\ base = 1
                BY <1>3, <1>b, FlushAlone DEF DeferDone
            <4> QED
                BY <2>0, <2>3, <4>1, <4>2, <4>3 DEF Ends, AbortFlush, Level
        <3>3. Deferred(e)' = 0 /\ Upgraded(e)' = Upgraded(e)
            BY <2>0, <2>3 DEF Deferred, Upgraded, AbortFlush
        <3> QED
            BY <1>a, <2>0, <2>1, <2>3, <3>2, <3>3, CountsEnd
    <2> QED
        BY <1>3, <2>2, <2>3 DEF DeferDone
<1>4. CASE EnterCallback
    BY <1>4, <1>a, CountsEnter
<1>5. CASE CallbackPanics \/ \E keep \in BOOLEAN : CallbackReturns(keep)
    <2>1. /\ phase = "retain" /\ InCallback /\ LeaveCallback
          /\ UNCHANGED <<handles, slot, transactions, base, pending_effects, phase, subject>>
        BY <1>5 DEF CallbackPanics, CallbackReturns, txnVars, queueVars
    <2> QED
        BY <1>a, <2>1, CountsLeave
<1>6. CASE /\ ~Finish /\ ~ApplyDefer /\ ~DeferDone /\ ~EnterCallback /\ ~CallbackPanics
           /\ ~ \E keep \in BOOLEAN : CallbackReturns(keep)
    <2>1. Announced(e)' = Announced(e) /\ Deferred(e)' = Deferred(e) /\ Upgraded(e)' = Upgraded(e)
        BY <1>6, <1>b, AnnouncedStays, DeferredStays, UpgradedStays
    <2>2. CASE \E x \in Entities : \/ AcquireHandle(x) \/ DropHandle(x) \/ UpdateEntity(x)
                                   \/ Borrow(x) \/ NewEntity(x)
        BY <1>a, <2>1, <2>2, CountsUser
    <2>3. CASE BodyPanics
        <3>1. /\ InBody /\ transactions' = SubSeq(transactions, 1, Level - 1) /\ Restore(Txn)
              /\ UNCHANGED <<phase, base, entered>>
            BY <2>3 DEF BodyPanics, flushVars
        <3>2. OpsType' /\ ops'.depth = ops.depth
            BY <1>b, OpsStep DEF Stack
        <3>3. pending_updates' = Level - 1 /\ flushing_effects' = flushing_effects
            BY <1>b, <3>1, RestoreStack
        <3>4. Shrinks
            BY <1>b, <3>1, <3>2, <3>3, PopStack DEF Shrinks
        <3> QED
            BY <1>a, <2>1, <2>3, <3>1, <3>4, CountsPanic
    <2>4. CASE TakeDropped
        <3>1. /\ strong' = strong /\ handles' = handles /\ dropped_entity_ids' = {}
              /\ UNCHANGED <<transactions, base>> /\ phase = "release"
            BY <2>4 DEF TakeDropped, txnVars
        <3>2. strong'[e] \in Int /\ handles'[e] \in Int
            BY <3>1, <1>b DEF EntityType
        <3>3. Exact(e)'
            BY <1>a, <2>1, <3>1, <3>2, ExactStays, HandlesTotal
        <3>4. slot'[e] = IF e \notin dropped_entity_ids THEN slot[e]
                         ELSE IF slot[e] = "stored" THEN "releasing" ELSE "abandoned"
            BY <2>4 DEF TakeDropped
        <3>5. Alive(e)'
            BY <1>a, <3>1, <3>4 DEF Alive, Dead
        <3> QED
            BY <3>3, <3>5
    <2>5. CASE DropEntity
        <3>1. /\ strong' = strong /\ handles' = handles /\ dropped_entity_ids' = dropped_entity_ids
              /\ UNCHANGED <<transactions, base>> /\ phase = "drop"
              /\ slot'[e] = IF e = subject THEN "gone" ELSE slot[e]
            BY <2>5, <1>b DEF DropEntity, txnVars, EntityType
        <3>2. strong'[e] \in Int /\ handles'[e] \in Int
            BY <3>1, <1>b DEF EntityType
        <3>3. Exact(e)'
            BY <1>a, <2>1, <3>1, <3>2, ExactStays, HandlesTotal
        <3>4. e = subject => slot[e] = "releasing"
            BY <3>1 DEF Batch, Releasing
        <3>5. Alive(e)'
            BY <1>a, <3>1, <3>4 DEF Alive, Dead
        <3> QED
            BY <3>3, <3>5
    <2>6. CASE ReleaseDone \/ RetainEnds \/ FlushDone
        <3>1. slot' = slot /\ phase # "defer"
            BY <2>6 DEF ReleaseDone, RetainEnds, FlushDone
        <3>2. Deferred(e) = 0 /\ Deferred(e)' = 0
            BY <2>1, <3>1 DEF Deferred
        <3>3. CASE (ReleaseDone \/ RetainEnds) /\ ~first_panic
            <4>1. UNCHANGED <<strong, handles, dropped_entity_ids, transactions, base>>
                BY <3>3 DEF ReleaseDone, RetainEnds, GoOn
            <4>2. strong'[e] \in Int /\ handles'[e] \in Int
                BY <4>1, <1>b DEF EntityType
            <4>3. Exact(e)'
                BY <1>a, <2>1, <4>1, <4>2, ExactStays, HandlesTotal
            <4> QED
                BY <1>a, <3>1, <4>1, <4>3, AliveStays
        <3>4. CASE (ReleaseDone \/ RetainEnds) /\ first_panic
            <4>1. AbortFlush /\ ReleaseRefs(LostResult)
                BY <3>4 DEF ReleaseDone, RetainEnds
            <4>2. Ends
                <5>1. phase # "off" /\ Level = 1 /\ base = 1
                    <6>1. CASE ReleaseDone
                        BY <1>b, <6>1, FlushAlone DEF ReleaseDone
                    <6>2. CASE RetainEnds
                        BY <1>b, <6>2, FlushAlone, RetainEndsOutside DEF RetainEnds
                    <6> QED
                        BY <3>4, <6>1, <6>2
                <5>2. OpsType' /\ ops'.depth = ops.depth
                    BY <1>b, OpsStep DEF Stack
                <5>3. transactions' = <<>>
                    BY <1>b, <4>1, <5>1, <5>2, AbortStack
                <5>4. Len(<<>>) = 0
                    OBVIOUS
                <5> QED
                    BY <4>1, <5>1, <5>3, <5>4 DEF Ends, AbortFlush, Level
            <4> QED
                BY <1>a, <2>1, <3>1, <3>2, <4>1, <4>2, CountsEnd
        <3>5. CASE FlushDone
            <4>1. Ends
                <5>1. phase # "off" /\ Level = 1 /\ base = 1
                    BY <1>b, <3>5, FlushAlone DEF FlushDone
                <5>2. transactions' = <<>>
                    BY <1>b, <3>5, <5>1 DEF FlushDone, Stack
                <5>3. Len(<<>>) = 0
                    OBVIOUS
                <5> QED
                    BY <3>5, <5>1, <5>2, <5>3 DEF Ends, FlushDone, Level
            <4>2. ReturnHandles(transactions[base], TRUE) /\ UNCHANGED <<strong, dropped_entity_ids>>
                BY <3>5 DEF FlushDone
            <4> QED
                BY <1>a, <2>1, <3>1, <3>2, <4>1, <4>2, CountsEnd
        <3> QED
            BY <2>6, <3>3, <3>4, <3>5
    <2>7. CASE UNCHANGED entityVars
        <3>1. UNCHANGED <<strong, handles, slot, dropped_entity_ids>>
            BY <2>7 DEF entityVars
        <3>2. strong'[e] \in Int /\ handles'[e] \in Int
            BY <3>1, <1>b DEF EntityType
        <3>3. CASE UNCHANGED <<transactions, base>>
            <4>1. Exact(e)'
                BY <1>a, <2>1, <3>1, <3>2, <3>3, ExactStays, HandlesTotal
            <4> QED
                BY <1>a, <3>1, <4>1, AliveStays
        <3>4. CASE Update
            <4>1. Begin("update", NoEntity) /\ "update" \in Kinds /\ NoEntity \in Entities \cup {NoEntity}
                BY <3>4 DEF Update, Kinds
            <4>2. OpsType' /\ ops'.depth = ops.depth
                BY <1>b, OpsStep DEF Stack
            <4>3. Updating(e)' = Updating(e) /\ Creating(e)' = Creating(e) /\ Building(e)' = Building(e)
                BY <1>a, <1>b, <4>1, <4>2, FramesBegin, HandlesTotal
            <4>4. Exact(e)'
                BY <1>a, <2>1, <3>1, <4>3, HandlesTotal, ExactFollows
            <4> QED
                BY <1>a, <3>1, <4>4, AliveStays
        <3> QED
            BY <1>6, <2>2, <2>3, <2>6, <3>3, <3>4, TxnFrame
    <2> QED
        BY <1>6, <2>2, <2>3, <2>4, <2>5, <2>6, <2>7, EntityFrame
<1> QED
    BY <1>1, <1>2, <1>3, <1>4, <1>5, <1>6
-----------------------------------------------------------------------------
\* Which steps change what is being released.
LEMMA BatchFrame ==
    Next => \/ /\ batch' = batch
               /\ phase' \in Releasing => phase \in Releasing /\ subject' = subject
            \/ TakeDropped \/ ReleaseObservers
<1> USE DEF Releasing
<1>1. ASSUME \/ ListenerDone \/ CallbackPanics \/ \E keep \in BOOLEAN : CallbackReturns(keep)
             \/ NextListener \/ RetainVisit \/ RetainSweeps \/ EnterCallback \/ UserStep \/ BodyPanics
             \/ \E e \in Entities : DropHandle(e)
      PROVE  UNCHANGED <<phase, subject, batch>>
    BY <1>1 DEF ListenerDone, CallbackPanics, CallbackReturns, NextListener, RetainVisit,
       RetainSweeps, EnterCallback, flushVars, UserStep, Notify, Emit, Observe, Subscribe,
       ObserveRelease, AcquireHandle, UpdateEntity, Borrow, NewEntity, SetGlobal, RemoveGlobal,
       ObserveGlobal, DropSubscription, Defer, Update, Begin, BodyPanics, DropHandle,
       SubscribeTo
<1>2. ASSUME \/ Finish \/ DropEntity \/ DeferDone \/ BeginListeners \/ ListenersDone
             \/ ReleaseDone \/ ApplyNotify \/ ApplyNotifyGlobalObservers \/ ApplyEmit
             \/ ApplyActivate \/ ApplyDefer \/ RetainEnds \/ FlushDone
      PROVE  /\ batch' = batch
             /\ phase' \in Releasing => phase \in Releasing /\ subject' = subject
    BY <1>2 DEF Finish, DropEntity, DeferDone, GoOn, AbortFlush, BeginListeners, ListenersDone,
       ReleaseDone, ApplyNotify, ApplyNotifyGlobalObservers, ApplyEmit, ApplyActivate,
       ApplyDefer, PopEffect, Dispatch, RetainEnds, FlushDone
<1> QED
    BY <1>1, <1>2 DEF Next, ReturnStep, FlushStep

\* A handle is put on the dropped list only when it was the last of a count that was not zero.
LEMMA DroppedFrame ==
    ASSUME EntityType, Next, NEW e \in Entities, e \in dropped_entity_ids'
    PROVE  e \in dropped_entity_ids \/ strong[e] # 0
<1>0. ASSUME NEW lost, ReleaseRefs(lost) PROVE e \in dropped_entity_ids \/ strong[e] # 0
    <2>1. e \in dropped_entity_ids \/ (lost[e] > 0 /\ lost[e] = strong[e])
        BY <1>0 DEF ReleaseRefs
    <2> QED
        BY <2>1
<1>1. CASE UNCHANGED dropped_entity_ids
    BY <1>1
<1>2. CASE TakeDropped
    BY <1>2 DEF TakeDropped
<1>3. CASE (\E x \in Entities : DropHandle(x)) \/ BodyPanics
    BY <1>0, <1>3 DEF DropHandle, BodyPanics
<1>4. CASE CallbackPanics \/ \E keep \in BOOLEAN : CallbackReturns(keep)
    BY <1>0, <1>4 DEF CallbackPanics, CallbackReturns, LeaveCallback
<1>5. CASE ReleaseDone \/ RetainEnds \/ DeferDone
    BY <1>0, <1>1, <1>5 DEF ReleaseDone, RetainEnds, DeferDone
<1>6. ASSUME \/ \E x \in Entities : AcquireHandle(x) \/ UpdateEntity(x) \/ Borrow(x) \/ NewEntity(x)
             \/ Finish \/ DropEntity \/ EnterCallback \/ FlushDone \/ UNCHANGED entityVars
      PROVE  UNCHANGED dropped_entity_ids
    BY <1>6 DEF AcquireHandle, UpdateEntity, Borrow, NewEntity, Begin, Finish, DropEntity,
       EnterCallback, FlushDone, entityVars
<1> QED
    BY <1>1, <1>2, <1>3, <1>4, <1>5, <1>6, EntityFrame

\* An entity that left the map for good does not come back.
LEMMA DeadStays ==
    ASSUME Shape, Batch, Next, NEW e \in Entities, slot[e] \in {"releasing", "gone"}
    PROVE  slot'[e] = slot[e] \/ (DropEntity /\ e = subject /\ slot'[e] = "gone")
<1>a. slot \in [Entities -> Slots]
    BY DEF Shape, EntityType
<1>1. CASE \E x \in Entities : UpdateEntity(x) \/ Borrow(x) \/ NewEntity(x)
    BY <1>1, <1>a DEF UpdateEntity, Borrow, NewEntity
<1>2. CASE Finish \/ BodyPanics
    <2>0. Stack /\ InBody
        BY <1>2 DEF Finish, BodyPanics, Shape
    <2>1. Level \in base + 1 .. Level /\ Level \in 1 .. Level
        BY <2>0, BodyLevel
    <2>2. Txn.entity = NoEntity \/ slot[Txn.entity] \in {"leased", "reserved", "abandoned"}
        <3>1. Txn.kind \in Kinds /\ Txn.entity \in Entities \cup {NoEntity}
              /\ (Txn.kind = "update" <=> Txn.entity = NoEntity)
            BY <2>1 DEF Shape, KindsFit, Txn
        <3>2. Txn.kind = "new" => slot[Txn.entity] \in {"reserved", "abandoned"}
            BY <2>1 DEF Shape, Leases, Txn
        <3>3. Txn.kind \in {"update_entity", "borrow"} => slot[Txn.entity] = "leased"
            BY <2>1, <3>1, CycleAssumption DEF Shape, Leases, LeasesBalanced, Txn
        <3> QED
            BY <3>1, <3>2, <3>3 DEF Kinds
    <2>3. slot' = slot \/ StoreEntity(Txn)
        BY <1>2 DEF Finish, BodyPanics, UnwindSlot
    <2> QED
        BY <1>a, <2>2, <2>3 DEF StoreEntity
<1>3. CASE TakeDropped
    BY <1>3 DEF TakeDropped, Batch
<1>4. CASE DropEntity
    BY <1>4, <1>a DEF DropEntity
<1> QED
    BY <1>1, <1>2, <1>3, <1>4, SlotFrame

LEMMA DeadBefore ==
    ASSUME Shape, Batch, Next, NEW e \in Entities, slot'[e] \in Dead, ~TakeDropped
    PROVE  slot[e] \in Dead
<1>a. slot \in [Entities -> Slots]
    BY DEF Shape, EntityType
<1>1. CASE \E x \in Entities : UpdateEntity(x) \/ Borrow(x) \/ NewEntity(x)
    BY <1>1, <1>a DEF UpdateEntity, Borrow, NewEntity, Dead
<1>2. CASE Finish \/ BodyPanics
    <2>1. slot' = slot \/ StoreEntity(Txn)
        BY <1>2 DEF Finish, BodyPanics, UnwindSlot
    <2> QED
        BY <1>a, <2>1 DEF StoreEntity, Dead
<1>3. CASE DropEntity
    <2>1. slot[subject] = "releasing"
        BY <1>3 DEF DropEntity, Batch, Releasing
    <2> QED
        BY <1>3, <1>a, <2>1 DEF DropEntity, Dead
<1> QED
    BY <1>1, <1>2, <1>3, SlotFrame

LEMMA BatchStep ==
    ASSUME Shape, Shape', Next, RefCountsExact, VacantUnused, Batch PROVE Batch'
<1>a. batch \subseteq Entities /\ (phase \in Releasing => subject \in Entities)
      /\ slot \in [Entities -> Slots] /\ dropped_entity_ids \subseteq Entities
    BY DEF Shape, SubjectType, EntityType
<1>1. ASSUME NEW e \in Entities, slot'[e] \in Dead PROVE e \notin dropped_entity_ids'
    <2>1. CASE TakeDropped
        BY <2>1 DEF TakeDropped
    <2>2. CASE ~TakeDropped
        <3>1. slot[e] \in Dead
            BY <1>1, <2>2, DeadBefore
        <3>2. strong[e] = 0 /\ e \notin dropped_entity_ids
            BY <3>1 DEF RefCountsExact, Batch, Dead
        <3> QED
            BY <3>2, DroppedFrame DEF Shape
    <2> QED
        BY <2>1, <2>2
<1>2. /\ \A e \in batch' : slot'[e] = "releasing"
      /\ phase' \in Releasing => slot'[subject'] = "releasing" /\ subject' \notin batch'
    <2>1. CASE TakeDropped
        <3>1. /\ batch' = {e \in dropped_entity_ids : slot[e] = "stored"} /\ phase' = "release"
              /\ slot' = [e \in Entities |->
                   IF e \notin dropped_entity_ids THEN slot[e]
                   ELSE IF slot[e] = "stored" THEN "releasing" ELSE "abandoned"]
            BY <2>1 DEF TakeDropped
        <3> QED
            BY <1>a, <3>1 DEF Releasing
    <2>2. CASE ReleaseObservers
        <3>1. slot' = slot /\ \E e \in batch : subject' = e /\ batch' = batch \ {e}
            BY <2>2 DEF ReleaseObservers, entityVars
        <3> QED
            BY <3>1 DEF Batch
    <2>3. CASE DropEntity
        <3>1. /\ phase \in Releasing /\ phase' \notin Releasing /\ batch' = batch
              /\ slot' = [slot EXCEPT ![subject] = "gone"]
            BY <2>3 DEF DropEntity, Releasing
        <3> QED
            BY <1>a, <3>1 DEF Batch
    <2>4. CASE ~TakeDropped /\ ~ReleaseObservers /\ ~DropEntity
        <3>1. /\ batch' = batch
              /\ phase' \in Releasing => phase \in Releasing /\ subject' = subject
            BY <2>4, BatchFrame
        <3>2. \A e \in Entities : slot[e] = "releasing" => slot'[e] = "releasing"
            BY <2>4, DeadStays
        <3> QED
            BY <1>a, <3>1, <3>2 DEF Batch
    <2> QED
        BY <2>1, <2>2, <2>3, <2>4
<1> QED
    BY <1>1, <1>2 DEF Batch, Dead
-----------------------------------------------------------------------------
LEMMA CountsInit == Init => Counts
<1> SUFFICES ASSUME Init PROVE Counts
    OBVIOUS
<1>1. Level = 0 /\ base = 0 /\ Len(pending_effects) = 0 /\ phase = "off" /\ batch = {}
    <2>1. Len(<<>>) = 0
        OBVIOUS
    <2> QED
        BY <2>1 DEF Init, Level
<1>2. /\ \A e \in Entities : strong[e] = IF e \in InitialEntities THEN 1 ELSE 0
      /\ \A e \in Entities : slot[e] = IF e \in InitialEntities THEN "stored" ELSE "vacant"
      /\ handles = strong /\ dropped_entity_ids = {}
    BY DEF Init
<1>3. ASSUME NEW e \in Entities PROVE FrameworkHandles(e) = 0
    <2>1. Queued("EntityCreated", e) = {}
        BY <1>1 DEF Queued
    <2>2. \A kind : FramesOf(kind, 1, e) = {} /\ FramesOf(kind, base + 1, e) = {}
        BY <1>1 DEF FramesOf
    <2>3. Announced(e) = 0 /\ Deferred(e) = 0 /\ Upgraded(e) = 0
        BY <1>1, <2>1, FS_EmptySet DEF Announced, Deferred, Upgraded
    <2>4. Updating(e) = 0 /\ Creating(e) = 0 /\ Building(e) = 0
        BY <2>2, FS_EmptySet DEF Updating, Creating, Building, Frames
    <2> QED
        BY <2>3, <2>4, HandlesSplit
<1>4. RefCountsExact /\ VacantUnused
    BY <1>2, <1>3 DEF RefCountsExact, VacantUnused
<1> QED
    BY <1>1, <1>2, <1>4 DEF Counts, Batch, Releasing

LEMMA CountsInductive == Shape /\ Shape' /\ Counts /\ [Next]_vars => Counts'
<1>1. ASSUME Shape, Shape', Counts, Next PROVE Counts'
    BY <1>1, CountsStep, BatchStep DEF Counts
<1>2. ASSUME Counts, UNCHANGED vars PROVE Counts'
    <2> USE <1>2 DEF vars
    <2>1. Batch' /\ VacantUnused'
        BY DEF Counts, Batch, VacantUnused, entityVars, flushVars
    <2>2. \A e : FrameworkHandles(e)' = FrameworkHandles(e)
        BY DEF FrameworkHandles, Queued, OnEntity, Emitter, Set!Top, Set!Depth, Level, setVars,
           txnVars, queueVars, flushVars
    <2>3. RefCountsExact'
        BY <2>2 DEF Counts, RefCountsExact, entityVars
    <2> QED
        BY <2>1, <2>3 DEF Counts
<1> QED
    BY <1>1, <1>2

LEMMA CountsHold == Spec => []Counts
<1>1. Spec => [][Next]_vars /\ Init
    BY PTL DEF Spec
<1> QED
    BY <1>1, CountsInit, CountsInductive, ShapeHolds, PTL

\* Every reference count is the number of handles there are, those of user code and those of
\* the effects, callbacks and transactions in progress, however code unwinds; and an entity
\* without handles is on its way out of the map while one with a handle never is.
THEOREM RefCountsAlwaysExact == Spec => []RefCountsExact
BY CountsHold, PTL DEF Counts

\* The rest of the types: the update counter keeps within its bound, and a payload waits or
\* does not.
Counters ==
    /\ current_update_generation \in 0 .. MaxUpdates
    /\ first_panic \in BOOLEAN
    /\ globals_by_type \subseteq Globals

LEMMA CountersStep ==
    ASSUME Stack, Counters, Next PROVE Counters'
<1>1. first_panic' \in BOOLEAN
    BY DEF Counters, Next, UserStep, ReturnStep, FlushStep, Notify, Emit, Observe, Subscribe,
       ObserveRelease, AcquireHandle, UpdateEntity, Borrow, NewEntity, SetGlobal, RemoveGlobal,
       ObserveGlobal, DropSubscription, Defer, Update, Begin, Finish, BodyPanics, ListenerDone,
       DeferDone, CallbackPanics, CallbackReturns, TakeDropped, ReleaseObservers,
       BeginListeners, NextListener, ListenersDone, DropEntity, ReleaseDone, ApplyNotify,
       ApplyNotifyGlobalObservers, ApplyEmit, ApplyActivate, ApplyDefer, RetainVisit,
       RetainSweeps, EnterCallback, RetainEnds, FlushDone, DropHandle, SubscribeTo, Dispatch,
       GoOn, AbortFlush, flushVars
<1>2. globals_by_type' \subseteq Globals
    BY DEF Counters, Next, UserStep, ReturnStep, FlushStep, Notify, Emit, Observe, Subscribe,
       ObserveRelease, AcquireHandle, UpdateEntity, Borrow, NewEntity, SetGlobal, RemoveGlobal,
       ObserveGlobal, DropSubscription, Defer, Update, Begin, Finish, BodyPanics, ListenerDone,
       DeferDone, CallbackPanics, CallbackReturns, TakeDropped, ReleaseObservers,
       BeginListeners, NextListener, ListenersDone, DropEntity, ReleaseDone, ApplyNotify,
       ApplyNotifyGlobalObservers, ApplyEmit, ApplyActivate, ApplyDefer, RetainVisit,
       RetainSweeps, EnterCallback, RetainEnds, FlushDone, DropHandle, SubscribeTo, Dispatch
<1>3. current_update_generation' \in 0 .. MaxUpdates
    <2>1. ASSUME NEW kind, NEW e, Begin(kind, e)
          PROVE current_update_generation' \in 0 .. MaxUpdates
        <3>1. CASE Idle
            BY <2>1, <3>1, CycleAssumption DEF Begin, Counters
        <3>2. CASE ~Idle
            <4>1. Level > 0
                BY <2>1, <3>2, LevelType DEF Begin, Idle, AppFree, UserRuns, Stack, Level
            <4> QED
                BY <2>1, <4>1, LevelType DEF Begin, Counters, Stack
        <3> QED
            BY <3>1, <3>2
    <2>2. CASE Update \/ \E e \in Entities : UpdateEntity(e) \/ Borrow(e) \/ NewEntity(e)
        BY <2>1, <2>2 DEF Update, UpdateEntity, Borrow, NewEntity
    <2>3. CASE ~(Update \/ \E e \in Entities : UpdateEntity(e) \/ Borrow(e) \/ NewEntity(e))
        <3>1. UNCHANGED current_update_generation
            BY <2>3 DEF Next, UserStep, ReturnStep, FlushStep, Notify, Emit, Observe, Subscribe,
               ObserveRelease, AcquireHandle, SetGlobal, RemoveGlobal, ObserveGlobal,
               DropSubscription, Defer, Finish, BodyPanics, ListenerDone, DeferDone,
               CallbackPanics, CallbackReturns, TakeDropped, ReleaseObservers, BeginListeners,
               NextListener, ListenersDone, DropEntity, ReleaseDone, ApplyNotify,
               ApplyNotifyGlobalObservers, ApplyEmit, ApplyActivate, ApplyDefer, RetainVisit,
               RetainSweeps, EnterCallback, RetainEnds, FlushDone, DropHandle, SubscribeTo,
               Dispatch, txnVars
        <3> QED
            BY <3>1 DEF Counters
    <2> QED
        BY <2>2, <2>3
<1> QED
    BY <1>1, <1>2, <1>3 DEF Counters

\* The counters, the stack, the queue, the entities and the lists keep their types; no count
\* of handles ever becomes negative.
THEOREM TypeCorrect == Spec => []TypeOK
<1>1. Init => Counters
    <2>1. 0 \in 0 .. MaxUpdates
        BY CycleAssumption
    <2>2. Init => current_update_generation = 0 /\ first_panic = FALSE /\ globals_by_type = {}
        BY DEF Init
    <2> QED
        BY <2>1, <2>2 DEF Counters
<1>2. Shape /\ Counters /\ [Next]_vars => Counters'
    <2>1. ASSUME Shape, Counters, Next PROVE Counters'
        BY <2>1, CountersStep DEF Shape
    <2>2. ASSUME Counters, UNCHANGED vars PROVE Counters'
        BY <2>2 DEF Counters, vars, txnVars, flushVars
    <2> QED
        BY <2>1, <2>2
<1>3. Shape /\ Counts /\ Counters => TypeOK
    <2> SUFFICES ASSUME Shape, Counts, Counters PROVE TypeOK
        OBVIOUS
    <2>1. \A e \in Entities : strong[e] \in Nat
        BY CountsSplit, HandlesTotal DEF Counts
    <2>2. strong \in [Entities -> Nat]
        BY <2>1 DEF Shape, EntityType
    <2>3. /\ transactions \in Seq([kind : Kinds, entity : Entities \cup {NoEntity},
                                   pending : Nat, flushing : BOOLEAN])
          /\ pending_updates \in Nat /\ flushing_effects \in BOOLEAN /\ base \in 0 .. ops.depth
        <3>1. Level \in Nat /\ ops.depth \in Nat /\ Level <= ops.depth
            BY LevelType DEF Shape, Stack, OpsType
        <3> QED
            BY <3>1 DEF Shape, Stack, Txns
    <2>4. phase \in Phases /\ entered \in BOOLEAN
        BY DEF Shape, CallsShape
    <2>5. batch \subseteq Entities /\ subject \in Entities \cup {NoEntity}
        BY DEF Shape, SubjectType
    <2>6. /\ Set!TypeOK /\ pending_notifications \subseteq Entities
          /\ pending_global_notifications \subseteq Globals
        BY DEF Shape, QueueType
    <2>7. /\ slot \in [Entities -> Slots] /\ handles \in [Entities -> Nat]
          /\ dropped_entity_ids \subseteq Entities
        BY DEF Shape, EntityType
    <2> QED
        BY <2>2, <2>3, <2>4, <2>5, <2>6, <2>7 DEF TypeOK, Counters, Phases
<1>4. Spec => []Counters
    <2>1. Spec => [][Next]_vars /\ Init
        BY PTL DEF Spec
    <2> QED
        BY <1>1, <1>2, <2>1, ShapeHolds, PTL
<1> QED
    BY <1>3, <1>4, ShapeHolds, CountsHold, PTL
-----------------------------------------------------------------------------
\* The key whose subscribers an effect is for.
Notifies(k) ==
    \/ ApplyNotify /\ k = Observers(Popped)
    \/ ApplyNotifyGlobalObservers /\ k = GlobalObservers(Popped)
    \/ ApplyEmit /\ k = EventListeners(Popped)

\* A notification begins with all the subscribers stored for its key.
LEMMA RetainStarts ==
    ASSUME Shape, Next, phase # "retain", phase' = "retain"
    PROVE  \E k \in Keys :
              /\ Notifies(k) /\ subscribers[k].tag = "some" /\ Set!RetainBegin(k)
              /\ calls'[1] = [op |-> "retain", key |-> k, todo |-> subscribers[k].ids,
                              kept |-> {}, at |-> Set!NoId]
<1>1. ApplyNotify \/ ApplyNotifyGlobalObservers \/ ApplyEmit
    <2>1. ASSUME \/ Finish \/ ListenerDone \/ DeferDone \/ CallbackPanics
                 \/ \E keep \in BOOLEAN : CallbackReturns(keep)
                 \/ ReleaseObservers \/ BeginListeners \/ NextListener \/ ListenersDone
                 \/ DropEntity \/ ReleaseDone \/ ApplyActivate \/ ApplyDefer \/ RetainVisit
                 \/ RetainSweeps \/ EnterCallback \/ RetainEnds \/ FlushDone
          PROVE  FALSE
        BY <2>1 DEF Finish, ListenerDone, DeferDone, CallbackPanics, CallbackReturns,
           ReleaseObservers, BeginListeners, NextListener, ListenersDone, DropEntity,
           ReleaseDone, ApplyActivate, ApplyDefer, RetainVisit, RetainSweeps, EnterCallback,
           RetainEnds, FlushDone, GoOn, AbortFlush, flushVars
    <2> QED
        BY <2>1, PhaseFrame
<1>2. PICK k \in Keys : Notifies(k) /\ Dispatch(k) /\ phase = "effects"
    BY <1>1, PoppedType, KeyTypes DEF ApplyNotify, ApplyNotifyGlobalObservers, ApplyEmit,
       Notifies, Shape, PopEffect
<1>3. subscribers[k].tag = "some" /\ Set!RetainBegin(k)
    BY <1>2 DEF Dispatch
<1>4. calls = <<>>
    BY <1>2 DEF Shape, CallsShape
<1>5. calls' = Set!Enter("retain", k, subscribers[k].ids)
    BY <1>3 DEF Set!RetainBegin
<1> QED
    BY <1>2, <1>3, <1>4, <1>5, FirstCall

\* What happens to a notification that has begun.
LEMMA RetainGoesOn ==
    ASSUME Shape, Next, phase = "retain", phase' = "retain"
    PROVE  /\ calls'[1].key = calls[1].key
           /\ \/ calls' = calls
              \/ /\ \E keep \in BOOLEAN : Set!RetainReturn(keep)
                 /\ calls'[1].todo = calls[1].todo /\ calls'[1].at = Set!NoId
              \/ CallbackPanics /\ calls'[1].todo = {} /\ calls'[1].at = Set!NoId
              \/ RetainVisit /\ \E id \in calls[1].todo :
                    /\ calls'[1].todo = calls[1].todo \ {id}
                    /\ calls'[1].at = IF id \in active \ dropped THEN id ELSE Set!NoId
              \/ RetainSweeps /\ calls'[1].todo = calls[1].todo /\ calls'[1].at = Set!NoId
<1>0. Set!TypeOK /\ Len(calls) = 1 /\ Set!Top = calls[1]
    BY OneCall DEF Shape, CallsShape
<1>a. ASSUME NEW todo, NEW kept, NEW at, calls' = Set!Progress(todo, kept, at)
      PROVE  calls'[1].key = calls[1].key /\ calls'[1].todo = todo /\ calls'[1].at = at
    <2>1. calls'[1] = [op |-> calls[1].op, key |-> calls[1].key, todo |-> todo,
                       kept |-> kept, at |-> at]
        BY <1>0, <1>a, OneCall
    <2> QED
        BY <2>1
<1>b. ASSUME NEW keep \in BOOLEAN, Set!RetainReturn(keep)
      PROVE  /\ calls'[1].key = calls[1].key
             /\ calls'[1].todo = calls[1].todo /\ calls'[1].at = Set!NoId
    BY <1>0, <1>a, <1>b DEF Set!RetainReturn
<1>1. CASE UNCHANGED calls
    BY <1>1
<1>2. CASE \E keep \in BOOLEAN : CallbackReturns(keep)
    BY <1>2, <1>b DEF CallbackReturns
<1>3. CASE CallbackPanics
    <2>1. calls'[1].key = calls[1].key /\ calls'[1].todo = {} /\ calls'[1].at = Set!NoId
        BY <1>a, <1>3 DEF CallbackPanics, Set!RetainPanic
    <2> QED
        BY <1>3, <2>1
<1>4. CASE RetainVisit
    <2>1. PICK id \in calls[1].todo :
              calls' = Set!Progress(calls[1].todo \ {id},
                             IF id \in active THEN calls[1].kept ELSE calls[1].kept \cup {id},
                             IF id \in active \ dropped THEN id ELSE Set!NoId)
        BY <1>0, <1>4 DEF RetainVisit, Set!RetainVisit
    <2>2. /\ calls'[1].key = calls[1].key /\ calls'[1].todo = calls[1].todo \ {id}
          /\ calls'[1].at = IF id \in active \ dropped THEN id ELSE Set!NoId
        BY <1>a, <2>1
    <2> QED
        BY <1>4, <2>2
<1>5. CASE EnterCallback
    <2>1. Set!RetainReturn(FALSE) \/ UNCHANGED setVars
        BY <1>5 DEF EnterCallback
    <2> QED
        BY <1>b, <2>1 DEF setVars
<1>6. ASSUME \/ Finish \/ ListenerDone \/ DeferDone \/ ReleaseObservers \/ BeginListeners
             \/ NextListener \/ ListenersDone \/ DropEntity \/ ReleaseDone \/ ApplyNotify
             \/ ApplyNotifyGlobalObservers \/ ApplyEmit \/ ApplyActivate \/ ApplyDefer
             \/ FlushDone
      PROVE  UNCHANGED calls
    BY <1>6 DEF Finish, ListenerDone, DeferDone, ReleaseObservers, BeginListeners, NextListener,
       ListenersDone, DropEntity, ReleaseDone, ApplyNotify, ApplyNotifyGlobalObservers,
       ApplyEmit, ApplyActivate, ApplyDefer, PopEffect, FlushDone, setVars
<1>7. CASE RetainEnds
    BY <1>7 DEF RetainEnds, GoOn, AbortFlush
<1>8. CASE RetainSweeps
    <2>1. calls[1].todo = {}
        BY <1>0, <1>8 DEF RetainSweeps, Set!RetainSweep
    <2>2. PICK id \in Set!Ids : calls' = Set!Progress({}, calls[1].kept \ {id}, Set!NoId)
        BY <1>0, <1>8 DEF RetainSweeps, Set!RetainSweep
    <2>3. calls'[1].key = calls[1].key /\ calls'[1].todo = {} /\ calls'[1].at = Set!NoId
        BY <1>a, <2>2
    <2> QED
        BY <1>8, <2>1, <2>3
<1> QED
    BY <1>1, <1>2, <1>3, <1>4, <1>5, <1>6, <1>7, <1>8, PhaseFrame

\* A notification that is over stores its map again.
LEMMA RetainLeaves ==
    ASSUME Shape, Next, phase = "retain", phase' # "retain"
    PROVE  RetainEnds /\ calls[1].todo = {} /\ calls[1].at = Set!NoId
<1>0. Set!TypeOK /\ Len(calls) = 1 /\ Set!Top = calls[1]
    BY OneCall DEF Shape, CallsShape
<1>1. RetainEnds
    <2>1. ASSUME \/ Finish \/ ListenerDone \/ DeferDone \/ CallbackPanics
                 \/ \E keep \in BOOLEAN : CallbackReturns(keep)
                 \/ ReleaseObservers \/ BeginListeners \/ NextListener \/ ListenersDone
                 \/ DropEntity \/ ReleaseDone \/ ApplyNotify \/ ApplyNotifyGlobalObservers
                 \/ ApplyEmit \/ ApplyActivate \/ ApplyDefer \/ RetainVisit
                 \/ RetainSweeps \/ EnterCallback \/ FlushDone
          PROVE  FALSE
        <3>0. flushing_effects
            BY DEF Shape, Stack
        <3> QED
        BY <2>1, <3>0 DEF Finish, StartsFlush, ListenerDone, DeferDone, CallbackPanics,
           CallbackReturns, ReleaseObservers, BeginListeners, NextListener, ListenersDone,
           DropEntity, ReleaseDone, ApplyNotify, ApplyNotifyGlobalObservers, ApplyEmit,
           ApplyActivate, ApplyDefer, PopEffect, RetainVisit, RetainSweeps, EnterCallback,
           FlushDone, flushVars
    <2> QED
        BY <2>1, PhaseFrame
<1> QED
    BY <1>0, <1>1 DEF RetainEnds, Set!RetainEnd, Set!Swept, Set!StoreAgain, Set!InLoop
-----------------------------------------------------------------------------
\* While an entity is released its lists are gone one after the other, and no notification
\* of an entity that is gone is under way.
GoneLists ==
    /\ ReleasedHasNoSubscribers
    /\ phase \in Releasing => /\ subscribers[Observers(subject)].tag = "absent"
                              /\ subscribers[EventListeners(subject)].tag = "absent"
    /\ phase \in {"listeners", "drop"} => subscribers[ReleaseListeners(subject)].tag = "absent"
    /\ phase = "retain" => /\ calls[1].key[1] # "release_listeners"
                           /\ \A e \in Entities :
                                 calls[1].key \in {Observers(e), EventListeners(e)} => slot[e] # "gone"

KeysOf(e) == {Observers(e), EventListeners(e), ReleaseListeners(e)}

\* Which steps change the stored maps.
LEMMA MapsFrame ==
    Next => \/ UNCHANGED subscribers
            \/ \E e \in Entities : Observe(e) \/ Subscribe(e) \/ ObserveRelease(e)
            \/ \E g \in Globals : ObserveGlobal(g)
            \/ \E s \in subscriptions : DropSubscription(s)
            \/ ReleaseObservers \/ BeginListeners \/ ApplyNotify \/ ApplyNotifyGlobalObservers
            \/ ApplyEmit \/ RetainEnds
<1>1. UNCHANGED setVars => UNCHANGED subscribers
    BY DEF setVars
<1>2. ASSUME \/ \E e \in Entities : Notify(e) \/ Emit(e) \/ AcquireHandle(e) \/ UpdateEntity(e)
                    \/ Borrow(e) \/ NewEntity(e) \/ DropHandle(e)
             \/ \E g \in Globals : SetGlobal(g) \/ RemoveGlobal(g)
             \/ Defer \/ Update \/ Finish \/ BodyPanics \/ DeferDone \/ TakeDropped \/ DropEntity
             \/ ReleaseDone \/ ApplyDefer \/ FlushDone
      PROVE  UNCHANGED setVars
    BY <1>2 DEF Notify, Emit, AcquireHandle, UpdateEntity, Borrow, NewEntity, DropHandle,
       SetGlobal, RemoveGlobal, Defer, Update, Begin, Finish, BodyPanics, DeferDone,
       TakeDropped, DropEntity, ReleaseDone, ApplyDefer, FlushDone
<1>3. ASSUME \/ ListenerDone \/ CallbackPanics \/ \E keep \in BOOLEAN : CallbackReturns(keep)
             \/ NextListener \/ ListenersDone \/ ApplyActivate \/ RetainVisit
             \/ RetainSweeps \/ EnterCallback
      PROVE  UNCHANGED subscribers
    BY <1>1, <1>3 DEF ListenerDone, Set!RemoveReturn, CallbackPanics, Set!RetainPanic,
       CallbackReturns, Set!RetainReturn, NextListener, Set!RemoveVisit, ListenersDone,
       Set!RemoveEnd, ApplyActivate, Set!Activate, RetainVisit, RetainSweeps, Set!RetainVisit,
       Set!RetainSweep, EnterCallback
<1> QED
    BY <1>1, <1>2, <1>3 DEF Next, UserStep, ReturnStep, FlushStep

\* A key without subscribers gets some only from who holds its entity, or from the end of a
\* notification of that key.
LEMMA AbsentStays ==
    ASSUME Shape, Next, NEW k \in Keys, subscribers[k].tag = "absent"
    PROVE  \/ subscribers'[k].tag = "absent"
           \/ \E e \in Entities : strong[e] > 0 /\ k \in KeysOf(e)
           \/ \E g \in Globals : k = GlobalObservers(g)
           \/ phase = "retain" /\ k = calls[1].key
<1>0. subscribers \in [Keys -> Set!Slots]
    BY DEF Shape, Set!TypeOK
<1>a. ASSUME NEW x, Set!Insert(x) \/ Set!InsertActive(x), x # k
      PROVE subscribers'[k].tag = "absent"
    BY <1>0, <1>a DEF Set!Insert, Set!InsertActive
<1>1. CASE UNCHANGED subscribers
    BY <1>1
<1>2. CASE \E e \in Entities : Observe(e) \/ Subscribe(e) \/ ObserveRelease(e)
    <2>1. PICK e \in Entities : /\ strong[e] > 0
                                /\ \E x \in KeysOf(e) : Set!Insert(x) \/ Set!InsertActive(x)
        BY <1>2 DEF Observe, Subscribe, ObserveRelease, SubscribeTo, KeysOf
    <2> QED
        BY <1>a, <2>1
<1>3. CASE \E g \in Globals : ObserveGlobal(g)
    BY <1>3, <1>a DEF ObserveGlobal, SubscribeTo
<1>4. CASE \E s \in subscriptions : DropSubscription(s)
    <2>1. PICK s \in subscriptions : subscribers' = [x \in Keys |->
                          Set!Without(subscribers[x], {id \in s : Set!KeyOf(id) = x})]
        BY <1>4 DEF DropSubscription, Set!DropSubscription
    <2> QED
        BY <2>1 DEF Set!Without
<1>5. CASE ReleaseObservers
    <2>1. PICK ks : subscribers' = [x \in Keys |-> IF x \in ks THEN Set!Absent ELSE subscribers[x]]
        BY <1>5 DEF ReleaseObservers, Set!RemoveUnused
    <2> QED
        BY <2>1 DEF Set!Absent
<1>6. CASE BeginListeners
    BY <1>0, <1>6 DEF BeginListeners, Set!RemoveBegin, Set!Absent, setVars
<1>7. ASSUME NEW x, Dispatch(x) PROVE subscribers'[k].tag = "absent"
    BY <1>0, <1>7 DEF Dispatch, Set!RetainBegin, setVars
<1>8. CASE ApplyNotify \/ ApplyNotifyGlobalObservers \/ ApplyEmit
    BY <1>7, <1>8 DEF ApplyNotify, ApplyNotifyGlobalObservers, ApplyEmit
<1>9. CASE RetainEnds
    <2>1. phase = "retain" /\ Set!RetainEnd
        BY <1>9 DEF RetainEnds
    <2>2. Set!Top = calls[1]
        BY <2>1, OneCall DEF Shape, CallsShape
    <2>3. k # calls[1].key => subscribers'[k] = subscribers[k]
        BY <1>0, <2>1, <2>2 DEF Set!RetainEnd, Set!Swept, Set!StoreAgain
    <2> QED
        BY <2>1, <2>3
<1> QED
    BY <1>1, <1>2, <1>3, <1>4, <1>5, <1>6, <1>8, <1>9, MapsFrame

\* So a released entity, which nobody holds, keeps the keys it has without subscribers.
LEMMA ReleasedStaysAbsent ==
    ASSUME Shape, Counts, Next, NEW e \in Entities, slot[e] \in {"releasing", "gone"},
           NEW k \in KeysOf(e), subscribers[k].tag = "absent",
           phase = "retain" => k # calls[1].key
    PROVE  subscribers'[k].tag = "absent"
<1>1. strong[e] = 0
    BY DEF Counts, RefCountsExact
<1>2. k \in Keys
    BY KeyTypes DEF KeysOf
<1>3. \A x \in Entities : k \in KeysOf(x) => x = e
    BY DEF KeysOf, Observers, EventListeners, ReleaseListeners
<1>4. \A g \in Globals : k # GlobalObservers(g)
    BY DEF KeysOf, Observers, EventListeners, ReleaseListeners, GlobalObservers
<1>5. ~ (strong[e] > 0)
    BY <1>1
<1> QED
    BY <1>2, <1>3, <1>4, <1>5, AbsentStays

LEMMA GoneListsStep ==
    ASSUME Shape, Shape', Counts, GoneLists, Next PROVE GoneLists'
<1>a. phase \in Releasing => subject \in Entities
    BY DEF Shape, SubjectType
<1>b. ASSUME NEW e \in Entities, slot[e] = "gone"
      PROVE phase = "retain" => calls[1].key \notin KeysOf(e)
    <2>1. ReleaseListeners(e)[1] = "release_listeners"
        BY DEF ReleaseListeners
    <2> QED
        BY <1>b, <2>1 DEF GoneLists, KeysOf
<1>c. slot \in [Entities -> Slots]
    BY DEF Shape, EntityType
<1>1. ReleasedHasNoSubscribers'
    <2> SUFFICES ASSUME NEW e \in Entities, slot'[e] = "gone", NEW k \in KeysOf(e)
                 PROVE  subscribers'[k].tag = "absent"
        BY DEF ReleasedHasNoSubscribers, KeysOf
    <2>1. CASE slot[e] = "gone"
        <3>1. subscribers[k].tag = "absent"
            BY <2>1 DEF GoneLists, ReleasedHasNoSubscribers, KeysOf
        <3> QED
            BY <1>b, <2>1, <3>1, ReleasedStaysAbsent
    <2>2. CASE slot[e] # "gone"
        <3>1. DropEntity /\ e = subject
            <4>1. slot'[e] # slot[e]
                BY <2>2
            <4>2. ASSUME \E x \in Entities : UpdateEntity(x) \/ Borrow(x) \/ NewEntity(x)
                  PROVE FALSE
                BY <1>c, <2>2, <4>2 DEF UpdateEntity, Borrow, NewEntity
            <4>3. ASSUME Finish \/ BodyPanics PROVE FALSE
                <5>1. slot' = slot \/ StoreEntity(Txn)
                    BY <4>3 DEF Finish, BodyPanics, UnwindSlot
                <5> QED
                    BY <1>c, <2>2, <5>1 DEF StoreEntity
            <4>4. ASSUME TakeDropped PROVE FALSE
                BY <2>2, <4>4 DEF TakeDropped
            <4>5. DropEntity
                BY <4>1, <4>2, <4>3, <4>4, SlotFrame
            <4> QED
                BY <1>c, <2>2, <4>5 DEF DropEntity
        <3>2. UNCHANGED setVars /\ phase = "drop"
            BY <3>1 DEF DropEntity
        <3> QED
            BY <3>1, <3>2 DEF GoneLists, KeysOf, setVars, Releasing
    <2> QED
        BY <2>1, <2>2
<1>2. ASSUME phase' \in Releasing
      PROVE  /\ subscribers'[Observers(subject')].tag = "absent"
             /\ subscribers'[EventListeners(subject')].tag = "absent"
    <2>1. CASE ReleaseObservers
        <3>1. PICK e \in batch : subject' = e /\ Set!RemoveUnused({Observers(e), EventListeners(e)})
            BY <2>1 DEF ReleaseObservers
        <3>2. e \in Entities
            BY DEF Shape, SubjectType
        <3> QED
            BY <3>1, <3>2, KeyTypes DEF Set!RemoveUnused, Set!Absent
    <2>2. CASE TakeDropped
        BY <1>2, <2>2 DEF TakeDropped, Releasing
    <2>3. CASE phase \in Releasing /\ subject' = subject
        <3>1. slot[subject] = "releasing" /\ phase # "retain"
            BY <2>3 DEF Counts, Batch, Releasing
        <3>2. Observers(subject) \in KeysOf(subject) /\ EventListeners(subject) \in KeysOf(subject)
            BY DEF KeysOf
        <3>3. /\ subscribers[Observers(subject)].tag = "absent"
              /\ subscribers[EventListeners(subject)].tag = "absent"
            BY <2>3 DEF GoneLists
        <3> QED
            BY <1>a, <2>3, <3>1, <3>2, <3>3, ReleasedStaysAbsent
    <2> QED
        BY <1>2, <2>1, <2>2, <2>3, BatchFrame
<1>3. ASSUME phase' \in {"listeners", "drop"}
      PROVE  subscribers'[ReleaseListeners(subject')].tag = "absent"
    <2>1. CASE BeginListeners
        <3>1. subject' = subject /\ subject \in Entities
            BY <2>1, <1>a DEF BeginListeners, Releasing
        <3>2. ReleaseListeners(subject) \in Keys /\ subscribers \in [Keys -> Set!Slots]
            BY <3>1, KeyTypes DEF Shape, Set!TypeOK
        <3> QED
            BY <2>1, <3>1, <3>2 DEF BeginListeners, Set!RemoveBegin, Set!Absent, setVars
    <2>2. CASE phase \in {"listeners", "drop"} /\ subject' = subject
        <3>1. slot[subject] = "releasing" /\ phase # "retain" /\ subject \in Entities
            BY <1>a, <2>2 DEF Counts, Batch, Releasing
        <3>2. ReleaseListeners(subject) \in KeysOf(subject)
            BY DEF KeysOf
        <3>3. subscribers[ReleaseListeners(subject)].tag = "absent"
            BY <2>2 DEF GoneLists
        <3> QED
            BY <2>2, <3>1, <3>2, <3>3, ReleasedStaysAbsent
    <2>3. ASSUME ~BeginListeners PROVE phase \in {"listeners", "drop"} /\ subject' = subject
        <3>1. ~TakeDropped /\ ~ReleaseObservers
            BY <1>3 DEF TakeDropped, ReleaseObservers
        <3>2. phase \in Releasing /\ subject' = subject
            BY <1>3, <3>1, BatchFrame DEF Releasing
        <3>3. ASSUME phase = "unobserved" PROVE FALSE
            <4>1. flushing_effects
                BY <3>3 DEF Shape, Stack
            <4>2. \/ Finish \/ ListenerDone \/ DeferDone \/ CallbackPanics
                  \/ \E keep \in BOOLEAN : CallbackReturns(keep)
                  \/ NextListener \/ ListenersDone \/ DropEntity
                  \/ ReleaseDone \/ ApplyNotify \/ ApplyNotifyGlobalObservers \/ ApplyEmit
                  \/ ApplyActivate \/ ApplyDefer \/ RetainVisit \/ RetainSweeps \/ EnterCallback
                  \/ RetainEnds
                  \/ FlushDone
                BY <1>3, <2>3, <3>1, <3>3, PhaseFrame
            <4> QED
                BY <1>3, <3>3, <4>1, <4>2 DEF Finish, StartsFlush, ListenerDone, DeferDone,
                   CallbackPanics, CallbackReturns, NextListener, ListenersDone, DropEntity,
                   ReleaseDone, ApplyNotify, ApplyNotifyGlobalObservers, ApplyEmit,
                   ApplyActivate, ApplyDefer, PopEffect, RetainVisit, RetainSweeps,
                   EnterCallback, RetainEnds, FlushDone
        <3> QED
            BY <3>2, <3>3 DEF Releasing
    <2> QED
        BY <2>1, <2>2, <2>3
<1>4. ASSUME phase' = "retain"
      PROVE  /\ calls'[1].key[1] # "release_listeners"
             /\ \A e \in Entities :
                   calls'[1].key \in {Observers(e), EventListeners(e)} => slot'[e] # "gone"
    <2>1. ASSUME NEW e \in Entities, slot'[e] = "gone" PROVE slot[e] = "gone"
        <3>1. ~DropEntity /\ ~TakeDropped
            BY <1>4 DEF DropEntity, TakeDropped
        <3>2. CASE \E x \in Entities : UpdateEntity(x) \/ Borrow(x) \/ NewEntity(x)
            BY <1>c, <2>1, <3>2 DEF UpdateEntity, Borrow, NewEntity
        <3>3. CASE Finish \/ BodyPanics
            <4>1. slot' = slot \/ StoreEntity(Txn)
                BY <3>3 DEF Finish, BodyPanics, UnwindSlot
            <4> QED
                BY <1>c, <2>1, <4>1 DEF StoreEntity
        <3> QED
            BY <2>1, <3>1, <3>2, <3>3, SlotFrame
    <2>2. CASE phase = "retain"
        <3>1. calls'[1].key = calls[1].key
            BY <1>4, <2>2, RetainGoesOn
        <3> QED
            BY <2>1, <2>2, <3>1 DEF GoneLists
    <2>3. CASE phase # "retain"
        <3>1. PICK k \in Keys :
                  /\ Notifies(k) /\ subscribers[k].tag = "some"
                  /\ calls'[1] = [op |-> "retain", key |-> k, todo |-> subscribers[k].ids,
                                  kept |-> {}, at |-> Set!NoId]
            BY <1>4, <2>3, RetainStarts
        <3>2. calls'[1].key = k /\ k[1] # "release_listeners"
            BY <3>1 DEF Notifies, Observers, GlobalObservers, EventListeners
        <3>3. ASSUME NEW e \in Entities, k \in {Observers(e), EventListeners(e)}, slot'[e] = "gone"
              PROVE  FALSE
            BY <2>1, <3>1, <3>3 DEF GoneLists, ReleasedHasNoSubscribers
        <3> QED
            BY <3>2, <3>3
    <2> QED
        BY <2>2, <2>3
<1> QED
    BY <1>1, <1>2, <1>3, <1>4 DEF GoneLists

LEMMA GoneListsHold == Spec => []GoneLists
<1>1. Init => GoneLists
    BY DEF Init, GoneLists, ReleasedHasNoSubscribers, Releasing
<1>2. Shape /\ Shape' /\ Counts /\ GoneLists /\ [Next]_vars => GoneLists'
    <2>1. ASSUME Shape, Shape', Counts, GoneLists, Next PROVE GoneLists'
        BY <2>1, GoneListsStep
    <2>2. ASSUME GoneLists, UNCHANGED vars PROVE GoneLists'
        BY <2>2 DEF GoneLists, ReleasedHasNoSubscribers, vars, setVars, flushVars, entityVars
    <2> QED
        BY <2>1, <2>2
<1>3. Spec => [][Next]_vars /\ Init
    BY PTL DEF Spec
<1> QED
    BY <1>1, <1>2, <1>3, ShapeHolds, CountsHold, PTL

\* An entity that is gone has no observer, event listener or release listener left, although
\* user code subscribes while its lists are taken down one by one: whoever subscribes holds
\* the entity, and nobody holds one that is being released.
THEOREM ReleasedAlwaysUnobserved == Spec => []ReleasedHasNoSubscribers
BY GoneListsHold, PTL DEF GoneLists
-----------------------------------------------------------------------------
Known == 0 .. next_subscriber_id - 1

\* Where subscribers are, as SubscriberSet has it: under their own key, in the map or in the
\* call in progress, and only those that were inserted.
Places ==
    /\ \A k \in Keys : /\ subscribers[k].tag # "some" => subscribers[k].ids = {}
                       /\ \A id \in subscribers[k].ids : id \in Known /\ Set!KeyOf(id) = k
    /\ phase = "retain" => \A id \in calls[1].todo : id \in Known /\ Set!KeyOf(id) = calls[1].key
    /\ Set!NoSubscriberLost

LEMMA PlacesAlways == Spec => []Places
<1>1. MaxSubscribers \in Nat /\ 2 \in Nat
    BY CycleAssumption
<1>2. Set!Spec => Lists!Spec
    <2>1. [Set!Next]_(Set!setVars) => [Lists!Next]_(Lists!setVars)
        BY SameLists DEF Set!setVars, Lists!setVars
    <2>2. Set!Init => Lists!Init
        BY SameLists
    <2> QED
        BY <2>1, <2>2, PTL DEF Set!Spec, Lists!Spec
<1>3. Lists!Spec => []Lists!PlacesInv
    BY <1>1, Lists!PlacesHold
<1>4. Lists!PlacesInv /\ Shape /\ Set!NoSubscriberLost => Places
    <2> SUFFICES ASSUME Lists!PlacesInv, Shape, Set!NoSubscriberLost PROVE Places
        OBVIOUS
    <2>1. \A k \in Keys : /\ subscribers[k].tag # "some" => subscribers[k].ids = {}
                          /\ \A id \in subscribers[k].ids : id \in Known /\ Set!KeyOf(id) = k
        BY DEF Lists!PlacesInv, Lists!KnownIds, Lists!StoredUnderKey, Lists!KeyOf, Set!KeyOf,
           Known
    <2>2. ASSUME phase = "retain", NEW id \in calls[1].todo
          PROVE  id \in Known /\ Set!KeyOf(id) = calls[1].key
        <3>1. Len(calls) = 1 /\ calls[1].op = "retain"
            BY <2>2 DEF Shape, CallsShape
        <3>2. 1 \in 1 .. Lists!Depth /\ id \in Lists!Pending(1)
            BY <2>2, <3>1 DEF Lists!Depth, Lists!Pending
        <3> QED
            BY <3>1, <3>2 DEF Lists!PlacesInv, Lists!CallsUnderKey, Lists!KeyOf, Set!KeyOf,
               Known
    <2> QED
        BY <2>1, <2>2 DEF Places
<1> QED
    BY <1>2, <1>3, <1>4, ShapeHolds, ListsUsedAsSpecified, PTL

\* Which steps make subscribers known or active.
LEMMA IdsFrame ==
    ASSUME Next
    PROVE  \/ UNCHANGED <<next_subscriber_id, emitter_key, active>>
           \/ ApplyActivate
           \/ \E k : /\ Set!Insert(k) /\ Push(Effect("Activate", next_subscriber_id))
                     /\ UNCHANGED <<phase, age>> /\ Pushes
           \/ \E e \in Entities : ObserveRelease(e)
<1>1. UNCHANGED setVars => UNCHANGED <<next_subscriber_id, emitter_key, active>>
    BY DEF setVars
<1>2. ASSUME \/ \E e \in Entities : Notify(e) \/ Emit(e) \/ AcquireHandle(e) \/ UpdateEntity(e)
                    \/ Borrow(e) \/ NewEntity(e) \/ DropHandle(e)
             \/ \E g \in Globals : SetGlobal(g) \/ RemoveGlobal(g)
             \/ Defer \/ Update \/ Finish \/ BodyPanics \/ DeferDone \/ TakeDropped \/ DropEntity
             \/ ReleaseDone \/ ApplyDefer \/ FlushDone
      PROVE  UNCHANGED setVars
    BY <1>2 DEF Notify, Emit, AcquireHandle, UpdateEntity, Borrow, NewEntity, DropHandle,
       SetGlobal, RemoveGlobal, Defer, Update, Begin, Finish, BodyPanics, DeferDone,
       TakeDropped, DropEntity, ReleaseDone, ApplyDefer, FlushDone
<1>3. ASSUME \/ ListenerDone \/ CallbackPanics \/ \E keep \in BOOLEAN : CallbackReturns(keep)
             \/ NextListener \/ ListenersDone \/ RetainVisit \/ RetainSweeps \/ EnterCallback
             \/ \E s \in subscriptions : DropSubscription(s)
             \/ ReleaseObservers \/ BeginListeners \/ RetainEnds
      PROVE  UNCHANGED <<next_subscriber_id, emitter_key, active>>
    BY <1>1, <1>3 DEF ListenerDone, Set!RemoveReturn, CallbackPanics, Set!RetainPanic,
       CallbackReturns, Set!RetainReturn, NextListener, Set!RemoveVisit, ListenersDone,
       Set!RemoveEnd, RetainVisit, RetainSweeps, Set!RetainVisit, Set!RetainSweep,
       EnterCallback, DropSubscription, Set!DropSubscription, ReleaseObservers,
       Set!RemoveUnused, BeginListeners, Set!RemoveBegin, RetainEnds, Set!RetainEnd, Set!Swept,
       Set!StoreAgain
<1>4. ASSUME ApplyNotify \/ ApplyNotifyGlobalObservers \/ ApplyEmit
      PROVE  UNCHANGED <<next_subscriber_id, emitter_key, active>>
    BY <1>1, <1>4 DEF ApplyNotify, ApplyNotifyGlobalObservers, ApplyEmit, Dispatch,
       Set!RetainBegin
<1>5. ASSUME \/ \E e \in Entities : Observe(e) \/ Subscribe(e)
             \/ \E g \in Globals : ObserveGlobal(g)
      PROVE  \E k : /\ Set!Insert(k) /\ Push(Effect("Activate", next_subscriber_id))
                    /\ UNCHANGED <<phase, age>> /\ Pushes
    BY <1>5 DEF Observe, Subscribe, ObserveGlobal, SubscribeTo, flushVars, Pushes
<1> QED
    BY <1>1, <1>2, <1>3, <1>4, <1>5 DEF Next, UserStep, ReturnStep, FlushStep

\* The key of a subscriber never changes.
LEMMA KeysStay ==
    ASSUME Set!TypeOK, Next
    PROVE  /\ next_subscriber_id \in Nat /\ next_subscriber_id' \in Nat
           /\ next_subscriber_id <= next_subscriber_id'
           /\ \A id \in Known : Set!KeyOf(id)' = Set!KeyOf(id)
<1>0. /\ next_subscriber_id \in Nat /\ emitter_key \in Seq(Keys)
      /\ Len(emitter_key) = next_subscriber_id
    BY CycleAssumption DEF Set!TypeOK
<1>1. CASE UNCHANGED <<next_subscriber_id, emitter_key>>
    BY <1>0, <1>1 DEF Set!KeyOf
<1>2. ASSUME NEW k, emitter_key' = Append(emitter_key, k),
             next_subscriber_id' = next_subscriber_id + 1
      PROVE  /\ next_subscriber_id' \in Nat /\ next_subscriber_id <= next_subscriber_id'
             /\ \A id \in Known : Set!KeyOf(id)' = Set!KeyOf(id)
    <2>1. \A i \in 1 .. Len(emitter_key) : emitter_key'[i] = emitter_key[i]
        BY <1>0, <1>2
    <2>2. \A id \in Known : id + 1 \in 1 .. Len(emitter_key)
        BY <1>0 DEF Known
    <2> QED
        BY <1>0, <1>2, <2>1, <2>2 DEF Set!KeyOf
<1>3. CASE ApplyActivate
    BY <1>1, <1>3 DEF ApplyActivate, Set!Activate
<1>4. CASE \E k : Set!Insert(k)
    BY <1>0, <1>2, <1>4 DEF Set!Insert
<1>5. CASE \E e \in Entities : ObserveRelease(e)
    BY <1>0, <1>2, <1>5 DEF ObserveRelease, Set!InsertActive
<1> QED
    BY <1>0, <1>1, <1>3, <1>4, <1>5, IdsFrame

\* An activation stands in the queue before every effect its subscriber may see.
Ages ==
    /\ active \subseteq 0 .. next_subscriber_id - 1
    /\ \A i \in 1 .. Len(pending_effects) :
          pending_effects[i].kind = "Activate" => pending_effects[i].of < next_subscriber_id
    /\ \A i, j \in 1 .. Len(pending_effects) :
          pending_effects[i].kind = "Activate" /\ i < j => pending_effects[i].of < pending_effects[j].born
    /\ \A id \in active : \A j \in 1 .. Len(pending_effects) :
          Set!KeyOf(id)[1] # "release_listeners" => id < pending_effects[j].born
    /\ phase = "retain" => /\ \A id \in calls[1].todo \cap active : id < age
                           /\ calls[1].at # Set!NoId => calls[1].at < age

LEMMA AgeFrame == Next => UNCHANGED age \/ Pops
BY DEF Next, UserStep, ReturnStep, FlushStep, Notify, Emit, Observe, Subscribe, ObserveRelease,
   AcquireHandle, UpdateEntity, Borrow, NewEntity, SetGlobal, RemoveGlobal, ObserveGlobal,
   DropSubscription, Defer, Update, Begin, Finish, BodyPanics, ListenerDone, DeferDone,
   CallbackPanics, CallbackReturns, TakeDropped, ReleaseObservers, BeginListeners, NextListener,
   ListenersDone, DropEntity, ReleaseDone, RetainVisit, RetainSweeps, EnterCallback, RetainEnds,
   FlushDone, DropHandle, SubscribeTo, flushVars, Pops

\* What a step does to the queue, seen from its positions.
LEMMA QueueMoves ==
    ASSUME Shape, Next
    PROVE  /\ Len(pending_effects) \in Nat
           /\ \/ pending_effects' = pending_effects
              \/ \E effect \in Sent :
                    /\ Pushes /\ effect.born = next_subscriber_id
                    /\ effect.kind = "Activate" =>
                          /\ effect.of = next_subscriber_id
                          /\ next_subscriber_id' = next_subscriber_id + 1
                    /\ Len(pending_effects') = Len(pending_effects) + 1
                    /\ pending_effects'[Len(pending_effects) + 1] = effect
                    /\ \A i \in 1 .. Len(pending_effects) : pending_effects'[i] = pending_effects[i]
              \/ /\ Pops /\ Len(pending_effects) >= 1
                 /\ Len(pending_effects') = Len(pending_effects) - 1
                 /\ Head(pending_effects) = pending_effects[1]
                 /\ \A i \in 1 .. Len(pending_effects') :
                       pending_effects'[i] = pending_effects[i + 1]
<1>0. QueueType /\ Stack /\ KindsFit /\ Len(pending_effects) \in Nat
    BY DEF Shape, QueueType
<1>1. CASE pending_effects' = pending_effects
    BY <1>0, <1>1
<1>2. ASSUME Pushes, NEW effect \in Sent, pending_effects' = Append(pending_effects, effect)
      PROVE  /\ effect.born = next_subscriber_id
             /\ effect.kind = "Activate" => /\ effect.of = next_subscriber_id
                                            /\ next_subscriber_id' = next_subscriber_id + 1
    <2>1. effect.born = next_subscriber_id
          /\ (effect.kind = "Activate" => effect.of = next_subscriber_id)
        BY DEF Sent
    <2> QED
        BY <1>0, <1>2, <2>1, ActivatePushed
<1>3. CASE Pushes
    <2>1. \/ pending_effects' = pending_effects
          \/ \E effect \in Sent : pending_effects' = Append(pending_effects, effect)
        BY <1>0, <1>3, PushStep
    <2>2. ASSUME NEW effect \in Sent, pending_effects' = Append(pending_effects, effect)
          PROVE  /\ Len(pending_effects') = Len(pending_effects) + 1
                 /\ pending_effects'[Len(pending_effects) + 1] = effect
                 /\ \A i \in 1 .. Len(pending_effects) : pending_effects'[i] = pending_effects[i]
        BY <1>0, <2>2, QueueAppends
    <2> QED
        BY <1>0, <1>2, <1>3, <2>1, <2>2
<1>4. CASE Pops
    <2>1. pending_effects # <<>> /\ pending_effects' = Tail(pending_effects)
        BY <1>4, PopStep
    <2> QED
        BY <1>0, <1>4, <2>1, QueuePops
<1> QED
    BY <1>1, <1>3, <1>4, QueueFrame

LEMMA AgesStep ==
    ASSUME Shape, Shape', Places, GoneLists, Ages, Next PROVE Ages'
<1> DEFINE n == next_subscriber_id
<1>0. /\ n \in Nat /\ n' \in Nat /\ n <= n' /\ active \subseteq Known
      /\ \A id \in Known : Set!KeyOf(id)' = Set!KeyOf(id)
    BY KeysStay DEF Shape, Ages, Known
<1>a. \A i \in 1 .. Len(pending_effects) :
          /\ pending_effects[i].born \in Nat
          /\ pending_effects[i].kind = "Activate" => pending_effects[i].of \in Int
    BY DEF Shape, QueueType, Effects
<1>b. \/ active' = active
      \/ /\ ApplyActivate /\ Pops /\ Head(pending_effects).kind = "Activate"
         /\ active' = active \cup {Head(pending_effects).of} /\ Head(pending_effects).of \in Known
      \/ /\ \E e \in Entities : ObserveRelease(e)
         /\ active' = active \cup {n} /\ n' = n + 1
         /\ emitter_key'[n + 1][1] = "release_listeners"
    <2>1. CASE ApplyActivate
        BY <2>1 DEF ApplyActivate, Set!Activate, PopEffect, Pops, Popped, Known
    <2>2. CASE \E e \in Entities : ObserveRelease(e)
        <3>1. PICK e \in Entities : ObserveRelease(e)
            BY <2>2
        <3>2. /\ active' = active \cup {n} /\ n' = n + 1
              /\ emitter_key' = Append(emitter_key, ReleaseListeners(e))
            BY <3>1 DEF ObserveRelease, Set!InsertActive
        <3>3. emitter_key \in Seq(Keys) /\ Len(emitter_key) = n
            BY DEF Shape, Set!TypeOK
        <3>4. emitter_key'[n + 1] = ReleaseListeners(e)
            BY <3>2, <3>3, KeyTypes
        <3>5. emitter_key'[n + 1][1] = "release_listeners"
            BY <3>4 DEF ReleaseListeners
        <3> QED
            BY <2>2, <3>2, <3>5
    <2>3. CASE \E k : Set!Insert(k)
        BY <2>3 DEF Set!Insert
    <2> QED
        BY <2>1, <2>2, <2>3, IdsFrame
<1>1. (active \subseteq 0 .. next_subscriber_id - 1)'
    <2>0. n \in Nat /\ n' \in Nat /\ n <= n' /\ active \subseteq Known
        BY <1>0
    <2>1. 0 .. n - 1 \subseteq 0 .. n' - 1
        <3>1. \A a, b \in Nat : a <= b => \A i \in 0 .. a - 1 : i \in 0 .. b - 1
            OBVIOUS
        <3> QED
            BY <2>0, <3>1
    <2>2. active \subseteq 0 .. n' - 1 /\ Known \subseteq 0 .. n' - 1
        BY <2>0, <2>1 DEF Known
    <2>3. n' = n + 1 => n \in 0 .. n' - 1
        BY <1>0
    <2> QED
        BY <1>b, <2>2, <2>3
<1>2. ASSUME NEW i \in 1 .. Len(pending_effects'), pending_effects'[i].kind = "Activate"
      PROVE  pending_effects'[i].of < n'
    <2>1. ASSUME NEW j \in 1 .. Len(pending_effects), pending_effects'[i] = pending_effects[j]
          PROVE  pending_effects'[i].of < n'
        <3>1. pending_effects[j].of < n /\ pending_effects[j].of \in Int
            BY <1>2, <2>1, <1>a DEF Ages
        <3> QED
            BY <1>0, <2>1, <3>1
    <2>2. CASE pending_effects' = pending_effects
        BY <2>1, <2>2
    <2>3. ASSUME NEW effect, effect.kind = "Activate" => effect.of = n /\ n' = n + 1,
                 Len(pending_effects) \in Nat,
                 Len(pending_effects') = Len(pending_effects) + 1,
                 pending_effects'[Len(pending_effects) + 1] = effect,
                 \A j \in 1 .. Len(pending_effects) : pending_effects'[j] = pending_effects[j]
          PROVE  pending_effects'[i].of < n'
        <3>1. i \in 1 .. Len(pending_effects) \/ i = Len(pending_effects) + 1
            BY <2>3
        <3>2. CASE i \in 1 .. Len(pending_effects)
            BY <2>1, <2>3, <3>2
        <3>3. CASE i = Len(pending_effects) + 1
            BY <1>0, <1>2, <2>3, <3>3
        <3> QED
            BY <3>1, <3>2, <3>3
    <2>4. CASE /\ Len(pending_effects) \in Nat
               /\ Len(pending_effects') = Len(pending_effects) - 1
               /\ \A j \in 1 .. Len(pending_effects') : pending_effects'[j] = pending_effects[j + 1]
        <3>1. i + 1 \in 1 .. Len(pending_effects)
            BY <2>4
        <3> QED
            BY <2>1, <2>4, <3>1
    <2> QED
        BY <2>2, <2>3, <2>4, QueueMoves
<1>3. ASSUME NEW i \in 1 .. Len(pending_effects'), NEW j \in 1 .. Len(pending_effects'),
             pending_effects'[i].kind = "Activate", i < j
      PROVE  pending_effects'[i].of < pending_effects'[j].born
    <2>1. CASE pending_effects' = pending_effects
        BY <1>3, <2>1 DEF Ages
    <2>2. ASSUME NEW effect, effect.born = n, Len(pending_effects) \in Nat,
                 Len(pending_effects') = Len(pending_effects) + 1,
                 pending_effects'[Len(pending_effects) + 1] = effect,
                 \A x \in 1 .. Len(pending_effects) : pending_effects'[x] = pending_effects[x]
          PROVE  pending_effects'[i].of < pending_effects'[j].born
        <3>1. i \in 1 .. Len(pending_effects)
              /\ (j \in 1 .. Len(pending_effects) \/ j = Len(pending_effects) + 1)
            BY <1>3, <2>2
        <3>2. CASE j \in 1 .. Len(pending_effects)
            BY <1>3, <2>2, <3>1, <3>2 DEF Ages
        <3>3. CASE j = Len(pending_effects) + 1
            BY <1>3, <2>2, <3>1, <3>3 DEF Ages
        <3> QED
            BY <3>1, <3>2, <3>3
    <2>3. CASE /\ Len(pending_effects) \in Nat
               /\ Len(pending_effects') = Len(pending_effects) - 1
               /\ \A x \in 1 .. Len(pending_effects') : pending_effects'[x] = pending_effects[x + 1]
        <3>1. i + 1 \in 1 .. Len(pending_effects) /\ j + 1 \in 1 .. Len(pending_effects)
              /\ i + 1 < j + 1
            BY <1>3, <2>3
        <3> QED
            BY <1>3, <2>3, <3>1 DEF Ages
    <2> QED
        BY <2>1, <2>2, <2>3, QueueMoves
<1>4. ASSUME NEW id \in active', NEW j \in 1 .. Len(pending_effects'),
             Set!KeyOf(id)'[1] # "release_listeners"
      PROVE  id < pending_effects'[j].born
    <2>1. id \in active \/ (id \in Known /\ Pops /\ Head(pending_effects).kind = "Activate"
                              /\ id = Head(pending_effects).of)
        BY <1>4, <1>b DEF Set!KeyOf
    <2>2. id \in Known /\ Set!KeyOf(id)[1] # "release_listeners"
        BY <1>0, <1>4, <2>1
    <2>3. CASE id \in active
        <3>0. \A x \in 1 .. Len(pending_effects) : id < pending_effects[x].born
            BY <2>2, <2>3 DEF Ages
        <3>1. CASE pending_effects' = pending_effects
            BY <3>0, <3>1
        <3>2. ASSUME NEW effect, effect.born = n, Len(pending_effects) \in Nat,
                 Len(pending_effects') = Len(pending_effects) + 1,
                 pending_effects'[Len(pending_effects) + 1] = effect,
                 \A x \in 1 .. Len(pending_effects) : pending_effects'[x] = pending_effects[x]
              PROVE  id < pending_effects'[j].born
            <4>1. j \in 1 .. Len(pending_effects) \/ j = Len(pending_effects) + 1
                BY <3>2
            <4>2. id < n
                BY <1>0, <2>2 DEF Known
            <4> QED
                BY <3>0, <3>2, <4>1, <4>2
        <3>3. CASE /\ Len(pending_effects) \in Nat
                   /\ Len(pending_effects') = Len(pending_effects) - 1
                   /\ \A x \in 1 .. Len(pending_effects') : pending_effects'[x] = pending_effects[x + 1]
            <4>1. j + 1 \in 1 .. Len(pending_effects)
                BY <3>3
            <4> QED
                BY <3>0, <3>3, <4>1
        <3> QED
            BY <3>1, <3>2, <3>3, QueueMoves
    <2>4. CASE /\ Pops /\ Head(pending_effects).kind = "Activate" /\ id = Head(pending_effects).of
        <3>1. pending_effects # <<>> /\ pending_effects' = Tail(pending_effects) /\ QueueType
            BY <2>4, PopStep DEF Shape
        <3>2. /\ Len(pending_effects) \in Nat /\ Len(pending_effects) >= 1
              /\ Len(pending_effects') = Len(pending_effects) - 1
              /\ Head(pending_effects) = pending_effects[1]
              /\ pending_effects'[j] = pending_effects[j + 1]
            BY <3>1, QueuePops
        <3>3. 1 \in 1 .. Len(pending_effects) /\ j + 1 \in 1 .. Len(pending_effects) /\ 1 < j + 1
            BY <3>2
        <3> QED
            BY <2>4, <3>2, <3>3 DEF Ages
    <2> QED
        BY <2>1, <2>3, <2>4
<1>5. ASSUME phase' = "retain"
      PROVE  /\ \A id \in calls'[1].todo \cap active' : id < age'
             /\ calls'[1].at # Set!NoId => calls'[1].at < age'
    <2>1. CASE phase = "retain"
        <3>1. age' = age
            BY <2>1, AgeFrame, PopStep
        <3>2. ~ApplyActivate
            BY <2>1 DEF ApplyActivate, PopEffect
        <3>3. \A id \in calls[1].todo : id \in Known
            BY <2>1 DEF Places
        <3>4. \A id \in calls[1].todo \cap active' : id \in active
            BY <1>0, <1>b, <3>2, <3>3 DEF Known
        <3>5. calls'[1].todo \subseteq calls[1].todo
              /\ (\/ calls'[1].at \in {calls[1].at, Set!NoId}
                  \/ calls'[1].at \in calls[1].todo \cap active)
            BY <1>5, <2>1, RetainGoesOn
        <3> QED
            BY <2>1, <3>1, <3>4, <3>5 DEF Ages
    <2>2. CASE phase # "retain"
        <3>1. PICK k \in Keys :
                  /\ Notifies(k) /\ subscribers[k].tag = "some"
                  /\ calls'[1] = [op |-> "retain", key |-> k, todo |-> subscribers[k].ids,
                                  kept |-> {}, at |-> Set!NoId]
            BY <1>5, <2>2, RetainStarts
        <3>2. calls'[1].todo = subscribers[k].ids /\ calls'[1].at = Set!NoId
              /\ k[1] # "release_listeners" /\ Pops
            BY <3>1 DEF Notifies, Observers, GlobalObservers, EventListeners, Pops
        <3>3. age' = Head(pending_effects).born /\ pending_effects # <<>>
            BY <3>2, PopStep
        <3>4. Head(pending_effects) = pending_effects[1] /\ 1 \in 1 .. Len(pending_effects)
            <4>1. pending_effects \in Seq(Effects)
                BY DEF Shape, QueueType
            <4> QED
                BY <3>3, <4>1
        <3>5. active' = active
            BY <1>b, <3>1, <2>2, <1>5 DEF ObserveRelease, flushVars, ApplyActivate
        <3>6. \A id \in subscribers[k].ids \cap active : id < pending_effects[1].born
            BY <3>2, <3>4 DEF Places, Ages
        <3> QED
            BY <3>2, <3>3, <3>4, <3>5, <3>6
    <2> QED
        BY <2>1, <2>2
<1> QED
    BY <1>1, <1>2, <1>3, <1>4, <1>5 DEF Ages

LEMMA AgesHold == Spec => []Ages
<1>1. Init => Ages
    <2> SUFFICES ASSUME Init PROVE Ages
        OBVIOUS
    <2>0. Len(<<>>) = 0
        OBVIOUS
    <2>1. Len(pending_effects) = 0 /\ active = {} /\ phase = "off"
        BY <2>0 DEF Init, Set!Init
    <2>2. \A i \in 1 .. Len(pending_effects) : FALSE
        BY <2>1
    <2> QED
        BY <2>1, <2>2 DEF Ages
<1>2. Shape /\ Shape' /\ Places /\ GoneLists /\ Ages /\ [Next]_vars => Ages'
    <2>1. ASSUME Shape, Shape', Places, GoneLists, Ages, Next PROVE Ages'
        BY <2>1, AgesStep
    <2>2. ASSUME Ages, UNCHANGED vars PROVE Ages'
        BY <2>2 DEF Ages, Set!KeyOf, vars, setVars, flushVars, queueVars
    <2> QED
        BY <2>1, <2>2
<1>3. Spec => [][Next]_vars /\ Init
    BY PTL DEF Spec
<1> QED
    BY <1>1, <1>2, <1>3, ShapeHolds, PlacesAlways, GoneListsHold, PTL

\* No subscriber is called for an effect that was queued before it subscribed: its activation
\* stands in the queue behind that effect, and effects are applied in order.
THEOREM NeverRetroactive == Spec => []NoRetroactiveDelivery
<1>1. Shape /\ Ages => NoRetroactiveDelivery
    <2> SUFFICES ASSUME Shape, Ages, phase = "retain", Set!Top.at # Set!NoId
                 PROVE  Set!Top.at < age
        BY DEF NoRetroactiveDelivery
    <2>1. Set!Top = calls[1]
        BY OneCall DEF Shape, CallsShape
    <2> QED
        BY <2>1 DEF Ages
<1> QED
    BY <1>1, AgesHold, ShapeHolds, PTL
-----------------------------------------------------------------------------
NotifiedKey(effect) ==
    IF effect.kind = "Notify" THEN Observers(effect.of) ELSE GlobalObservers(effect.of)

\* What is owed to a live observer is queued, or its call is still to come.
Deliverable ==
    /\ owed \subseteq active
    /\ \A id \in owed \ (dropped \cup finished) :
          \/ \E i \in 1 .. Len(pending_effects) :
                /\ pending_effects[i].kind \in Notifying
                /\ NotifiedKey(pending_effects[i]) = Set!KeyOf(id)
          \/ phase = "retain" /\ calls[1].key = Set!KeyOf(id) /\ id \in calls[1].todo

\* A subscriber stays active, dropped or finished.
LEMMA HistoryGrows ==
    ASSUME Set!Next \/ UNCHANGED Set!setVars
    PROVE  active \subseteq active' /\ dropped \subseteq dropped' /\ finished \subseteq finished'
BY DEF Set!Next, Set!setVars, Set!Insert, Set!InsertActive, Set!RetainBegin, Set!RemoveBegin,
   Set!RemoveUnused, Set!Activate, Set!DropSubscription, Set!Detach, Set!Join, Set!RetainReturn,
   Set!RetainVisit, Set!RetainPanic, Set!RetainSweep, Set!RetainEnd, Set!Swept, Set!StoreAgain,
   Set!RemoveVisit, Set!RemoveReturn, Set!RemoveEnd

\* Only a notification that is queued, or already is, is owed to more observers.
LEMMA OwedFrame ==
    ASSUME Stack, KindsFit, Next
    PROVE  \/ owed' \subseteq owed
           \/ \E e \in Entities : PushNotify(e)
           \/ \E g \in Globals : PushNotifyGlobal(g)
<1>1. CASE Finish \/ BodyPanics
    <2>0. InBody
        BY <1>1 DEF Finish, BodyPanics
    <2>1. Level \in Nat /\ Level > 0
        BY <2>0, BodyLevel
    <2>2. Txn.kind \in Kinds /\ (Txn.kind # "update" => Txn.entity \in Entities)
        BY <2>1, CycleAssumption DEF KindsFit, Txn
    <2>3. (Txn.kind = "borrow" /\ PushNotify(Txn.entity)) \/ owed' = owed
        BY <1>1, <2>2 DEF Finish, BodyPanics, BodyEffects, queueVars, Push, Kinds
    <2> QED
        BY <2>2, <2>3
<1>2. CASE \/ \E e \in Entities : Notify(e)
           \/ \E g \in Globals : SetGlobal(g) \/ RemoveGlobal(g)
    BY <1>2 DEF Notify, SetGlobal, RemoveGlobal
<1>3. ASSUME \/ \E e \in Entities : Emit(e) \/ Observe(e) \/ Subscribe(e) \/ ObserveRelease(e)
                    \/ AcquireHandle(e) \/ UpdateEntity(e) \/ Borrow(e) \/ NewEntity(e)
                    \/ DropHandle(e)
             \/ \E g \in Globals : ObserveGlobal(g)
             \/ \E s \in subscriptions : DropSubscription(s)
             \/ Defer \/ Update
      PROVE  owed' = owed
    BY <1>3 DEF Emit, Observe, Subscribe, ObserveRelease, AcquireHandle, UpdateEntity, Borrow,
       NewEntity, DropHandle, ObserveGlobal, DropSubscription, Defer, Update, Begin,
       SubscribeTo, Push, queueVars
<1>4. ASSUME \/ ListenerDone \/ DeferDone \/ \E keep \in BOOLEAN : CallbackReturns(keep)
             \/ TakeDropped \/ ReleaseObservers \/ BeginListeners \/ NextListener
             \/ ListenersDone \/ DropEntity \/ ReleaseDone \/ ApplyNotify
             \/ ApplyNotifyGlobalObservers \/ ApplyEmit \/ ApplyActivate \/ ApplyDefer
             \/ EnterCallback \/ RetainSweeps \/ RetainEnds \/ FlushDone
      PROVE  owed' = owed
    BY <1>4 DEF ListenerDone, DeferDone, CallbackReturns, TakeDropped, ReleaseObservers,
       BeginListeners, NextListener, ListenersDone, DropEntity, ReleaseDone, ApplyNotify,
       ApplyNotifyGlobalObservers, ApplyEmit, ApplyActivate, ApplyDefer, Dispatch,
       EnterCallback, RetainSweeps, RetainEnds, FlushDone, queueVars
<1>5. CASE CallbackPanics \/ RetainVisit
    BY <1>5 DEF CallbackPanics, RetainVisit
<1> QED
    BY <1>1, <1>2, <1>3, <1>4, <1>5 DEF Next, UserStep, ReturnStep, FlushStep

Announces(i, k) == pending_effects[i].kind \in Notifying /\ NotifiedKey(pending_effects[i]) = k

\* A notification sent now is in the queue, whether it was there before or not.
LEMMA SentIsQueued ==
    ASSUME QueueType, Marks
    PROVE  /\ \A e \in Entities : PushNotify(e) =>
                 \E i \in 1 .. Len(pending_effects') : Announces(i, Observers(e))'
           /\ \A g \in Globals : PushNotifyGlobal(g) =>
                 \E i \in 1 .. Len(pending_effects') : Announces(i, GlobalObservers(g))'
<1>0. Len(pending_effects) \in Nat
    BY DEF QueueType
<1>1. ASSUME NEW kind \in Notifying, NEW of, pending_effects' = Append(pending_effects, Effect(kind, of))
      PROVE  \E i \in 1 .. Len(pending_effects') : /\ pending_effects'[i].kind = kind
                                                   /\ pending_effects'[i].of = of
    <2>1. /\ Len(pending_effects') = Len(pending_effects) + 1
          /\ pending_effects'[Len(pending_effects) + 1] = Effect(kind, of)
        BY <1>1, QueueAppends
    <2>2. Len(pending_effects) + 1 \in 1 .. Len(pending_effects')
        BY <1>0, <2>1
    <2> QED
        BY <2>1, <2>2 DEF Effect
<1>2. ASSUME NEW e \in Entities, PushNotify(e)
      PROVE  \E i \in 1 .. Len(pending_effects') : /\ pending_effects'[i].kind = "Notify"
                                                   /\ pending_effects'[i].of = e
    BY <1>1, <1>2 DEF PushNotify, Marks, Notifying
<1>3. ASSUME NEW g \in Globals, PushNotifyGlobal(g)
      PROVE  \E i \in 1 .. Len(pending_effects') :
                 /\ pending_effects'[i].kind = "NotifyGlobalObservers"
                 /\ pending_effects'[i].of = g
    BY <1>1, <1>3 DEF PushNotifyGlobal, Marks, Notifying
<1> QED
    BY <1>2, <1>3 DEF Announces, NotifiedKey, Notifying

\* The first effect is taken: a live observer it is owed to is in the call it starts.
LEMMA AnnouncedStarts ==
    ASSUME Shape, Places, Pops, NEW id \in Known \ (dropped \cup finished),
           Announces(1, Set!KeyOf(id)), pending_effects # <<>>
    PROVE  phase' = "retain" /\ calls'[1].key = Set!KeyOf(id) /\ id \in calls'[1].todo
<1>1. Head(pending_effects) = pending_effects[1] /\ phase = "effects" /\ calls = <<>>
    <2>1. pending_effects \in Seq(Effects)
        BY DEF Shape, QueueType
    <2>2. phase = "effects"
        BY PopStep
    <2> QED
        BY <2>1, <2>2 DEF Shape, CallsShape
<1> DEFINE k == Set!KeyOf(id)
<1>2. Dispatch(k)
    <2>1. CASE Head(pending_effects).kind = "Notify"
        BY <1>1, <2>1, PopStep DEF ApplyNotify, Announces, NotifiedKey, Popped
    <2>2. CASE Head(pending_effects).kind = "NotifyGlobalObservers"
        BY <1>1, <2>2, PopStep DEF ApplyNotifyGlobalObservers, Announces, NotifiedKey, Popped
    <2> QED
        BY <1>1, <2>1, <2>2 DEF Announces, Notifying
<1>3. k \in Keys /\ id \in subscribers[k].ids
    <2>1. Set!Held(id)
        BY DEF Places, Set!NoSubscriberLost, Known
    <2>2. Set!Depth = 0
        BY <1>1 DEF Set!Depth
    <2>3. \A i \in 1 .. Set!Depth : FALSE
        BY <2>2
    <2>4. k \in Keys
        <3>1. emitter_key \in Seq(Keys) /\ Len(emitter_key) = next_subscriber_id
              /\ next_subscriber_id \in Nat
            BY CycleAssumption DEF Shape, Set!TypeOK
        <3>2. id + 1 \in 1 .. Len(emitter_key)
            BY <3>1 DEF Known
        <3> QED
            BY <3>1, <3>2 DEF Set!KeyOf
    <2> QED
        BY <2>1, <2>3, <2>4 DEF Set!Held
<1>4. subscribers[k].tag = "some"
    BY <1>3 DEF Places
<1>5. phase' = "retain" /\ calls' = Set!Enter("retain", k, subscribers[k].ids)
    BY <1>2, <1>4 DEF Dispatch, Set!RetainBegin
<1>6. calls'[1] = [op |-> "retain", key |-> k, todo |-> subscribers[k].ids, kept |-> {},
                   at |-> Set!NoId]
    BY <1>1, <1>5, FirstCall
<1> QED
    BY <1>3, <1>5, <1>6

LEMMA DeliverableStep ==
    ASSUME Shape, Shape', Places, Ages, Deliverable, Next PROVE Deliverable'
<1> DEFINE Coming(k) == \E i \in 1 .. Len(pending_effects') :
                           /\ pending_effects'[i].kind \in Notifying
                           /\ NotifiedKey(pending_effects'[i]) = k
           Calling(id, k) == phase' = "retain" /\ calls'[1].key = k /\ id \in calls'[1].todo
<1>0. active \subseteq active' /\ dropped \subseteq dropped' /\ finished \subseteq finished'
    BY ListStep, HistoryGrows DEF Shape
<1>1. \A id \in Known : Set!KeyOf(id)' = Set!KeyOf(id)
    BY KeysStay DEF Shape
<1>2. active \subseteq Known
    BY DEF Ages, Known
<1>3. \/ owed' \subseteq owed
      \/ \E k : /\ Coming(k)
                /\ \A id \in owed' : id \in owed \/ (id \in Known \cap active /\ Set!KeyOf(id) = k)
    <2>1. ASSUME NEW k, Owe(k)
          PROVE  \A id \in owed' : id \in owed \/ (id \in Known \cap active /\ Set!KeyOf(id) = k)
        <3>1. owed' = owed \cup ({id \in Known \ (dropped \cup finished) : Set!KeyOf(id) = k}
                                   \cap active)
            BY <2>1 DEF Owe, Known
        <3> QED
            BY <3>1
    <2>2. ASSUME NEW e \in Entities, PushNotify(e)
          PROVE Coming(Observers(e)) /\ Owe(Observers(e))
        BY <2>2, SentIsQueued DEF PushNotify, Shape, Announces, NotifiedKey, Observers
    <2>3. ASSUME NEW g \in Globals, PushNotifyGlobal(g)
          PROVE  Coming(GlobalObservers(g)) /\ Owe(GlobalObservers(g))
        BY <2>3, SentIsQueued DEF PushNotifyGlobal, Shape, Announces, NotifiedKey,
           GlobalObservers
    <2> HIDE DEF Coming
    <2> QED
        BY <2>1, <2>2, <2>3, OwedFrame DEF Shape
<1>4. owed' \subseteq active'
    BY <1>0, <1>3 DEF Deliverable
<1>5. ASSUME NEW id \in owed, id \in owed', id \notin dropped \cup finished
      PROVE  Coming(Set!KeyOf(id)) \/ Calling(id, Set!KeyOf(id))
    <2>0. id \in Known /\ id \in active
        BY <1>2, <1>5 DEF Deliverable
    <2>1. CASE \E i \in 1 .. Len(pending_effects) :
                /\ pending_effects[i].kind \in Notifying
                /\ NotifiedKey(pending_effects[i]) = Set!KeyOf(id)
        <3>1. PICK i \in 1 .. Len(pending_effects) :
                /\ pending_effects[i].kind \in Notifying
                /\ NotifiedKey(pending_effects[i]) = Set!KeyOf(id)
            BY <2>1
        <3>2. CASE pending_effects' = pending_effects
            BY <3>1, <3>2
        <3>3. CASE /\ Len(pending_effects) \in Nat
                   /\ Len(pending_effects') = Len(pending_effects) + 1
                   /\ \A x \in 1 .. Len(pending_effects) : pending_effects'[x] = pending_effects[x]
            <4>1. i \in 1 .. Len(pending_effects')
                BY <3>3
            <4> QED
                BY <3>1, <3>3, <4>1
        <3>4. CASE /\ Pops /\ Len(pending_effects) \in Nat
                   /\ Len(pending_effects') = Len(pending_effects) - 1
                   /\ \A x \in 1 .. Len(pending_effects') : pending_effects'[x] = pending_effects[x + 1]
            <4>1. CASE i = 1
                <5>1. pending_effects # <<>>
                    BY <3>4, PopStep
                <5>2. Announces(1, Set!KeyOf(id))
                    BY <3>1, <4>1 DEF Announces
                <5> QED
                    BY <1>5, <2>0, <3>4, <5>1, <5>2, AnnouncedStarts
            <4>2. CASE i # 1
                <5>1. i - 1 \in 1 .. Len(pending_effects') /\ (i - 1) + 1 = i
                    BY <3>4, <4>2
                <5>2. pending_effects'[i - 1] = pending_effects[i]
                    BY <3>4, <5>1
                <5> QED
                    BY <3>1, <5>1, <5>2
            <4> QED
                BY <4>1, <4>2
        <3> HIDE DEF Coming, Calling
        <3> QED
            BY <3>2, <3>3, <3>4, QueueMoves
    <2>2. CASE phase = "retain" /\ calls[1].key = Set!KeyOf(id) /\ id \in calls[1].todo
        <3>1. phase' = "retain"
            BY <2>2, RetainLeaves
        <3>2. calls'[1].key = calls[1].key
            BY <2>2, <3>1, RetainGoesOn
        <3>3. id \in calls'[1].todo
            <4>1. CASE calls' = calls \/ calls'[1].todo = calls[1].todo
                BY <2>2, <4>1
            <4>2. CASE CallbackPanics
                <5>1. Set!Top = calls[1]
                    BY <2>2, OneCall DEF Shape, CallsShape
                <5> QED
                    BY <1>5, <2>2, <4>2, <5>1 DEF CallbackPanics
            <4>3. ASSUME RetainVisit, NEW x \in calls[1].todo,
                         calls'[1].todo = calls[1].todo \ {x},
                         calls'[1].at = IF x \in active \ dropped THEN x ELSE Set!NoId
                  PROVE  id \in calls'[1].todo
                <5>1. Len(calls) = 1
                    BY <2>2 DEF Shape, CallsShape
                <5>2. owed' = owed \ {calls'[1].at}
                    BY <4>3, <5>1 DEF RetainVisit
                <5> QED
                    BY <1>5, <2>0, <2>2, <4>3, <5>2
            <4> QED
                BY <2>2, <3>1, <4>1, <4>2, <4>3, RetainGoesOn
        <3> QED
            BY <2>2, <3>1, <3>2, <3>3
    <2> QED
        BY <1>5, <2>1, <2>2 DEF Deliverable
<1>6. ASSUME NEW id \in owed', id \notin dropped' \cup finished'
      PROVE  Coming(Set!KeyOf(id)') \/ Calling(id, Set!KeyOf(id)')
    <2> HIDE DEF Coming, Calling
    <2>1. id \notin dropped \cup finished
        BY <1>0, <1>6
    <2>2. CASE id \in owed
        <3>1. id \in Known
            BY <1>2, <2>2 DEF Deliverable
        <3> QED
            BY <1>1, <1>5, <1>6, <2>1, <2>2, <3>1
    <2>3. CASE id \notin owed
        BY <1>1, <1>3, <1>6, <2>3
    <2> QED
        BY <2>2, <2>3
<1> QED
    BY <1>4, <1>6 DEF Deliverable

LEMMA DeliverableHolds == Spec => []Deliverable
<1>1. Init => Deliverable
    BY DEF Init, Set!Init, Deliverable
<1>2. Shape /\ Shape' /\ Places /\ Ages /\ Deliverable /\ [Next]_vars => Deliverable'
    <2>1. ASSUME Shape, Shape', Places, Ages, Deliverable, Next PROVE Deliverable'
        BY <2>1, DeliverableStep
    <2>2. ASSUME Deliverable, UNCHANGED vars PROVE Deliverable'
        BY <2>2 DEF Deliverable, Set!KeyOf, vars, setVars, flushVars, queueVars
    <2> QED
        BY <2>1, <2>2
<1>3. Spec => [][Next]_vars /\ Init
    BY PTL DEF Spec
<1> QED
    BY <1>1, <1>2, <1>3, ShapeHolds, PlacesAlways, AgesHold, PTL

\* Once the application is idle with nothing queued, every observer that was active when a
\* notification was sent has been called, was dropped or finished, or stood behind an observer
\* that panicked: nested updates, unwinding and observers that come and go lose none.
THEOREM AlwaysDelivered == Spec => []NotificationsDelivered
<1>1. Deliverable => NotificationsDelivered
    <2> SUFFICES ASSUME Deliverable, Idle, pending_effects = <<>>
                 PROVE  owed \subseteq dropped \cup finished
        BY DEF NotificationsDelivered
    <2>0. Len(<<>>) = 0
        OBVIOUS
    <2>1. \A i \in 1 .. Len(pending_effects) : FALSE
        BY <2>0
    <2> QED
        BY <2>1 DEF Deliverable, Idle
<1> QED
    BY <1>1, DeliverableHolds, PTL
===============================================================================

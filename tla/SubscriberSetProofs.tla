------------------------- MODULE SubscriberSetProofs -------------------------
(* Proofs about SubscriberSet, for any keys and any bounds. *)
EXTENDS SubscriberSet, SequenceTheorems, TLAPS

\* The top call of a non-empty stack is one of its elements.
LEMMA TopIsCall ==
    ASSUME calls \in Seq(Calls), calls # <<>>
    PROVE  Depth \in Nat \ {0} /\ Depth \in DOMAIN calls /\ Top \in Calls
BY DEF Depth, Top

\* Entering, updating and leaving a call keep the stack a sequence of calls.
LEMMA StackTyped ==
    ASSUME calls \in Seq(Calls)
    PROVE  /\ \A f \in Calls : Append(calls, f) \in Seq(Calls)
           /\ calls # <<>> => Pop \in Seq(Calls)
           /\ \A todo, kept \in SUBSET Ids, at \in Ids \cup {NoId} :
                 calls # <<>> => Progress(todo, kept, at) \in Seq(Calls)
<1>1. \A f \in Calls : calls # <<>> => [calls EXCEPT ![Depth] = f] \in Seq(Calls)
  BY DEF Depth
<1>2. \A todo, kept \in SUBSET Ids, at \in Ids \cup {NoId} :
          calls # <<>> => [op |-> Top.op, key |-> Top.key, todo |-> todo,
                           kept |-> kept, at |-> at] \in Calls
  BY TopIsCall DEF Calls
<1>3. \A todo, kept \in SUBSET Ids, at \in Ids \cup {NoId} :
          calls # <<>> => Progress(todo, kept, at) \in Seq(Calls)
  BY <1>1, <1>2, Zenon DEF Progress
<1>4. calls # <<>> => Pop \in Seq(Calls)
  BY DEF Depth, Pop
<1>5. \A f \in Calls : Append(calls, f) \in Seq(Calls)
  OBVIOUS
<1> QED BY <1>3, <1>4, <1>5

\* Every step keeps the state well typed, re-entrant calls and panics included.
LEMMA TypeInductive == TypeOK /\ [Next]_setVars => TypeOK'
<1> SUFFICES ASSUME TypeOK, [Next]_setVars PROVE TypeOK'
  OBVIOUS
<1> USE SubscriberBounds DEF TypeOK, Ids, sweepVars
<1>0. /\ \A k \in Keys : subscribers[k].ids \subseteq Ids
      /\ \A ids \in SUBSET Ids : Some(ids) \in Slots
      /\ Absent \in Slots /\ Taken \in Slots
  BY DEF Slots, Some, Absent, Taken
<1>1. ASSUME NEW k \in Keys, Insert(k) PROVE TypeOK'
  <2>1. Some(subscribers[k].ids \cup {next_subscriber_id}) \in Slots
    BY <1>0, <1>1 DEF Insert
  <2>2. emitter_key' \in Seq(Keys) /\ Len(emitter_key') = next_subscriber_id'
    BY <1>1 DEF Insert
  <2>3. subscribers' \in [Keys -> Slots] BY <2>1, <1>1 DEF Insert
  <2>4. next_subscriber_id' \in 0 .. MaxSubscribers BY <1>1 DEF Insert
  <2>5. subscriptions' \in SUBSET SUBSET Ids BY <1>1 DEF Insert
  <2> QED BY <2>2, <2>3, <2>4, <2>5, <1>1 DEF Insert
<1>2. ASSUME NEW k \in Keys, RetainBegin(k) PROVE TypeOK'
  <2>1. [op |-> "retain", key |-> k, todo |-> subscribers[k].ids, kept |-> {},
         at |-> NoId] \in Calls
    BY <1>0 DEF Calls
  <2>2. calls' \in Seq(Calls)
    BY <2>1, <1>2, StackTyped DEF RetainBegin, Enter
  <2> QED BY <2>2, <1>0, <1>2 DEF RetainBegin
<1>3. ASSUME NEW k \in Keys, RemoveBegin(k) PROVE TypeOK'
  <2>1. [op |-> "remove", key |-> k, todo |-> subscribers[k].ids, kept |-> {},
         at |-> NoId] \in Calls
    BY <1>0 DEF Calls
  <2>2. calls' \in Seq(Calls)
    BY <2>1, <1>3, StackTyped DEF RemoveBegin, Enter
  <2> QED BY <2>2, <1>0, <1>3 DEF RemoveBegin
<1>4. ASSUME NEW id \in Ids, Activate(id) PROVE TypeOK'
  BY <1>4 DEF Activate
<1>5. ASSUME NEW s \in subscriptions, DropSubscription(s) PROVE TypeOK'
  <2>1. \A k \in Keys : Without(subscribers[k], {id \in s : KeyOf(id) = k}) \in Slots
    BY <1>0 DEF Without, Slots, Some, Absent
  <2>2. subscribers' \in [Keys -> Slots] BY <2>1, <1>5 DEF DropSubscription
  <2>3. /\ dropped' \in SUBSET Ids /\ late' \in SUBSET Ids
        /\ subscriptions' \in SUBSET SUBSET Ids
    BY <1>5 DEF DropSubscription
  <2> QED BY <2>2, <2>3, <1>5 DEF DropSubscription
<1>6. ASSUME NEW s \in subscriptions, Detach(s) PROVE TypeOK'
  BY <1>6 DEF Detach
<1>7. ASSUME NEW a \in subscriptions, NEW b \in subscriptions, Join(a, b) PROVE TypeOK'
  BY <1>7 DEF Join
<1>8. ASSUME NEW keep \in BOOLEAN, RetainReturn(keep) PROVE TypeOK'
  <2>1. calls # <<>> BY <1>8 DEF RetainReturn, InCallback
  <2>2. Top.at \in Ids BY <2>1, <1>8, TopIsCall DEF RetainReturn, InCallback, Calls
  <2>3. calls' \in Seq(Calls)
    <3>1. Top.todo \in SUBSET Ids /\ Top.kept \in SUBSET Ids
      BY <2>1, TopIsCall DEF Calls
    <3>2. PICK kept \in SUBSET Ids : calls' = Progress(Top.todo, kept, NoId)
      BY <2>2, <3>1, <1>8 DEF RetainReturn
    <3> QED BY <2>1, <3>1, <3>2, StackTyped
  <2>4. finished' \in SUBSET Ids BY <2>2, <1>8 DEF RetainReturn
  <2>5. discarding' \in BOOLEAN BY <1>8 DEF RetainReturn
  <2> QED BY <2>3, <2>4, <2>5, <1>8 DEF RetainReturn
<1>9. ASSUME RetainVisit PROVE TypeOK'
  <2>1. calls # <<>> BY <1>9 DEF RetainVisit, InLoop
  <2>2. Top.todo \subseteq Ids /\ Top.kept \subseteq Ids
    BY <2>1, TopIsCall DEF Calls
  <2>3. PICK id \in Top.todo :
            calls' = Progress(Top.todo \ {id},
                     IF id \in active THEN Top.kept ELSE Top.kept \cup {id},
                     IF id \in active \ dropped THEN id ELSE NoId)
    BY <1>9 DEF RetainVisit
  <2>4. PICK todo, kept \in SUBSET Ids, at \in Ids \cup {NoId} :
            calls' = Progress(todo, kept, at)
    BY <2>2, <2>3
  <2>5. calls' \in Seq(Calls) BY <2>1, <2>4, StackTyped
  <2>6. discarding' \in BOOLEAN BY <1>9 DEF RetainVisit
  <2> QED BY <2>5, <2>6, <1>9 DEF RetainVisit
<1>10. ASSUME RetainPanic PROVE TypeOK'
  <2>1. calls # <<>> BY <1>10 DEF RetainPanic, InCallback
  <2>2. Top.at \in Ids BY <2>1, <1>10, TopIsCall DEF RetainPanic, InCallback, Calls
  <2>3. calls' \in Seq(Calls)
    <3>1. Top \in Calls BY <2>1, TopIsCall
    <3>2. Top.kept \cup {Top.at} \cup Top.todo \in SUBSET Ids BY <2>2, <3>1 DEF Calls
    <3>3. calls' = Progress({}, Top.kept \cup {Top.at} \cup Top.todo, NoId)
      BY <1>10 DEF RetainPanic
    <3> QED BY <2>1, <3>2, <3>3, StackTyped
  <2>4. discarding' \in BOOLEAN BY <1>10 DEF RetainPanic, sweepVars
  <2> QED BY <2>3, <2>4, <1>10 DEF RetainPanic
<1>11. ASSUME RetainEnd PROVE TypeOK'
  <2>1. calls # <<>> BY <1>11 DEF RetainEnd, Swept, InLoop
  <2>2. Top.key \in Keys /\ Top.kept \cup subscribers[Top.key].ids \subseteq Ids
    BY <2>1, <1>0, TopIsCall DEF Calls
  <2>3. calls' \in Seq(Calls) BY <2>1, <1>11, StackTyped DEF RetainEnd, StoreAgain
  <2>4. subscribers' \in [Keys -> Slots]
    BY <2>2, <1>0, <1>11 DEF RetainEnd, StoreAgain
  <2> QED BY <2>3, <2>4, <1>11 DEF RetainEnd, StoreAgain
<1>12. ASSUME RemoveVisit PROVE TypeOK'
  <2>1. calls # <<>> BY <1>12 DEF RemoveVisit, InLoop
  <2>2. Top.todo \subseteq Ids /\ Top.kept \subseteq Ids
    BY <2>1, TopIsCall DEF Calls
  <2>3. PICK id \in Top.todo :
            calls' = Progress(Top.todo \ {id}, {},
                                       IF id \in active THEN id ELSE NoId)
    BY <1>12 DEF RemoveVisit
  <2>4. calls' \in Seq(Calls) BY <2>1, <2>2, <2>3, StackTyped
  <2> QED BY <2>4, <1>12 DEF RemoveVisit
<1>13. ASSUME RemoveReturn PROVE TypeOK'
  <2>1. calls # <<>> BY <1>13 DEF RemoveReturn, InCallback
  <2>3. calls' \in Seq(Calls)
    BY <2>1, <1>13, TopIsCall, StackTyped DEF RemoveReturn, Calls
  <2> QED BY <2>3, <1>13 DEF RemoveReturn
<1>14. ASSUME RemoveEnd PROVE TypeOK'
  <2>1. calls' \in Seq(Calls) BY <1>14, StackTyped DEF RemoveEnd, InLoop
  <2> QED BY <2>1, <1>14 DEF RemoveEnd
<1>15. ASSUME UNCHANGED setVars PROVE TypeOK'
  BY <1>15 DEF setVars
<1>16. ASSUME NEW k \in Keys, InsertActive(k) PROVE TypeOK'
  <2>1. Some(subscribers[k].ids \cup {next_subscriber_id}) \in Slots
    BY <1>0, <1>16 DEF InsertActive
  <2>2. emitter_key' \in Seq(Keys) /\ Len(emitter_key') = next_subscriber_id'
    BY <1>16 DEF InsertActive
  <2>3. subscribers' \in [Keys -> Slots] BY <2>1, <1>16 DEF InsertActive
  <2>4. next_subscriber_id' \in 0 .. MaxSubscribers BY <1>16 DEF InsertActive
  <2>5. subscriptions' \in SUBSET SUBSET Ids BY <1>16 DEF InsertActive
  <2>6. active' \in SUBSET Ids BY <1>16 DEF InsertActive
  <2> QED BY <2>2, <2>3, <2>4, <2>5, <2>6, <1>16 DEF InsertActive
<1>17. ASSUME NEW ks \in SUBSET Keys, RemoveUnused(ks) PROVE TypeOK'
  <2> HIDE DEF Ids
  <2>0. \A k \in ks : subscribers[k].ids \subseteq Ids BY <1>0
  <2>1. finished' \in SUBSET Ids BY <2>0, <1>17 DEF RemoveUnused
  <2>2. subscribers' \in [Keys -> Slots] BY <1>0, <1>17 DEF RemoveUnused
  <2> QED BY <2>1, <2>2, <1>17 DEF RemoveUnused
<1>18. ASSUME RetainSweep PROVE TypeOK'
  <2>1. calls # <<>> BY <1>18 DEF RetainSweep, InLoop
  <2>2. Top.kept \subseteq Ids BY <2>1, TopIsCall DEF Calls
  <2>3. PICK id \in Ids : /\ calls' = Progress({}, Top.kept \ {id}, NoId)
                          /\ passed' = {other \in Top.kept : other < id}
    BY <1>18 DEF RetainSweep
  <2>4. calls' \in Seq(Calls)
    <3>1. {} \in SUBSET Ids /\ Top.kept \ {id} \in SUBSET Ids BY <2>2
    <3> QED BY <2>1, <2>3, <3>1, StackTyped
  <2>5. passed' \in SUBSET Ids BY <2>2, <2>3
  <2> QED BY <2>4, <2>5, <1>18 DEF RetainSweep
<1> QED BY <1>1, <1>2, <1>3, <1>4, <1>5, <1>6, <1>7, <1>8, <1>9, <1>10, <1>11,
           <1>12, <1>13, <1>14, <1>15, <1>16, <1>17, <1>18 DEF Next

\* The subscriber set is well typed in every reachable state.
THEOREM TypeCorrect == Spec => []TypeOK
<1>1. ASSUME Init PROVE TypeOK
  <2>1. subscribers \in [Keys -> Slots] BY <1>1 DEF Init, Absent, Slots
  <2>2. discarding \in BOOLEAN BY <1>1 DEF Init
  <2>3. /\ next_subscriber_id \in 0 .. MaxSubscribers
        /\ emitter_key \in Seq(Keys) /\ Len(emitter_key) = next_subscriber_id
    BY <1>1, SubscriberBounds DEF Init
  <2> QED BY <2>1, <2>2, <2>3, <1>1 DEF Init, TypeOK
<1> QED BY <1>1, TypeInductive, PTL DEF Spec

\* Entering a call leaves the calls below it alone.
LEMMA EnterMoves ==
    ASSUME calls \in Seq(Calls), NEW op, NEW k, NEW ids
    PROVE  /\ Len(Enter(op, k, ids)) = Depth + 1
           /\ \A i \in 1 .. Depth : Enter(op, k, ids)[i] = calls[i]
           /\ Enter(op, k, ids)[Depth + 1] =
                 [op |-> op, key |-> k, todo |-> ids, kept |-> {}, at |-> NoId]
<1>1. ASSUME NEW f
      PROVE  /\ Len(Append(calls, f)) = Depth + 1
             /\ \A i \in 1 .. Depth : Append(calls, f)[i] = calls[i]
             /\ Append(calls, f)[Depth + 1] = f
  BY DEF Depth
<1> QED BY <1>1 DEF Enter

\* Leaving a call leaves the calls below it alone.
LEMMA PopMoves ==
    ASSUME calls \in Seq(Calls), calls # <<>>
    PROVE  Len(Pop) = Depth - 1 /\ \A i \in 1 .. Depth - 1 : Pop[i] = calls[i]
<1>1. /\ Depth \in Nat \ {0} /\ 1 \in Int /\ Depth - 1 \in Int
      /\ \A i \in 1 .. Depth - 1 : calls[i] \in Calls
  BY DEF Depth
<1>2. /\ Len(Pop) = IF 1 <= Depth - 1 THEN (Depth - 1) - 1 + 1 ELSE 0
      /\ \A i \in 1 .. (Depth - 1) - 1 + 1 : Pop[i] = calls[1 + i - 1]
  BY <1>1, SubSeqProperties DEF Pop
<1> QED BY <1>1, <1>2

\* A step of the innermost call leaves the calls below it alone.
LEMMA ProgressMoves ==
    ASSUME calls \in Seq(Calls), calls # <<>>, NEW todo, NEW kept, NEW at
    PROVE  /\ Len(Progress(todo, kept, at)) = Depth
           /\ \A i \in 1 .. Depth - 1 : Progress(todo, kept, at)[i] = calls[i]
           /\ Progress(todo, kept, at)[Depth] =
                 [op |-> Top.op, key |-> Top.key, todo |-> todo,
                  kept |-> kept, at |-> at]
<1>1. ASSUME NEW f
      PROVE  /\ Len([calls EXCEPT ![Depth] = f]) = Depth
             /\ \A i \in 1 .. Depth - 1 : [calls EXCEPT ![Depth] = f][i] = calls[i]
             /\ [calls EXCEPT ![Depth] = f][Depth] = f
  BY DEF Depth
<1> QED BY <1>1 DEF Progress

\* A step to a stored map that never loses an id on the way keeps Held, as long as
\* the calls in progress are unchanged.
LEMMA HeldStays ==
    ASSUME TypeOK, NEW id \in 0 .. next_subscriber_id - 1, Held(id),
           calls' = calls, KeyOf(id)' = KeyOf(id),
           id \in subscribers[KeyOf(id)].ids => id \in subscribers'[KeyOf(id)].ids
    PROVE  Held(id)'
BY DEF Held, Pending, Depth

\* The ids inserted so far have a key of the set, which no later insert changes.
LEMMA KeyTyped ==
    ASSUME TypeOK, NEW id \in 0 .. next_subscriber_id - 1
    PROVE  /\ KeyOf(id) \in Keys
           /\ \A k : Append(emitter_key, k)[id + 1] = KeyOf(id)
           /\ \A k : Append(emitter_key, k)[next_subscriber_id + 1] = k
BY SubscriberBounds DEF TypeOK, KeyOf

\* No subscriber that is neither dropped nor finished is ever lost.  The invariant
\* is inductive once the types are known: each action either leaves the place of a
\* subscriber alone or moves it to another place that counts.
THEOREM NeverLost == Spec => []NoSubscriberLost
<1>1. Init => NoSubscriberLost
  BY DEF Init, NoSubscriberLost
<1>2. TypeOK /\ NoSubscriberLost /\ [Next]_setVars => NoSubscriberLost'
  <2> SUFFICES ASSUME TypeOK, NoSubscriberLost, [Next]_setVars,
                      NEW id \in 0 .. next_subscriber_id' - 1,
                      id \notin dropped', id \notin finished'
               PROVE  Held(id)'
    BY DEF NoSubscriberLost
  <2>0. /\ subscribers \in [Keys -> Slots] /\ calls \in Seq(Calls)
        /\ next_subscriber_id \in Nat /\ Depth \in Nat
    BY SubscriberBounds DEF TypeOK, Depth
  <2>1. ASSUME NEW k \in Keys, Insert(k) \/ InsertActive(k) PROVE Held(id)'
    <3>1. subscribers'[k].ids = subscribers[k].ids \cup {next_subscriber_id}
      BY <2>0, <2>1 DEF Insert, InsertActive, Some
    <3>2. CASE id = next_subscriber_id
      <4>1. KeyOf(id)' = k
        BY <2>1, <3>2, SubscriberBounds DEF Insert, InsertActive, KeyOf, TypeOK
      <4> QED BY <3>1, <3>2, <4>1 DEF Held
    <3>3. CASE id # next_subscriber_id
      <4>1. id \in 0 .. next_subscriber_id - 1
        BY <2>0, <2>1, <3>3 DEF Insert, InsertActive
      <4>2. Held(id)
        BY <4>1, <2>1 DEF NoSubscriberLost, Insert, InsertActive
      <4>3. KeyOf(id)' = KeyOf(id) /\ KeyOf(id) \in Keys
        BY <4>1, <2>1, KeyTyped DEF Insert, InsertActive, KeyOf
      <4>4. subscribers[KeyOf(id)].ids \subseteq subscribers'[KeyOf(id)].ids
        BY <4>3, <3>1, <2>0, <2>1 DEF Insert, InsertActive
      <4>5. calls' = calls BY <2>1 DEF Insert, InsertActive
      <4> QED BY <4>1, <4>2, <4>3, <4>4, <4>5, HeldStays
    <3> QED BY <3>2, <3>3
  <2> DEFINE Old == /\ id \in 0 .. next_subscriber_id - 1
                    /\ Held(id)
                    /\ KeyOf(id)' = KeyOf(id)
                    /\ KeyOf(id) \in Keys
  <2>2. ASSUME UNCHANGED <<next_subscriber_id, emitter_key>>,
               dropped \subseteq dropped', finished \subseteq finished'
        PROVE  Old
    <3>1. id \in 0 .. next_subscriber_id - 1 BY <2>2
    <3> QED BY <3>1, <2>2, KeyTyped DEF NoSubscriberLost, KeyOf
  <2> HIDE DEF Old
  \* The stored maps change and the calls do not.
  <2>3. ASSUME NEW s \in subscriptions, DropSubscription(s) PROVE Held(id)'
    <3>1. Old /\ id \notin s BY <2>2, <2>3 DEF DropSubscription
    <3>2. id \in subscribers[KeyOf(id)].ids => id \in subscribers'[KeyOf(id)].ids
      BY <3>1, <2>0, <2>3 DEF DropSubscription, Without, Some, Absent, Slots, Old
    <3> QED BY <3>1, <3>2, <2>3, HeldStays DEF DropSubscription, Old
  <2>4. ASSUME NEW ks \in SUBSET Keys, RemoveUnused(ks) PROVE Held(id)'
    <3>1. Old BY <2>2, <2>4 DEF RemoveUnused
    <3>2. id \in subscribers[KeyOf(id)].ids => KeyOf(id) \notin ks
      <4> SUFFICES ASSUME KeyOf(id) \in ks, id \in subscribers[KeyOf(id)].ids
                   PROVE FALSE
        OBVIOUS
      <4>1. id \in UNION {subscribers[k].ids : k \in ks} OBVIOUS
      <4> QED BY <4>1, <2>4 DEF RemoveUnused
    <3>3. id \in subscribers[KeyOf(id)].ids => id \in subscribers'[KeyOf(id)].ids
      BY <3>1, <3>2, <2>4 DEF RemoveUnused, Old
    <3> QED BY <3>1, <3>3, <2>4, HeldStays DEF RemoveUnused, Old
  <2>5. ASSUME UNCHANGED <<subscribers, calls, next_subscriber_id, emitter_key>>,
               dropped \subseteq dropped', finished \subseteq finished'
        PROVE Held(id)'
    <3>1. Old BY <2>2, <2>5
    <3> QED BY <3>1, <2>5, HeldStays DEF Old
  \* A call begins.
  <2>6. ASSUME NEW k \in Keys, RetainBegin(k) PROVE Held(id)'
    <3>1. Old BY <2>2, <2>6 DEF RetainBegin
    <3>2. /\ Len(calls') = Depth + 1
          /\ \A i \in 1 .. Depth : calls'[i] = calls[i]
          /\ calls'[Depth + 1] = [op |-> "retain", key |-> k, kept |-> {},
                                  todo |-> subscribers[k].ids, at |-> NoId]
      BY <2>0, <2>6, EnterMoves DEF RetainBegin
    <3>3. CASE id \in subscribers[KeyOf(id)].ids /\ KeyOf(id) = k
      <4>0. PICK d \in Nat : d = Depth + 1 BY <2>0
      <4>1. d \in 1 .. Len(calls') BY <3>2, <2>0, <4>0
      <4>2. id \in Pending(d)' BY <3>2, <3>3, <4>0 DEF Pending
      <4> QED BY <3>1, <3>2, <3>3, <4>0, <4>1, <4>2 DEF Held, Depth, Old
    <3>4. CASE id \in subscribers[KeyOf(id)].ids /\ KeyOf(id) # k
      BY <3>1, <3>4, <2>0, <2>6 DEF RetainBegin, Held, Old
    <3>5. ASSUME NEW i \in 1 .. Depth, calls[i].op = "retain",
                 calls[i].key = KeyOf(id), id \in Pending(i)
          PROVE Held(id)'
      BY <3>1, <3>2, <3>5, <2>0 DEF Held, Pending, Depth, Old
    <3> QED BY <3>1, <3>3, <3>4, <3>5 DEF Held, Old
  <2>7. ASSUME NEW k \in Keys, RemoveBegin(k) PROVE Held(id)'
    <3>1. Old BY <2>2, <2>7 DEF RemoveBegin
    <3>2. /\ Len(calls') = Depth + 1
          /\ \A i \in 1 .. Depth : calls'[i] = calls[i]
          /\ calls'[Depth + 1] = [op |-> "remove", key |-> k, kept |-> {},
                                  todo |-> subscribers[k].ids, at |-> NoId]
      BY <2>0, <2>7, EnterMoves DEF RemoveBegin
    <3>3. CASE id \in subscribers[KeyOf(id)].ids
      <4>1. KeyOf(id) # k BY <3>3, <2>7 DEF RemoveBegin
      <4> QED BY <3>1, <3>3, <4>1, <2>0, <2>7 DEF RemoveBegin, Held, Old
    <3>4. ASSUME NEW i \in 1 .. Depth, calls[i].op = "retain",
                 calls[i].key = KeyOf(id), id \in Pending(i)
          PROVE Held(id)'
      BY <3>1, <3>2, <3>4, <2>0 DEF Held, Pending, Depth, Old
    <3> QED BY <3>1, <3>3, <3>4 DEF Held, Old
  \* The innermost call moves on: every id it held is kept, dropped or finished.
  <2>8. ASSUME UNCHANGED <<subscribers, next_subscriber_id, emitter_key>>,
               dropped \subseteq dropped', finished \subseteq finished',
               calls # <<>>,
               NEW todo, NEW kept, NEW at, calls' = Progress(todo, kept, at),
               Top.op = "retain" /\ id \in Pending(Depth) =>
                   id \in todo \cup kept \cup (IF at = NoId THEN {} ELSE {at})
        PROVE Held(id)'
    <3>1. Old BY <2>2, <2>8
    <3>2. /\ Len(calls') = Depth
          /\ \A i \in 1 .. Depth - 1 : calls'[i] = calls[i]
          /\ calls'[Depth] = [op |-> Top.op, key |-> Top.key, todo |-> todo,
                              kept |-> kept, at |-> at]
      BY <2>0, <2>8, ProgressMoves
    <3>3. CASE id \in subscribers[KeyOf(id)].ids
      BY <3>1, <3>3, <2>8 DEF Held, Old
    <3>4. ASSUME NEW i \in 1 .. Depth, calls[i].op = "retain",
                 calls[i].key = KeyOf(id), id \in Pending(i)
          PROVE Held(id)'
      <4>1. CASE i = Depth
        <5>1. id \in Pending(i)' BY <3>2, <3>4, <4>1, <2>8 DEF Pending, Top
        <5> QED BY <3>1, <3>2, <3>4, <4>1, <5>1 DEF Held, Depth, Old, Top
      <4>2. CASE i # Depth
        BY <3>1, <3>2, <3>4, <4>2, <2>0 DEF Held, Pending, Depth, Old
      <4> QED BY <4>1, <4>2
    <3> QED BY <3>1, <3>3, <3>4 DEF Held, Old
  <2>9. ASSUME RetainVisit PROVE Held(id)'
    <3>1. calls # <<>> /\ Top.at = NoId BY <2>9 DEF RetainVisit, InLoop
    <3>2. PICK at \in Top.todo :
              calls' = Progress(Top.todo \ {at},
                       IF at \in active THEN Top.kept ELSE Top.kept \cup {at},
                       IF at \in active \ dropped THEN at ELSE NoId)
      BY <2>9 DEF RetainVisit
    <3>3. at # NoId
      BY <3>1, <3>2, <2>0, TopIsCall DEF Calls, Ids, NoId
    <3>4. id \notin dropped BY <2>9 DEF RetainVisit
    <3>5. id \in Pending(Depth) =>
              id \in (Top.todo \ {at})
                       \cup (IF at \in active THEN Top.kept ELSE Top.kept \cup {at})
                       \cup (IF (IF at \in active \ dropped THEN at ELSE NoId) = NoId
                             THEN {} ELSE {IF at \in active \ dropped THEN at ELSE NoId})
      BY <3>1, <3>3, <3>4 DEF Pending, Top
    <3> QED BY <2>8, <3>1, <3>2, <3>5, <2>9 DEF RetainVisit
  <2>10. ASSUME NEW keep \in BOOLEAN, RetainReturn(keep) PROVE Held(id)'
    <3>1. calls # <<>> BY <2>10 DEF RetainReturn, InCallback
    <3>2. id \notin dropped /\ id \notin finished /\ (~keep => id # Top.at)
      BY <2>10 DEF RetainReturn
    <3>3. id \in Pending(Depth) =>
              id \in Top.todo \cup (IF keep /\ Top.at \notin dropped
                                    THEN Top.kept \cup {Top.at} ELSE Top.kept)
                       \cup (IF NoId = NoId THEN {} ELSE {NoId})
      BY <3>2 DEF Pending, Top
    <3> QED BY <2>8, <3>1, <3>3, <2>10 DEF RetainReturn
  <2>11. ASSUME RetainPanic PROVE Held(id)'
    <3>1. calls # <<>> BY <2>11 DEF RetainPanic, InCallback
    <3>2. id \in Pending(Depth) =>
              id \in {} \cup (Top.kept \cup {Top.at} \cup Top.todo)
                       \cup (IF NoId = NoId THEN {} ELSE {NoId})
      BY DEF Pending, Top
    <3> QED BY <2>8, <3>1, <3>2, <2>11 DEF RetainPanic
  <2>12. ASSUME RemoveVisit PROVE Held(id)'
    <3>1. calls # <<>> /\ Top.op = "remove" BY <2>12 DEF RemoveVisit, InLoop
    <3>2. PICK at \in Top.todo :
              calls' = Progress(Top.todo \ {at}, {}, IF at \in active THEN at ELSE NoId)
      BY <2>12 DEF RemoveVisit
    <3> QED BY <2>8, <3>1, <3>2, <2>12 DEF RemoveVisit
  <2>13. ASSUME RemoveReturn PROVE Held(id)'
    <3>1. calls # <<>> /\ Top.op = "remove" BY <2>13 DEF RemoveReturn, InCallback
    <3> QED BY <2>8, <3>1, <2>13 DEF RemoveReturn
  <2>16. ASSUME RetainSweep PROVE Held(id)'
    <3>1. calls # <<>> /\ Top.todo = {} /\ Top.at = NoId
      BY <2>16 DEF RetainSweep, InLoop
    <3>2. PICK gone \in Ids : /\ gone \in dropped
                             /\ calls' = Progress({}, Top.kept \ {gone}, NoId)
      BY <2>16 DEF RetainSweep, First
    <3>3. id \notin dropped BY <2>16 DEF RetainSweep
    <3>4. id \in Pending(Depth) =>
              id \in {} \cup (Top.kept \ {gone})
                       \cup (IF NoId = NoId THEN {} ELSE {NoId})
      BY <3>1, <3>2, <3>3 DEF Pending, Top
    <3> QED BY <2>8, <3>1, <3>2, <3>4, <2>16 DEF RetainSweep
  \* The innermost call ends.
  <2>14. ASSUME RetainEnd PROVE Held(id)'
    <3>0. /\ UNCHANGED <<next_subscriber_id, emitter_key, dropped, finished>>
          /\ calls' = Pop
          /\ InLoop("retain") /\ Top.todo = {}
          /\ LET ids == Top.kept \cup subscribers[Top.key].ids
             IN subscribers' = [subscribers EXCEPT
                                   ![Top.key] = IF ids = {} THEN Absent ELSE Some(ids)]
      BY <2>14 DEF RetainEnd, Swept, StoreAgain
    <3>1. Old BY <2>2, <3>0
    <3>2. /\ calls # <<>> /\ Top.at = NoId /\ Top.todo = {}
          /\ Top.key \in Keys
      BY <2>0, <3>0, TopIsCall DEF InLoop, Calls
    <3>3. Len(calls') = Depth - 1 /\ \A i \in 1 .. Depth - 1 : calls'[i] = calls[i]
      BY <2>0, <3>0, <3>2, PopMoves
    <3>4. /\ subscribers'[Top.key].ids = Top.kept \cup subscribers[Top.key].ids
          /\ \A k \in Keys \ {Top.key} : subscribers'[k] = subscribers[k]
      BY <2>0, <3>0, <3>2 DEF Some, Absent
    <3>5. CASE id \in subscribers[KeyOf(id)].ids
      BY <3>1, <3>4, <3>5 DEF Held, Old
    <3>6. ASSUME NEW i \in 1 .. Depth, calls[i].op = "retain",
                 calls[i].key = KeyOf(id), id \in Pending(i)
          PROVE Held(id)'
      <4>1. CASE i = Depth
        <5>1. id \in Top.kept /\ Top.key = KeyOf(id)
          BY <3>2, <3>6, <4>1 DEF Pending, Top
        <5> QED BY <3>1, <3>2, <3>4, <5>1 DEF Held, Old
      <4>2. CASE i # Depth
        BY <3>1, <3>3, <3>6, <4>2, <2>0 DEF Held, Pending, Depth, Old
      <4> QED BY <4>1, <4>2
    <3> QED BY <3>1, <3>5, <3>6 DEF Held, Old
  <2>15. ASSUME RemoveEnd PROVE Held(id)'
    <3>1. Old BY <2>2, <2>15 DEF RemoveEnd
    <3>2. calls # <<>> /\ Top.op = "remove" BY <2>15 DEF RemoveEnd, InLoop
    <3>3. Len(calls') = Depth - 1 /\ \A i \in 1 .. Depth - 1 : calls'[i] = calls[i]
      BY <2>0, <2>15, <3>2, PopMoves DEF RemoveEnd
    <3>4. CASE id \in subscribers[KeyOf(id)].ids
      BY <3>1, <3>4, <2>15 DEF Held, Old, RemoveEnd
    <3>5. ASSUME NEW i \in 1 .. Depth, calls[i].op = "retain",
                 calls[i].key = KeyOf(id), id \in Pending(i)
          PROVE Held(id)'
      <4>1. i \in 1 .. Depth - 1 BY <3>2, <3>5, <2>0 DEF Top
      <4> QED BY <3>1, <3>3, <3>5, <4>1, <2>0 DEF Held, Pending, Depth, Old
    <3> QED BY <3>1, <3>4, <3>5 DEF Held, Old
  <2> QED
    <3>1. CASE UNCHANGED setVars BY <3>1, <2>5 DEF setVars
    <3>2. ASSUME NEW x \in Ids, Activate(x) PROVE Held(id)'
      BY <3>2, <2>5 DEF Activate
    <3>3. ASSUME NEW s \in subscriptions, Detach(s) PROVE Held(id)'
      BY <3>3, <2>5 DEF Detach
    <3>4. ASSUME NEW a \in subscriptions, NEW b \in subscriptions, Join(a, b)
          PROVE Held(id)'
      BY <3>4, <2>5 DEF Join
    <3> QED BY <2>1, <2>3, <2>4, <2>6, <2>7, <2>9, <2>10, <2>11, <2>12, <2>13,
               <2>14, <2>15, <2>16, <3>1, <3>2, <3>3, <3>4 DEF Next
<1> QED BY <1>1, <1>2, TypeCorrect, PTL DEF Spec
-----------------------------------------------------------------------------
\* Where ids may be: only inserted ids are dropped or owned by a subscription, a
\* slot without a map holds none, and a map or a retain call holds ids of its key.
KnownIds ==
    /\ dropped \subseteq 0 .. next_subscriber_id - 1
    /\ \A s \in subscriptions : s \subseteq 0 .. next_subscriber_id - 1
    /\ \A k \in Keys : subscribers[k].tag # "some" => subscribers[k].ids = {}

StoredUnderKey ==
    \A k \in Keys : \A id \in subscribers[k].ids :
        id \in 0 .. next_subscriber_id - 1 /\ KeyOf(id) = k

CallsUnderKey ==
    \A i \in 1 .. Depth : calls[i].op = "retain" =>
        \A id \in Pending(i) :
            id \in 0 .. next_subscriber_id - 1 /\ KeyOf(id) = calls[i].key

\* What the sweep has passed and was dropped since is late.
PassedLate == passed \cap dropped \subseteq late

\* The strengthening under which NoSubscriberTwice and DroppedNotStored are
\* inductive.
PlacesInv == KnownIds /\ StoredUnderKey /\ CallsUnderKey
                /\ NoSubscriberTwice /\ DroppedNotStored /\ PassedLate

\* A step that stores nothing, drops nothing, and leaves at most what they held to
\* the calls in progress keeps the invariant.
LEMMA CallsShrink ==
    ASSUME TypeOK, PlacesInv,
           UNCHANGED <<subscribers, next_subscriber_id, emitter_key, dropped,
                       subscriptions, late>>,
           passed' \cap dropped \subseteq late,
           Len(calls') \in 0 .. Depth,
           \A i \in 1 .. Len(calls') :
               /\ calls'[i].op = calls[i].op /\ calls'[i].key = calls[i].key
               /\ calls[i].op = "retain" => Pending(i)' \subseteq Pending(i)
    PROVE  PlacesInv'
<1>1. Depth' = Len(calls') /\ Depth \in Nat /\ \A i \in 1 .. Depth' : i \in 1 .. Depth
  BY DEF Depth, TypeOK
<1>2. KnownIds' /\ StoredUnderKey' /\ DroppedNotStored' /\ PassedLate'
  BY DEF PlacesInv, KnownIds, StoredUnderKey, DroppedNotStored, PassedLate, KeyOf
<1>3. CallsUnderKey'
  BY <1>1 DEF PlacesInv, CallsUnderKey, KeyOf
<1>4. NoSubscriberTwice'
  BY <1>1 DEF PlacesInv, NoSubscriberTwice, KeyOf
<1> QED BY <1>2, <1>3, <1>4 DEF PlacesInv

\* So does a step of the innermost call that holds no new id afterwards.
LEMMA ProgressShrinks ==
    ASSUME TypeOK, PlacesInv, calls # <<>>,
           UNCHANGED <<subscribers, next_subscriber_id, emitter_key, dropped,
                       subscriptions, late>>,
           passed' \cap dropped \subseteq late,
           NEW todo, NEW kept, NEW at, calls' = Progress(todo, kept, at),
           Top.op = "retain" =>
               todo \cup kept \cup (IF at = NoId THEN {} ELSE {at}) \subseteq Pending(Depth)
    PROVE  PlacesInv'
<1>1. /\ Len(calls') = Depth
      /\ \A i \in 1 .. Depth - 1 : calls'[i] = calls[i]
      /\ calls'[Depth] = [op |-> Top.op, key |-> Top.key, todo |-> todo,
                          kept |-> kept, at |-> at]
  BY ProgressMoves DEF TypeOK
<1>2. Depth \in Nat BY DEF TypeOK, Depth
<1>3. ASSUME NEW i \in 1 .. Depth
      PROVE  /\ calls'[i].op = calls[i].op /\ calls'[i].key = calls[i].key
             /\ calls[i].op = "retain" => Pending(i)' \subseteq Pending(i)
  <2>1. CASE i = Depth
    <3>1. calls'[i].op = calls[i].op /\ calls'[i].key = calls[i].key
      BY <1>1, <2>1 DEF Top
    <3>2. Pending(i)' = todo \cup kept \cup (IF at = NoId THEN {} ELSE {at})
      BY <1>1, <2>1 DEF Pending
    <3> QED BY <3>1, <3>2, <2>1 DEF Top
  <2>2. CASE i # Depth
    <3>1. calls'[i] = calls[i] BY <1>1, <1>2, <2>2
    <3> QED BY <3>1 DEF Pending
  <2> QED BY <2>1, <2>2
<1> QED BY <1>1, <1>2, <1>3, CallsShrink

\* A step on the stored maps alone that only takes ids out of them, the dropped
\* ones included, keeps the invariant.
LEMMA MapsShrink ==
    ASSUME TypeOK, PlacesInv,
           UNCHANGED <<next_subscriber_id, emitter_key, calls, passed>>,
           passed \cap dropped' \subseteq late',
           dropped' \subseteq 0 .. next_subscriber_id - 1,
           \A s \in subscriptions' : s \subseteq 0 .. next_subscriber_id - 1,
           \A k \in Keys : /\ subscribers'[k].ids \subseteq subscribers[k].ids
                           /\ subscribers'[k].ids \cap dropped' \subseteq late'
                           /\ subscribers'[k].tag # "some" => subscribers'[k].ids = {}
    PROVE  PlacesInv'
<1>1. KnownIds' /\ DroppedNotStored' /\ PassedLate'
  BY DEF KnownIds, DroppedNotStored, PassedLate
<1>2. StoredUnderKey'
  BY DEF PlacesInv, StoredUnderKey, KeyOf
<1>3. CallsUnderKey'
  BY DEF PlacesInv, CallsUnderKey, KeyOf, Pending, Depth
<1>4. \A i : Pending(i)' = Pending(i)
  BY DEF Pending
<1>5. Depth' = Depth BY DEF Depth
<1>6. NoSubscriberTwice'
  BY <1>2, <1>4, <1>5 DEF PlacesInv, NoSubscriberTwice, StoredUnderKey
<1> QED BY <1>1, <1>2, <1>3, <1>6 DEF PlacesInv

\* Every step keeps the places of the subscribers apart.
LEMMA PlacesInductive == TypeOK /\ PlacesInv /\ [Next]_setVars => PlacesInv'
<1> SUFFICES ASSUME TypeOK, PlacesInv, [Next]_setVars PROVE PlacesInv'
  OBVIOUS
<1>0. /\ subscribers \in [Keys -> Slots] /\ calls \in Seq(Calls)
      /\ next_subscriber_id \in Nat /\ Depth \in Nat
  BY SubscriberBounds DEF TypeOK, Depth
<1> DEFINE Known == 0 .. next_subscriber_id - 1
<1>1. ASSUME NEW k \in Keys, Insert(k) \/ InsertActive(k) PROVE PlacesInv'
  <2>1. /\ next_subscriber_id' = next_subscriber_id + 1
        /\ emitter_key' = Append(emitter_key, k)
        /\ subscriptions' = subscriptions \cup {{next_subscriber_id}}
        /\ calls' = calls /\ UNCHANGED <<dropped, passed, late>>
        /\ subscribers' = [subscribers EXCEPT
                              ![k] = Some(@.ids \cup {next_subscriber_id})]
    BY <1>1 DEF Insert, InsertActive, sweepVars
  <2>2. /\ subscribers'[k].ids = subscribers[k].ids \cup {next_subscriber_id}
        /\ subscribers'[k].tag = "some"
        /\ \A other \in Keys \ {k} : subscribers'[other] = subscribers[other]
    BY <1>0, <2>1 DEF Some
  <2>3. /\ \A id \in Known : KeyOf(id)' = KeyOf(id) /\ id \in 0 .. next_subscriber_id' - 1
        /\ emitter_key'[next_subscriber_id + 1] = k
        /\ next_subscriber_id \in 0 .. next_subscriber_id' - 1
    <3>1. ASSUME NEW id \in Known
          PROVE  KeyOf(id)' = KeyOf(id) /\ id \in 0 .. next_subscriber_id' - 1
      <4>1. id \in 0 .. next_subscriber_id - 1 OBVIOUS
      <4>2. Append(emitter_key, k)[id + 1] = KeyOf(id) BY <4>1, KeyTyped
      <4> QED BY <1>0, <2>1, <4>1, <4>2 DEF KeyOf
    <3>2. emitter_key'[next_subscriber_id + 1] = k
      BY <2>1 DEF TypeOK
    <3> QED BY <3>1, <3>2, <1>0, <2>1
  <2>4. next_subscriber_id \notin Known BY <1>0
  <2> HIDE DEF Known
  <2>5. /\ dropped \subseteq Known
        /\ \A s \in subscriptions : s \subseteq Known
        /\ \A x \in Keys : \A id \in subscribers[x].ids : id \in Known /\ KeyOf(id) = x
        /\ \A i \in 1 .. Depth : calls[i].op = "retain" =>
               \A id \in Pending(i) : id \in Known /\ KeyOf(id) = calls[i].key
    BY DEF PlacesInv, KnownIds, StoredUnderKey, CallsUnderKey, Known
  <2>6. KnownIds'
    BY <2>1, <2>2, <2>3, <2>5 DEF PlacesInv, KnownIds
  <2>7. StoredUnderKey'
    BY <2>2, <2>3, <2>5 DEF StoredUnderKey, KeyOf
  <2>8. Depth' = Depth /\ \A i : Pending(i)' = Pending(i)
    BY <2>1 DEF Depth, Pending
  <2>9. CallsUnderKey'
    BY <2>1, <2>3, <2>5, <2>8 DEF CallsUnderKey
  <2>10. NoSubscriberTwice'
    <3>1. ASSUME NEW x \in Keys, NEW i \in 1 .. Depth, calls[i].op = "retain"
          PROVE  subscribers'[x].ids \cap Pending(i) = {}
      BY <2>2, <2>4, <2>5, <3>1 DEF PlacesInv, NoSubscriberTwice
    <3> QED BY <2>1, <2>7, <2>8, <3>1
            DEF PlacesInv, NoSubscriberTwice, StoredUnderKey
  <2>11. DroppedNotStored' /\ PassedLate'
    BY <2>1, <2>2, <2>4, <2>5 DEF PlacesInv, DroppedNotStored, PassedLate
  <2> QED BY <2>6, <2>7, <2>9, <2>10, <2>11 DEF PlacesInv
<1> HIDE DEF Known
<1>2. ASSUME NEW s \in subscriptions, DropSubscription(s) PROVE PlacesInv'
  <2>1. ASSUME NEW k \in Keys
        PROVE  /\ subscribers'[k].ids \subseteq subscribers[k].ids
               /\ subscribers'[k].ids \cap s = {}
               /\ subscribers'[k].tag # "some" => subscribers'[k].ids = {}
    <3>1. subscribers'[k] = Without(subscribers[k], {id \in s : KeyOf(id) = k})
      BY <1>2 DEF DropSubscription
    <3>2. \A id \in subscribers[k].ids : KeyOf(id) = k
      BY DEF PlacesInv, StoredUnderKey
    <3>3. subscribers[k].tag # "some" => subscribers[k].ids = {}
      BY DEF PlacesInv, KnownIds
    <3> QED BY <3>1, <3>2, <3>3 DEF Without, Some, Absent
  <2>2. \A k \in Keys : subscribers'[k].ids \cap dropped' \subseteq late'
    BY <2>1, <1>2 DEF DropSubscription, PlacesInv, DroppedNotStored
  <2>4. passed \cap dropped' \subseteq late'
    BY <1>2 DEF DropSubscription, PlacesInv, PassedLate
  <2>3. /\ dropped' \subseteq 0 .. next_subscriber_id - 1
        /\ \A t \in subscriptions' : t \subseteq 0 .. next_subscriber_id - 1
    BY <1>2 DEF DropSubscription, PlacesInv, KnownIds
  <2> QED BY <2>1, <2>2, <2>3, <2>4, <1>2, MapsShrink DEF DropSubscription
<1>3. ASSUME NEW ks \in SUBSET Keys, RemoveUnused(ks) PROVE PlacesInv'
  <2>1. \A k \in Keys : subscribers'[k] = IF k \in ks THEN Absent ELSE subscribers[k]
    BY <1>3 DEF RemoveUnused
  <2>2. \A k \in Keys :
            /\ subscribers'[k].ids \subseteq subscribers[k].ids
            /\ subscribers'[k].ids \cap dropped' \subseteq late'
            /\ subscribers'[k].tag # "some" => subscribers'[k].ids = {}
    BY <2>1, <1>3 DEF RemoveUnused, PlacesInv, KnownIds, DroppedNotStored, Absent, sweepVars
  <2>3. /\ dropped' \subseteq 0 .. next_subscriber_id - 1
        /\ \A t \in subscriptions' : t \subseteq 0 .. next_subscriber_id - 1
    BY <1>3 DEF RemoveUnused, PlacesInv, KnownIds
  <2>4. UNCHANGED <<passed, late>> /\ passed \cap dropped' \subseteq late'
    BY <1>3 DEF RemoveUnused, PlacesInv, PassedLate, sweepVars
  <2> QED BY <2>2, <2>3, <2>4, <1>3, MapsShrink DEF RemoveUnused
<1>4. ASSUME UNCHANGED <<subscribers, next_subscriber_id, emitter_key, calls, dropped,
                         sweepVars>>,
             \A t \in subscriptions' : t \subseteq 0 .. next_subscriber_id - 1
      PROVE  PlacesInv'
  <2>1. \A k \in Keys :
            /\ subscribers'[k].ids \subseteq subscribers[k].ids
            /\ subscribers'[k].ids \cap dropped' \subseteq late'
            /\ subscribers'[k].tag # "some" => subscribers'[k].ids = {}
    BY <1>4 DEF PlacesInv, KnownIds, DroppedNotStored, sweepVars
  <2>2. dropped' \subseteq 0 .. next_subscriber_id - 1
    BY <1>4 DEF PlacesInv, KnownIds
  <2>3. passed' = passed /\ passed \cap dropped' \subseteq late'
    BY <1>4 DEF PlacesInv, PassedLate, sweepVars
  <2> QED BY <2>1, <2>2, <2>3, <1>4, MapsShrink
<1>5. ASSUME NEW k \in Keys, NEW op \in {"retain", "remove"},
             calls' = Enter(op, k, subscribers[k].ids),
             UNCHANGED <<next_subscriber_id, emitter_key, dropped, subscriptions,
                         sweepVars>>,
             NEW slot, slot.ids = {}, subscribers' = [subscribers EXCEPT ![k] = slot]
      PROVE  PlacesInv'
  <2>1. /\ Len(calls') = Depth + 1
        /\ \A i \in 1 .. Depth : calls'[i] = calls[i]
        /\ calls'[Depth + 1] = [op |-> op, key |-> k, kept |-> {},
                                todo |-> subscribers[k].ids, at |-> NoId]
    BY <1>0, <1>5, EnterMoves
  <2>2. /\ subscribers'[k].ids = {}
        /\ \A other \in Keys \ {k} : subscribers'[other] = subscribers[other]
    BY <1>0, <1>5
  <2>3. PICK d \in Nat : d = Depth + 1 BY <1>0
  <2>4. /\ Depth' = d
        /\ Pending(d)' = subscribers[k].ids
        /\ \A i \in 1 .. Depth : Pending(i)' = Pending(i)
        /\ \A i \in 1 .. d : i \in 1 .. Depth \/ i = d
    BY <2>1, <2>3, <1>0 DEF Depth, Pending
  <2>5. KnownIds' /\ StoredUnderKey' /\ DroppedNotStored' /\ PassedLate'
    BY <2>2, <1>5 DEF PlacesInv, KnownIds, StoredUnderKey, DroppedNotStored, PassedLate,
                      KeyOf, sweepVars
  <2>6. CallsUnderKey'
    <3> SUFFICES ASSUME NEW i \in 1 .. d, calls'[i].op = "retain",
                        NEW id \in Pending(i)'
                 PROVE  /\ id \in 0 .. next_subscriber_id' - 1
                        /\ KeyOf(id)' = calls'[i].key
      BY <2>4 DEF CallsUnderKey
    <3>1. CASE i = d
      BY <3>1, <2>1, <2>3, <2>4, <1>5 DEF PlacesInv, StoredUnderKey, KeyOf
    <3>2. CASE i \in 1 .. Depth
      BY <3>2, <2>1, <2>4, <1>5 DEF PlacesInv, CallsUnderKey, KeyOf
    <3> QED BY <3>1, <3>2, <2>4
  <2>7. NoSubscriberTwice'
    <3>1. ASSUME NEW x \in Keys, NEW i \in 1 .. d, calls'[i].op = "retain"
          PROVE  subscribers'[x].ids \cap Pending(i)' = {}
      <4>1. CASE i = d
        BY <4>1, <2>2, <2>4 DEF PlacesInv, StoredUnderKey
      <4>2. CASE i \in 1 .. Depth
        BY <4>2, <3>1, <2>1, <2>2, <2>4 DEF PlacesInv, NoSubscriberTwice
      <4> QED BY <4>1, <4>2, <2>4
    <3>2. ASSUME NEW i \in 1 .. d, NEW j \in 1 .. d, i # j,
                 calls'[i].op = "retain", calls'[j].op = "retain"
          PROVE  Pending(i)' \cap Pending(j)' = {}
      <4>1. CASE i \in 1 .. Depth /\ j \in 1 .. Depth
        BY <4>1, <3>2, <2>1, <2>4 DEF PlacesInv, NoSubscriberTwice
      <4>2. CASE i = d /\ j \in 1 .. Depth
        BY <4>2, <3>2, <2>1, <2>4 DEF PlacesInv, NoSubscriberTwice
      <4>3. CASE i \in 1 .. Depth /\ j = d
        BY <4>3, <3>2, <2>1, <2>4 DEF PlacesInv, NoSubscriberTwice
      <4> QED BY <4>1, <4>2, <4>3, <3>2, <2>4
    <3> QED BY <3>1, <3>2, <2>4, <2>5 DEF NoSubscriberTwice, StoredUnderKey
  <2> QED BY <2>5, <2>6, <2>7 DEF PlacesInv
<1>6. ASSUME RetainVisit PROVE PlacesInv'
  <2>1. calls # <<>> /\ Top.at = NoId BY <1>6 DEF RetainVisit, InLoop
  <2>2. PICK at \in Top.todo :
            calls' = Progress(Top.todo \ {at},
                     IF at \in active THEN Top.kept ELSE Top.kept \cup {at},
                     IF at \in active \ dropped THEN at ELSE NoId)
    BY <1>6 DEF RetainVisit
  <2>3. (Top.todo \ {at})
            \cup (IF at \in active THEN Top.kept ELSE Top.kept \cup {at})
            \cup (IF (IF at \in active \ dropped THEN at ELSE NoId) = NoId
                  THEN {} ELSE {IF at \in active \ dropped THEN at ELSE NoId})
          \subseteq Pending(Depth)
    BY <2>1, <2>2 DEF Pending, Top
  <2>9. late' = late /\ passed' \cap dropped \subseteq late
    BY <1>6 DEF RetainVisit, PlacesInv, PassedLate, sweepVars
  <2> QED BY <2>1, <2>2, <2>3, <2>9, <1>6, ProgressShrinks DEF RetainVisit
<1>7. ASSUME NEW keep \in BOOLEAN, RetainReturn(keep) PROVE PlacesInv'
  <2>1. calls # <<>> /\ Top.at # NoId BY <1>7 DEF RetainReturn, InCallback
  <2>2. Top.todo \cup (IF keep /\ Top.at \notin dropped
                       THEN Top.kept \cup {Top.at} ELSE Top.kept)
                 \cup (IF NoId = NoId THEN {} ELSE {NoId})
          \subseteq Pending(Depth)
    BY <2>1 DEF Pending, Top
  <2>9. late' = late /\ passed' \cap dropped \subseteq late
    BY <1>7 DEF RetainReturn, PlacesInv, PassedLate, sweepVars
  <2> QED BY <2>1, <2>2, <2>9, <1>7, ProgressShrinks DEF RetainReturn
<1>8. ASSUME RetainPanic PROVE PlacesInv'
  <2>1. calls # <<>> /\ Top.at # NoId BY <1>8 DEF RetainPanic, InCallback
  <2>2. {} \cup (Top.kept \cup {Top.at} \cup Top.todo)
           \cup (IF NoId = NoId THEN {} ELSE {NoId}) \subseteq Pending(Depth)
    BY <2>1 DEF Pending, Top
  <2>9. late' = late /\ passed' \cap dropped \subseteq late
    BY <1>8 DEF RetainPanic, PlacesInv, PassedLate, sweepVars
  <2> QED BY <2>1, <2>2, <2>9, <1>8, ProgressShrinks DEF RetainPanic
<1>9. ASSUME RemoveVisit PROVE PlacesInv'
  <2>1. calls # <<>> /\ Top.op = "remove" BY <1>9 DEF RemoveVisit, InLoop
  <2>2. PICK at \in Top.todo :
            calls' = Progress(Top.todo \ {at}, {}, IF at \in active THEN at ELSE NoId)
    BY <1>9 DEF RemoveVisit
  <2>9. late' = late /\ passed' \cap dropped \subseteq late
    BY <1>9 DEF RemoveVisit, PlacesInv, PassedLate, sweepVars
  <2> QED BY <2>1, <2>2, <2>9, <1>9, ProgressShrinks DEF RemoveVisit
<1>10. ASSUME RemoveReturn PROVE PlacesInv'
  <2>1. calls # <<>> /\ Top.op = "remove" BY <1>10 DEF RemoveReturn, InCallback
  <2>9. late' = late /\ passed' \cap dropped \subseteq late
    BY <1>10 DEF RemoveReturn, PlacesInv, PassedLate, sweepVars
  <2> QED BY <2>1, <2>9, <1>10, ProgressShrinks DEF RemoveReturn
<1>11. ASSUME RemoveEnd PROVE PlacesInv'
  <2>1. calls # <<>> BY <1>11 DEF RemoveEnd, InLoop
  <2>2. Len(calls') = Depth - 1 /\ \A i \in 1 .. Depth - 1 : calls'[i] = calls[i]
    BY <1>0, <1>11, <2>1, PopMoves DEF RemoveEnd
  <2>3. Depth - 1 \in 0 .. Depth BY <1>0, <2>1, TopIsCall
  <2>4. \A i \in 1 .. Len(calls') :
            /\ calls'[i].op = calls[i].op /\ calls'[i].key = calls[i].key
            /\ calls[i].op = "retain" => Pending(i)' \subseteq Pending(i)
    BY <2>2 DEF Pending
  <2>5. late' = late /\ passed' \cap dropped \subseteq late
    BY <1>11 DEF RemoveEnd, PlacesInv, PassedLate, sweepVars
  <2> QED BY <2>2, <2>3, <2>4, <2>5, <1>11, CallsShrink DEF RemoveEnd
<1>12. ASSUME RetainEnd PROVE PlacesInv'
  <2> DEFINE ids == Top.kept \cup subscribers[Top.key].ids
  <2>0. /\ InLoop("retain") /\ Top.todo = {} /\ Top.kept \cap dropped \subseteq passed
        /\ subscribers' = [subscribers EXCEPT
                              ![Top.key] = IF ids = {} THEN Absent ELSE Some(ids)]
        /\ calls' = Pop /\ passed' = {}
        /\ UNCHANGED <<next_subscriber_id, emitter_key, dropped, subscriptions, late>>
    BY <1>12 DEF RetainEnd, Swept, StoreAgain
  <2>1. /\ calls # <<>> /\ Top.op = "retain" /\ Top.at = NoId /\ Top.todo = {}
        /\ Top.key \in Keys /\ Depth \in Nat \ {0}
    BY <1>0, <2>0, TopIsCall DEF InLoop, Calls
  <2>2. Len(calls') = Depth - 1 /\ \A i \in 1 .. Depth - 1 : calls'[i] = calls[i]
    BY <1>0, <2>0, <2>1, PopMoves
  <2>3. /\ subscribers'[Top.key].ids = ids
        /\ subscribers'[Top.key].tag # "some" => subscribers'[Top.key].ids = {}
        /\ \A k \in Keys \ {Top.key} : subscribers'[k] = subscribers[k]
    BY <1>0, <2>0, <2>1 DEF Some, Absent
  <2>4. UNCHANGED <<next_subscriber_id, emitter_key, dropped, subscriptions>>
    BY <2>0
  <2>5. /\ Pending(Depth) = Top.kept
        /\ \A id \in Top.kept :
               id \in 0 .. next_subscriber_id - 1 /\ KeyOf(id) = Top.key
    BY <2>1 DEF Pending, Top, PlacesInv, CallsUnderKey
  <2>6. /\ Depth' = Depth - 1
        /\ \A i \in 1 .. Depth - 1 : Pending(i)' = Pending(i) /\ i \in 1 .. Depth /\ i # Depth
    BY <2>1, <2>2 DEF Pending, Depth
  <2>7. KnownIds'
    BY <2>3, <2>4 DEF PlacesInv, KnownIds
  <2>8. StoredUnderKey'
    BY <2>3, <2>4, <2>5 DEF PlacesInv, StoredUnderKey, KeyOf
  <2>9. DroppedNotStored' /\ PassedLate'
    <3>1. ids \cap dropped \subseteq late
      BY <2>0, <2>1 DEF PlacesInv, DroppedNotStored, PassedLate
    <3> QED BY <2>0, <2>3, <3>1 DEF PlacesInv, DroppedNotStored, PassedLate
  <2>10. CallsUnderKey'
    BY <2>2, <2>4, <2>6 DEF PlacesInv, CallsUnderKey, KeyOf
  <2>11. NoSubscriberTwice'
    <3>1. ASSUME NEW k \in Keys, NEW i \in 1 .. Depth - 1, calls[i].op = "retain"
          PROVE  subscribers'[k].ids \cap Pending(i) = {}
      <4>1. /\ i \in 1 .. Depth /\ i # Depth /\ Depth \in 1 .. Depth
            /\ calls[Depth].op = "retain"
        BY <2>1, <2>6 DEF Top
      <4>2. Top.kept \cap Pending(i) = {}
        BY <3>1, <4>1, <2>5 DEF PlacesInv, NoSubscriberTwice
      <4>3. subscribers[k].ids \cap Pending(i) = {}
        BY <3>1, <4>1 DEF PlacesInv, NoSubscriberTwice
      <4> QED BY <4>2, <4>3, <2>3
    <3> QED BY <3>1, <2>2, <2>6, <2>8 DEF PlacesInv, NoSubscriberTwice, StoredUnderKey
  <2> QED BY <2>7, <2>8, <2>9, <2>10, <2>11 DEF PlacesInv
<1>13. ASSUME RetainSweep PROVE PlacesInv'
  <2>1. calls # <<>> /\ Top.at = NoId BY <1>13 DEF RetainSweep, InLoop
  <2>2. PICK id \in Ids : /\ First(id, (Top.kept \ passed) \cap dropped)
                          /\ calls' = Progress({}, Top.kept \ {id}, NoId)
                          /\ passed' = {other \in Top.kept : other < id}
    BY <1>13 DEF RetainSweep
  <2>3. Top.kept \subseteq Ids BY <1>0, <2>1, TopIsCall DEF Calls
  <2>4. passed' \cap dropped \subseteq late
    <3> SUFFICES ASSUME NEW other \in Top.kept, other < id, other \in dropped
                 PROVE  other \in late
      BY <2>2
    <3>1. other \in Int /\ id \in Int BY <2>3, SubscriberBounds DEF Ids
    <3>2. other \in passed BY <2>2, <3>1 DEF First
    <3> QED BY <3>2 DEF PlacesInv, PassedLate
  <2>5. {} \cup (Top.kept \ {id}) \cup (IF NoId = NoId THEN {} ELSE {NoId})
          \subseteq Pending(Depth)
    BY <2>1 DEF Pending, Top
  <2> QED BY <2>1, <2>2, <2>4, <2>5, <1>13, ProgressShrinks DEF RetainSweep
<1> QED
  <2>0. \A s \in subscriptions : s \subseteq 0 .. next_subscriber_id - 1
    BY DEF PlacesInv, KnownIds
  <2>1. ASSUME NEW k \in Keys, RetainBegin(k) PROVE PlacesInv'
    BY <2>1, <1>5 DEF RetainBegin, Taken
  <2>2. ASSUME NEW k \in Keys, RemoveBegin(k) PROVE PlacesInv'
    BY <2>2, <1>5 DEF RemoveBegin, Absent
  <2>3. CASE UNCHANGED setVars BY <2>0, <2>3, <1>4 DEF setVars, sweepVars
  <2>4. ASSUME NEW x \in Ids, Activate(x) PROVE PlacesInv'
    BY <2>0, <2>4, <1>4 DEF Activate
  <2>5. ASSUME NEW s \in subscriptions, Detach(s) PROVE PlacesInv'
    BY <2>0, <2>5, <1>4 DEF Detach
  <2>6. ASSUME NEW a \in subscriptions, NEW b \in subscriptions, Join(a, b)
        PROVE PlacesInv'
    BY <2>0, <2>6, <1>4 DEF Join
  <2> QED BY <1>1, <1>2, <1>3, <1>6, <1>7, <1>8, <1>9, <1>10, <1>11, <1>12,
             <1>13, <2>1, <2>2, <2>3, <2>4, <2>5, <2>6 DEF Next

\* The inductive invariant holds in every reachable state.
LEMMA PlacesHold == Spec => []PlacesInv
<1>1. Init => PlacesInv
  BY DEF Init, PlacesInv, KnownIds, StoredUnderKey, CallsUnderKey, NoSubscriberTwice,
         DroppedNotStored, PassedLate, Absent, Depth
<1> QED BY <1>1, PlacesInductive, TypeCorrect, PTL DEF Spec

\* No subscriber is ever in two places, so that one notification of its emitter
\* calls it at most once.
THEOREM NeverTwice == Spec => []NoSubscriberTwice
BY PlacesHold, PTL DEF PlacesInv

\* A dropped subscription is never stored, also when retain had its map while it was
\* dropped, unless the destructor of a callback dropped it behind the back of the
\* sweep (retain, subscription.rs:137-146).
THEOREM DroppedStaysOut == Spec => []DroppedNotStored
BY PlacesHold, PTL DEF PlacesInv

\* A key is marked taken only while a retain call that will unmark it is on the
\* stack: a panic in a callback does not silence the emitter for good.
THEOREM TakenIsTemporary == Spec => []TakenOnlyDuringRetain
<1>1. Init => TakenOnlyDuringRetain
  BY DEF Init, TakenOnlyDuringRetain, Absent
<1>2. TypeOK /\ TakenOnlyDuringRetain /\ [Next]_setVars => TakenOnlyDuringRetain'
  <2> SUFFICES ASSUME TypeOK, TakenOnlyDuringRetain, [Next]_setVars,
                      NEW key \in Keys, subscribers'[key].tag = "none"
               PROVE  \E i \in 1 .. Len(calls') :
                          calls'[i].op = "retain" /\ calls'[i].key = key
    BY DEF TakenOnlyDuringRetain, Depth
  <2> DEFINE Goal == \E i \in 1 .. Len(calls') :
                         calls'[i].op = "retain" /\ calls'[i].key = key
  <2>0. /\ subscribers \in [Keys -> Slots] /\ calls \in Seq(Calls)
        /\ Depth \in Nat /\ Depth = Len(calls)
    BY DEF TypeOK, Depth
  <2>1. ASSUME subscribers[key].tag = "none"
        PROVE  \E i \in 1 .. Depth : calls[i].op = "retain" /\ calls[i].key = key
    BY <2>1 DEF TakenOnlyDuringRetain
  <2>2. ASSUME calls' = calls, subscribers[key].tag = "none" PROVE Goal
    BY <2>0, <2>1, <2>2
  <2>3. ASSUME NEW k \in Keys, Insert(k) \/ InsertActive(k) PROVE Goal
    BY <2>0, <2>2, <2>3 DEF Insert, InsertActive, Some
  <2>4. ASSUME NEW s \in subscriptions, DropSubscription(s) PROVE Goal
    BY <2>0, <2>2, <2>4 DEF DropSubscription, Without, Some, Absent
  <2>5. ASSUME NEW ks \in SUBSET Keys, RemoveUnused(ks) PROVE Goal
    BY <2>0, <2>2, <2>5 DEF RemoveUnused, Absent
  <2>6. ASSUME UNCHANGED <<subscribers, calls>> PROVE Goal
    BY <2>2, <2>6
  <2>7. ASSUME NEW k \in Keys, RetainBegin(k) PROVE Goal
    <3>1. /\ Len(calls') = Depth + 1
          /\ \A i \in 1 .. Depth : calls'[i] = calls[i]
          /\ calls'[Depth + 1] = [op |-> "retain", key |-> k, kept |-> {},
                                  todo |-> subscribers[k].ids, at |-> NoId]
      BY <2>0, <2>7, EnterMoves DEF RetainBegin
    <3>2. CASE key = k
      <4>1. Depth + 1 \in 1 .. Len(calls') BY <3>1, <2>0
      <4> QED BY <3>1, <3>2, <4>1
    <3>3. CASE key # k
      <4>1. subscribers[key].tag = "none" BY <3>3, <2>0, <2>7 DEF RetainBegin
      <4> QED BY <4>1, <2>0, <2>1, <3>1
    <3> QED BY <3>2, <3>3
  <2>8. ASSUME NEW k \in Keys, RemoveBegin(k) PROVE Goal
    <3>1. /\ Len(calls') = Depth + 1
          /\ \A i \in 1 .. Depth : calls'[i] = calls[i]
          /\ calls'[Depth + 1] = [op |-> "remove", key |-> k, kept |-> {},
                                  todo |-> subscribers[k].ids, at |-> NoId]
      BY <2>0, <2>8, EnterMoves DEF RemoveBegin
    <3>2. subscribers[key].tag = "none" BY <2>0, <2>8 DEF RemoveBegin, Absent
    <3> QED BY <3>1, <3>2, <2>0, <2>1
  <2>9. ASSUME subscribers' = subscribers, calls # <<>>,
               NEW todo, NEW kept, NEW at, calls' = Progress(todo, kept, at)
        PROVE  Goal
    <3>1. /\ Len(calls') = Depth
          /\ \A i \in 1 .. Depth - 1 : calls'[i] = calls[i]
          /\ calls'[Depth] = [op |-> Top.op, key |-> Top.key, todo |-> todo,
                              kept |-> kept, at |-> at]
      BY <2>0, <2>9, ProgressMoves
    <3>2. PICK i \in 1 .. Depth : calls[i].op = "retain" /\ calls[i].key = key
      BY <2>1, <2>9
    <3>3. calls'[i].op = calls[i].op /\ calls'[i].key = calls[i].key
      BY <3>1, <2>0 DEF Top
    <3> QED BY <3>1, <3>2, <3>3
  <2>10. ASSUME RetainVisit PROVE Goal
    BY <2>9, <2>10 DEF RetainVisit, InLoop
  <2>11. ASSUME NEW keep \in BOOLEAN, RetainReturn(keep) PROVE Goal
    BY <2>9, <2>11 DEF RetainReturn, InCallback
  <2>12. ASSUME RetainPanic PROVE Goal
    BY <2>9, <2>12 DEF RetainPanic, InCallback
  <2>13. ASSUME RemoveVisit PROVE Goal
    BY <2>9, <2>13 DEF RemoveVisit, InLoop
  <2>14. ASSUME RemoveReturn PROVE Goal
    BY <2>9, <2>14 DEF RemoveReturn, InCallback
  <2>16. ASSUME RetainSweep PROVE Goal
    BY <2>9, <2>16 DEF RetainSweep, InLoop
  <2>15. ASSUME RetainEnd \/ RemoveEnd PROVE Goal
    <3>1. calls # <<>> BY <2>15 DEF RetainEnd, Swept, RemoveEnd, InLoop
    <3>2. Len(calls') = Depth - 1 /\ \A i \in 1 .. Depth - 1 : calls'[i] = calls[i]
      BY <2>0, <2>15, <3>1, PopMoves DEF RetainEnd, StoreAgain, RemoveEnd
    <3>3. /\ subscribers[key].tag = "none"
          /\ Top.op = "retain" => key # Top.key
      BY <2>0, <2>15, <3>1, TopIsCall
         DEF RetainEnd, Swept, StoreAgain, RemoveEnd, InLoop, Some, Absent, Calls
    <3>4. PICK i \in 1 .. Depth : calls[i].op = "retain" /\ calls[i].key = key
      BY <2>1, <3>3
    <3>5. i \in 1 .. Depth - 1 BY <2>0, <3>3, <3>4 DEF Top
    <3> QED BY <3>2, <3>4, <3>5
  <2> HIDE DEF Goal
  <2> QED
    <3>1. ASSUME UNCHANGED setVars PROVE Goal BY <3>1, <2>6 DEF setVars
    <3>2. ASSUME NEW x \in Ids, Activate(x) PROVE Goal
      BY <3>2, <2>6 DEF Activate
    <3>3. ASSUME NEW s \in subscriptions, Detach(s) PROVE Goal
      BY <3>3, <2>6 DEF Detach
    <3>4. ASSUME NEW a \in subscriptions, NEW b \in subscriptions, Join(a, b)
          PROVE Goal
      BY <3>4, <2>6 DEF Join
    <3>5. Goal
      BY <2>3, <2>4, <2>5, <2>7, <2>8, <2>10, <2>11, <2>12, <2>13, <2>14, <2>15,
         <2>16, <3>1, <3>2, <3>3, <3>4 DEF Next
    <3> QED BY <3>5 DEF Goal
<1> QED BY <1>1, <1>2, TypeCorrect, PTL DEF Spec
=============================================================================

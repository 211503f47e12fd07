------------------------------ MODULE QueueProofs ------------------------------
(***************************************************************************)
(* Proofs about the two layers through which work reaches the main thread. *)
(*                                                                         *)
(* LinuxDispatcher, for any number of workers and tasks: a step of the     *)
(* dispatcher is a step of the queue of the workers and a step of the      *)
(* queue of the main thread, or leaves them alone; what the queues promise *)
(* is then shown of their own steps.                                       *)
(*                                                                         *)
(* NativeIngress, for any budget and depth of calls: first how calls nest  *)
(* on the stack, then where every accepted envelope is and in which order  *)
(* it is handled, then who will come back for what is queued.              *)
(***************************************************************************)
EXTENDS LinuxDispatcher, NativeIngress, FiniteSetTheorems, WellFoundedInduction, TLAPS

-------------------------------------------------------------------------------
(* The dispatcher.                                                           *)

Receivers == Workers \cup {Original}
Items == 1 .. MaxItems
Levels == {"high", "medium", "low"}
States == {"unborn", "idle", "asleep", "woken", "done", "dropped"}

\* The instance has its own copy of Cardinality.
LEMMA SameCardinality == ASSUME NEW S PROVE Background!Cardinality(S) = Cardinality(S)
BY DEF Background!Cardinality, Cardinality

LEMMA ReceiversFinite == IsFiniteSet(Receivers)
BY DispatcherConstants, FS_AddElement DEF Receivers

\* A set of receivers is finite: what it counts changes by one with its members.
LEMMA CountAdd ==
    ASSUME NEW S \in SUBSET Receivers, NEW r \in Receivers, r \notin S
    PROVE  Cardinality(S \cup {r}) = Cardinality(S) + 1 /\ Cardinality(S) \in Nat
<1>1. IsFiniteSet(S)
    BY ReceiversFinite, FS_Subset
<1> QED
    BY <1>1, FS_AddElement, FS_CardinalityType

LEMMA CountRemove ==
    ASSUME NEW S \in SUBSET Receivers, NEW r \in S
    PROVE  Cardinality(S \ {r}) = Cardinality(S) - 1 /\ Cardinality(S) \in Nat
<1>1. IsFiniteSet(S)
    BY ReceiversFinite, FS_Subset
<1> QED
    BY <1>1, FS_RemoveElement, FS_CardinalityType
-------------------------------------------------------------------------------
\* The coin of the lowest level that holds an item cannot fail (pop_inner,
\* queue.rs:306-345): by then the mass is its own weight.
LEMMA DieStops == ~Background!IsEmpty => ~Background!NoWinner
<1> DEFINE Full == Background!NonEmpty
<1> SUFFICES ASSUME ~Background!IsEmpty PROVE \E p \in Full : ~Background!CoinFails(p)
    BY DEF Background!NoWinner
<1>1. Full \subseteq Levels /\ Full # {}
    BY DEF Background!IsEmpty, Background!NonEmpty, Background!Priorities, Levels
<1>2. CASE "low" \in Full
    <2>1. Full \ Background!Above("low") = {"low"}
        BY <1>1, <1>2 DEF Background!Above, Levels
    <2>2. ~Background!CoinFails("low")
        BY <2>1 DEF Background!CoinFails, Background!Mass, Background!Weight
    <2> QED
        BY <1>2, <2>2
<1>3. CASE "low" \notin Full /\ "medium" \in Full
    <2>1. Full \ Background!Above("medium") = {"medium"}
        BY <1>1, <1>3 DEF Background!Above, Levels
    <2>2. ~Background!CoinFails("medium")
        BY <2>1 DEF Background!CoinFails, Background!Mass, Background!Weight
    <2> QED
        BY <1>3, <2>2
<1>4. CASE "low" \notin Full /\ "medium" \notin Full
    <2>1. Full = {"high"} /\ Full \ Background!Above("high") = {"high"}
        BY <1>1, <1>4 DEF Background!Above, Levels
    <2>2. ~Background!CoinFails("high")
        BY <2>1 DEF Background!CoinFails, Background!Mass, Background!Weight
    <2> QED
        BY <2>1, <2>2
<1> QED
    BY <1>2, <1>3, <1>4

\* What a pop that found the queue not empty does: the head of a level comes out.
LEMMA TakeEffect ==
    ASSUME NEW r, ~Background!IsEmpty, Background!Take(r)
    PROVE  /\ receiver' = [receiver EXCEPT ![r] = "idle"]
           /\ \E p \in Levels :
                 /\ queues[p] # <<>>
                 /\ queues' = [queues EXCEPT ![p] = Tail(@)]
                 /\ popped' = [popped EXCEPT ![p] = Append(@, Head(queues[p]))]
           /\ UNCHANGED <<sender_count, receiver_count, dispatching, next_item, accepted,
                          refused, unwrapped_none>>
BY DieStops DEF Background!Take, Background!Winners, Background!NonEmpty,
   Background!Priorities, Levels

LEMMA BackgroundTypeStep == Background!TypeOK /\ Background!Next => Background!TypeOK'
<1> SUFFICES ASSUME Background!TypeOK, Background!Next PROVE Background!TypeOK'
    OBVIOUS
<1> DEFINE Live == Receivers \ (Background!With("unborn") \cup Background!With("dropped"))
<1>0. /\ queues \in [Levels -> Seq(Items)] /\ sender_count \in 0 .. 1
      /\ receiver_count = Cardinality(Live)
      /\ receiver \in [Receivers -> States]
      /\ dispatching \in [Callers -> 0 .. MaxItems] /\ next_item \in 0 .. MaxItems
      /\ accepted \in [Levels -> Seq(Items)] /\ popped \in [Levels -> Seq(Items)]
      /\ refused \subseteq Items /\ unwrapped_none \in BOOLEAN
    BY SameCardinality DEF Background!TypeOK, Background!Priorities, Background!Items,
       Receivers, Items, Levels, States
<1>a. ASSUME /\ queues' \in [Levels -> Seq(Items)] /\ sender_count' \in 0 .. 1
             /\ receiver_count' = Cardinality(Live')
             /\ receiver' \in [Receivers -> States]
             /\ dispatching' \in [Callers -> 0 .. MaxItems] /\ next_item' \in 0 .. MaxItems
             /\ accepted' \in [Levels -> Seq(Items)] /\ popped' \in [Levels -> Seq(Items)]
             /\ refused' \subseteq Items /\ unwrapped_none' \in BOOLEAN
      PROVE Background!TypeOK'
    BY <1>a, SameCardinality DEF Background!TypeOK, Background!Priorities, Background!Items,
       Receivers, Items, Levels, States
<1>b. ASSUME NEW r \in Receivers, NEW s \in States \ {"unborn", "dropped"},
             receiver[r] \notin {"unborn", "dropped"}, receiver' = [receiver EXCEPT ![r] = s]
      PROVE receiver' \in [Receivers -> States] /\ Live' = Live
    BY <1>0, <1>b DEF Background!With, Receivers, States
<1>1. ASSUME NEW c \in Callers, Background!SendCheck(c) PROVE Background!TypeOK'
    <2>1. Live' = Live
        BY <1>1 DEF Background!SendCheck, Background!With
    <2>2. next_item + 1 \in 0 .. MaxItems /\ next_item + 1 \in Items
        BY <1>0, <1>1, DispatcherConstants DEF Background!SendCheck, Items
    <2>3. dispatching' \in [Callers -> 0 .. MaxItems] /\ refused' \subseteq Items
        BY <1>0, <1>1, <2>2 DEF Background!SendCheck
    <2> QED
        BY <1>0, <1>1, <1>a, <2>1, <2>2, <2>3 DEF Background!SendCheck
<1>2. ASSUME NEW c \in Callers, NEW p \in Levels, Background!SendPush(c, p)
      PROVE Background!TypeOK'
    <2>1. dispatching[c] \in Items
        BY <1>0, <1>2 DEF Background!SendPush, Items
    <2>2. queues' \in [Levels -> Seq(Items)] /\ accepted' \in [Levels -> Seq(Items)]
        BY <1>0, <1>2, <2>1 DEF Background!SendPush, Background!Push
    <2>3. receiver' \in [Receivers -> States] /\ Live' = Live
        <3>1. CASE receiver' = receiver
            BY <1>0, <3>1 DEF Background!With
        <3>2. ASSUME NEW r \in Background!With("asleep"),
                     receiver' = [receiver EXCEPT ![r] = "woken"]
              PROVE receiver' \in [Receivers -> States] /\ Live' = Live
            <4>1. r \in Receivers /\ receiver[r] = "asleep"
                BY DEF Background!With, Receivers
            <4> QED
                BY <1>b, <3>2, <4>1 DEF States
        <3> QED
            BY <1>2, <3>1, <3>2 DEF Background!SendPush, Background!Notified
    <2>4. dispatching' \in [Callers -> 0 .. MaxItems]
        BY <1>0, <1>2, DispatcherConstants DEF Background!SendPush
    <2> QED
        BY <1>0, <1>2, <1>a, <2>2, <2>3, <2>4 DEF Background!SendPush
<1>3. CASE Background!DropSender
    <2>1. Live' = Live /\ sender_count' \in 0 .. 1
        BY <1>3 DEF Background!DropSender, Background!With
    <2> QED
        BY <1>0, <1>3, <1>a, <2>1 DEF Background!DropSender
<1>4. ASSUME NEW r \in Receivers, Background!Pop(r) PROVE Background!TypeOK'
    <2>1. ASSUME ~Background!IsEmpty, Background!Take(r), receiver[r] \in {"idle", "woken"}
          PROVE Background!TypeOK'
        <3>1. PICK p \in Levels :
                 /\ queues[p] # <<>>
                 /\ queues' = [queues EXCEPT ![p] = Tail(@)]
                 /\ popped' = [popped EXCEPT ![p] = Append(@, Head(queues[p]))]
            BY <2>1, TakeEffect
        <3>2. Tail(queues[p]) \in Seq(Items) /\ Head(queues[p]) \in Items
            BY <1>0, <3>1
        <3>3. queues' \in [Levels -> Seq(Items)] /\ popped' \in [Levels -> Seq(Items)]
            BY <1>0, <3>1, <3>2
        <3>4. receiver' \in [Receivers -> States] /\ Live' = Live
            BY <1>b, <2>1, TakeEffect DEF States
        <3> QED
            BY <1>0, <1>a, <2>1, <3>3, <3>4, TakeEffect
    <2>2. ASSUME NEW s \in {"asleep", "done"}, Background!Becomes(r, s),
                 receiver[r] \in {"idle", "woken"}
          PROVE Background!TypeOK'
        <3>1. receiver' \in [Receivers -> States] /\ Live' = Live
            BY <1>b, <2>2 DEF Background!Becomes, States
        <3> QED
            BY <1>0, <1>a, <2>2, <3>1 DEF Background!Becomes
    <2> QED
        BY <1>4, <2>1, <2>2 DEF Background!Pop, Background!PopTake, Background!PopSleep,
           Background!PopError, Background!WakeTake, Background!WakeSleep
<1>5. ASSUME NEW r \in Receivers, Background!DropReceiver(r) PROVE Background!TypeOK'
    <2>1. r \in Live /\ Live' = Live \ {r} /\ receiver' \in [Receivers -> States]
        BY <1>0, <1>5 DEF Background!DropReceiver, Background!With, Receivers, States
    <2>2. receiver_count' = Cardinality(Live')
        BY <1>0, <1>5, <2>1, CountRemove DEF Background!DropReceiver
    <2> QED
        BY <1>0, <1>5, <1>a, <2>1, <2>2 DEF Background!DropReceiver
<1>6. ASSUME NEW r \in Receivers, NEW other \in Receivers, Background!CloneReceiver(r, other)
      PROVE Background!TypeOK'
    <2>1. other \notin Live /\ Live' = Live \cup {other} /\ receiver' \in [Receivers -> States]
        BY <1>0, <1>6 DEF Background!CloneReceiver, Background!With, Receivers, States
    <2>2. receiver_count' = Cardinality(Live')
        BY <1>0, <1>6, <2>1, CountAdd DEF Background!CloneReceiver
    <2> QED
        BY <1>0, <1>6, <1>a, <2>1, <2>2 DEF Background!CloneReceiver
<1> QED
    BY <1>1, <1>2, <1>3, <1>4, <1>5, <1>6 DEF Background!Next, Background!Priorities, Levels,
       Receivers
\* While a worker sleeps, a send adds a woken worker with its item, a woken worker that
\* takes an item leaves one less of both, and one that goes to sleep found no item.
LEMMA WakeupStep ==
    Background!TypeOK /\ NoLostWakeup /\ Background!Next => NoLostWakeup'
<1> SUFFICES ASSUME Background!TypeOK, NoLostWakeup, Background!Next PROVE NoLostWakeup'
    OBVIOUS
<1> DEFINE Asleep == Background!With("asleep")
           Woken == Background!With("woken")
<1>0. /\ queues \in [Levels -> Seq(Items)]
      /\ receiver \in [Receivers -> States]
      /\ Woken \in SUBSET Receivers /\ Asleep \in SUBSET Receivers
    BY DEF Background!TypeOK, Background!Priorities, Background!Items, Background!With,
       Receivers, Items, Levels, States
<1>a. NoLostWakeup <=> (Asleep # {} => Background!Stored <= Cardinality(Woken))
    BY SameCardinality DEF NoLostWakeup, Background!NoLostWakeup
<1>b. NoLostWakeup' <=> (Asleep' # {} => Background!Stored' <= Cardinality(Woken'))
    BY SameCardinality DEF NoLostWakeup, Background!NoLostWakeup
<1>c. Cardinality(Woken) \in Nat /\ Background!Stored \in Nat
    <2>1. IsFiniteSet(Woken)
        BY <1>0, ReceiversFinite, FS_Subset
    <2> QED
        BY <1>0, <2>1, FS_CardinalityType DEF Background!Stored, Levels
<1>1. ASSUME Asleep' = Asleep, Woken' = Woken, queues' = queues PROVE NoLostWakeup'
    BY <1>1, <1>a, <1>b DEF Background!Stored
<1>2. ASSUME NEW c \in Callers, NEW p \in Levels, Background!SendPush(c, p)
      PROVE NoLostWakeup'
    <2>1. Background!Stored' = Background!Stored + 1
        <3>1. queues' = [queues EXCEPT ![p] = Append(@, dispatching[c])]
            BY <1>2 DEF Background!SendPush, Background!Push
        <3>2. \A l \in Levels : Len(queues[l]) \in Nat
            BY <1>0
        <3>3. \A l \in Levels : queues'[l] = IF l = p THEN Append(queues[l], dispatching[c])
                                                    ELSE queues[l]
            BY <1>0, <3>1
        <3>4. Len(Append(queues[p], dispatching[c])) = Len(queues[p]) + 1
            BY <1>0
        <3>5. \A l \in Levels : Len(queues'[l]) = IF l = p THEN Len(queues[l]) + 1
                                                       ELSE Len(queues[l])
            BY <3>3, <3>4
        <3> DEFINE h == Len(queues["high"])
                   m == Len(queues["medium"])
                   n == Len(queues["low"])
        <3>6. h \in Nat /\ m \in Nat /\ n \in Nat
            BY <3>2 DEF Levels
        <3>7. \/ h' = h + 1 /\ m' = m /\ n' = n
              \/ h' = h /\ m' = m + 1 /\ n' = n
              \/ h' = h /\ m' = m /\ n' = n + 1
            BY <3>5 DEF Levels
        <3>8. Background!Stored = h + m + n /\ Background!Stored' = h' + m' + n'
            BY DEF Background!Stored
        <3> HIDE DEF h, m, n
        <3> QED
            BY <3>6, <3>7, <3>8
    <2>2. CASE Asleep = {}
        <3>1. Asleep' = {}
            BY <1>2, <2>2 DEF Background!SendPush, Background!Notified, Background!With
        <3> QED
            BY <3>1, <1>b
    <2>3. CASE Asleep # {}
        <3>1. PICK r \in Asleep : receiver' = [receiver EXCEPT ![r] = "woken"]
            BY <1>2, <2>3 DEF Background!SendPush, Background!Notified
        <3>2. r \in Receivers /\ r \notin Woken /\ Woken' = Woken \cup {r}
            BY <1>0, <3>1 DEF Background!With, Receivers
        <3>3. Cardinality(Woken') = Cardinality(Woken) + 1
            BY <1>0, <3>2, CountAdd
        <3> QED
            BY <1>a, <1>b, <1>c, <2>1, <2>3, <3>3
    <2> QED
        BY <2>2, <2>3
<1>3. ASSUME NEW r \in Receivers, ~Background!IsEmpty, Background!Take(r),
             receiver[r] \in {"idle", "woken"}
      PROVE NoLostWakeup'
    <2>1. PICK p \in Levels : queues[p] # <<>> /\ queues' = [queues EXCEPT ![p] = Tail(@)]
        BY <1>3, TakeEffect
    <2>2. Len(Tail(queues[p])) = Len(queues[p]) - 1
        BY <1>0, <2>1
    <2>3. Background!Stored' = Background!Stored - 1
        <3>1. \A l \in Levels : Len(queues[l]) \in Nat
            BY <1>0
        <3>2. \A l \in Levels : queues'[l] = IF l = p THEN Tail(queues[l]) ELSE queues[l]
            BY <1>0, <2>1
        <3>3. \A l \in Levels : Len(queues'[l]) = IF l = p THEN Len(queues[l]) - 1
                                                       ELSE Len(queues[l])
            BY <2>2, <3>2
        <3> DEFINE h == Len(queues["high"])
                   m == Len(queues["medium"])
                   n == Len(queues["low"])
        <3>4. h \in Nat /\ m \in Nat /\ n \in Nat
            BY <3>1 DEF Levels
        <3>5. \/ h' = h - 1 /\ m' = m /\ n' = n
              \/ h' = h /\ m' = m - 1 /\ n' = n
              \/ h' = h /\ m' = m /\ n' = n - 1
            BY <3>3 DEF Levels
        <3>6. Background!Stored = h + m + n /\ Background!Stored' = h' + m' + n'
            BY DEF Background!Stored
        <3> HIDE DEF h, m, n
        <3> QED
            BY <3>4, <3>5, <3>6
    <2>4. receiver' = [receiver EXCEPT ![r] = "idle"]
        BY <1>3, TakeEffect
    <2>5. Asleep' = Asleep /\ Woken' = Woken \ {r}
        BY <1>0, <1>3, <2>4 DEF Background!With, Receivers
    <2>6. Cardinality(Woken \ {r}) >= Cardinality(Woken) - 1
        <3>1. CASE r \in Woken
            BY <1>0, <1>c, <3>1, CountRemove
        <3>2. CASE r \notin Woken
            <4>1. Woken \ {r} = Woken
                BY <3>2
            <4> QED
                BY <1>c, <4>1
        <3> QED
            BY <3>1, <3>2
    <2>7. Cardinality(Woken \ {r}) \in Nat
        <3>1. IsFiniteSet(Woken \ {r})
            BY <1>0, ReceiversFinite, FS_Subset
        <3> QED
            BY <3>1, FS_CardinalityType
    <2>8. Cardinality(Woken') = Cardinality(Woken \ {r}) /\ (Asleep' # {} => Asleep # {})
        BY <2>5
    <2> HIDE DEF Asleep, Woken
    <2> QED
        BY <1>a, <1>b, <1>c, <2>3, <2>6, <2>7, <2>8
<1>4. ASSUME NEW r \in Receivers, NEW s \in {"asleep", "done"}, Background!IsEmpty,
             Background!Becomes(r, s)
      PROVE NoLostWakeup'
    <2>1. Background!Stored' = 0
        <3>1. queues' = queues /\ \A l \in Levels : Len(queues[l]) = 0
            BY <1>4 DEF Background!IsEmpty, Background!Becomes, Background!Priorities, Levels
        <3>2. Len(queues["high"]) = 0 /\ Len(queues["medium"]) = 0 /\ Len(queues["low"]) = 0
            BY <3>1 DEF Levels
        <3>3. Background!Stored = 0
            BY <3>2 DEF Background!Stored
        <3>4. Background!Stored' = Background!Stored
            BY <3>1 DEF Background!Stored
        <3> QED
            BY <3>3, <3>4
    <2>2. Woken' \in SUBSET Receivers
        BY DEF Background!With, Receivers
    <2>3. Cardinality(Woken') \in Nat
        <3>1. IsFiniteSet(Woken')
            BY <2>2, ReceiversFinite, FS_Subset
        <3> QED
            BY <3>1, FS_CardinalityType
    <2> QED
        BY <1>b, <2>1, <2>3
<1>5. ASSUME NEW r \in Receivers, Background!DropReceiver(r) PROVE NoLostWakeup'
    BY <1>0, <1>1, <1>5 DEF Background!DropReceiver, Background!With
<1>6. ASSUME NEW r \in Receivers, NEW other \in Receivers, Background!CloneReceiver(r, other)
      PROVE NoLostWakeup'
    BY <1>0, <1>1, <1>6 DEF Background!CloneReceiver, Background!With
<1>7. CASE Background!DropSender \/ \E c \in Callers : Background!SendCheck(c)
    BY <1>1, <1>7 DEF Background!DropSender, Background!SendCheck, Background!With
<1>8. ASSUME NEW r \in Receivers, Background!Pop(r) PROVE NoLostWakeup'
    BY <1>3, <1>4, <1>8 DEF Background!Pop, Background!PopTake, Background!PopSleep,
       Background!PopError, Background!WakeTake, Background!WakeSleep
<1> QED
    BY <1>2, <1>5, <1>6, <1>7, <1>8 DEF Background!Next, Background!Priorities, Levels,
       Receivers

LEMMA YieldStep == PopAlwaysYields /\ Background!Next => PopAlwaysYields'
<1> SUFFICES ASSUME Background!Next PROVE unwrapped_none' = unwrapped_none
    BY DEF PopAlwaysYields, Background!PopAlwaysYields
<1>1. ASSUME NEW r, Background!Pop(r) PROVE unwrapped_none' = unwrapped_none
    BY <1>1, TakeEffect DEF Background!Pop, Background!PopTake, Background!PopSleep,
       Background!PopError, Background!WakeTake, Background!WakeSleep, Background!Becomes
<1> QED
    BY <1>1 DEF Background!Next, Background!SendCheck, Background!SendPush,
       Background!DropSender, Background!DropReceiver, Background!CloneReceiver
-------------------------------------------------------------------------------
\* The main queue: a runnable is never both waiting and done.
LEMMA MainTypeStep == TypeOK /\ Next => TypeOK'
<1> SUFFICES ASSUME TypeOK, Next PROVE TypeOK'
    OBVIOUS
<1> USE DEF TypeOK
<1>1. ASSUME NEW c \in Callers, NEW x \in Runnables, Push(c, x) PROVE TypeOK'
    BY <1>1 DEF Push
<1>2. ASSUME NEW c \in Callers, PingAfter(c) PROVE TypeOK'
    BY <1>2 DEF PingAfter
<1>3. CASE DropPings \/ DropInner
    BY <1>3 DEF DropPings, DropInner
<1>4. CASE Wake
    BY <1>4 DEF Wake
<1>5. CASE DrainOne
    BY <1>5 DEF DrainOne
<1>6. CASE RunnableReturns
    BY <1>6 DEF RunnableReturns
<1>7. CASE DrainEnds
    BY <1>7 DEF DrainEnds
<1>8. CASE Finish
    BY <1>8 DEF Finish
<1> QED
    BY <1>1, <1>2, <1>3, <1>4, <1>5, <1>6, <1>7, <1>8 DEF Next, Loop

\* Only the end of process_events lets go of the queue, and it leaves a ping behind.
LEMMA StrandedStep == NoStrandedRunnable /\ Next => NoStrandedRunnable'
<1> SUFFICES ASSUME NoStrandedRunnable, Next PROVE NoStrandedRunnable'
    OBVIOUS
<1> USE DEF NoStrandedRunnable
<1>1. ASSUME NEW c \in Callers, NEW x \in Runnables, Push(c, x) PROVE NoStrandedRunnable'
    BY <1>1 DEF Push
<1>2. ASSUME NEW c \in Callers, PingAfter(c) PROVE NoStrandedRunnable'
    BY <1>2 DEF PingAfter
<1>3. CASE DropPings \/ DropInner
    BY <1>3 DEF DropPings, DropInner
<1>4. CASE Loop
    BY <1>4 DEF Loop, Wake, DrainOne, RunnableReturns, DrainEnds, Finish
<1> QED
    BY <1>1, <1>2, <1>3, <1>4 DEF Next
-------------------------------------------------------------------------------
\* The task a worker obtained from the queue is one of the tasks.
LEMMA ObtainedType ==
    ASSUME Background!TypeOK, NEW w \in Workers, Background!Pop(w)
    PROVE  Obtained \in 0 .. MaxItems
<1>0. /\ queues \in [Levels -> Seq(Items)] /\ popped \in [Levels -> Seq(Items)]
      /\ MaxItems \in Nat
    BY DispatcherConstants DEF Background!TypeOK, Background!Priorities, Background!Items,
       Levels, Items
<1>1. CASE popped' = popped
    BY <1>0, <1>1 DEF Obtained
<1>2. CASE popped' # popped
    <2>1. ~Background!IsEmpty /\ Background!Take(w)
        BY <1>2 DEF Background!Pop, Background!PopTake, Background!PopSleep,
           Background!PopError, Background!WakeTake, Background!WakeSleep, Background!Becomes
    <2>2. PICK p \in Levels :
             /\ queues[p] # <<>>
             /\ popped' = [popped EXCEPT ![p] = Append(@, Head(queues[p]))]
        BY <2>1, TakeEffect
    <2>3. Head(queues[p]) \in Items
        BY <1>0, <2>2
    <2> DEFINE q == CHOOSE l \in Background!Priorities : popped'[l] # popped[l]
    <2>4. popped'[p] = Append(popped[p], Head(queues[p])) /\ popped'[p] # popped[p]
        BY <1>0, <2>2, <2>3
    <2>5. q \in Levels /\ popped'[q] # popped[q]
        BY <2>4 DEF Background!Priorities, Levels
    <2>6. q = p
        BY <1>0, <2>2, <2>5
    <2>7. Obtained = popped'[p][Len(popped'[p])]
        BY <1>2, <2>6 DEF Obtained
    <2>8. Obtained = Head(queues[p])
        BY <1>0, <2>3, <2>4, <2>7
    <2> QED
        BY <2>3, <2>8 DEF Items
<1> QED
    BY <1>1, <1>2
\* Every step of the dispatcher is a step of the workers' queue and one of the main queue,
\* or leaves them alone.
LEMMA ComponentSteps ==
    ASSUME DispatcherTypeOK, DispatcherNext
    PROVE  /\ Background!Next \/ UNCHANGED backgroundVars
           /\ Next \/ UNCHANGED calloopVars
<1>0. /\ dispatching \in [Callers -> 0 .. MaxItems] /\ running \in [Workers -> 0 .. MaxItems]
      /\ Runnables = 0 .. MaxItems /\ MaxItems \in Nat /\ Callers = Workers \cup {Main}
      /\ Level \in [1 .. MaxItems -> Levels]
    BY DispatcherConstants DEF DispatcherTypeOK, Background!TypeOK, Levels
<1>1. ASSUME NEW w \in Workers, SpawnWorker(w)
      PROVE Background!Next /\ UNCHANGED calloopVars
    BY <1>1 DEF SpawnWorker, Background!Next
<1>2. ASSUME NEW c \in Callers, DispatchPush(c)
      PROVE Background!Next /\ UNCHANGED calloopVars
    <2>1. dispatching[c] \in 1 .. MaxItems
        BY <1>0, <1>2 DEF DispatchPush
    <2>2. Level[dispatching[c]] \in Background!Priorities
        BY <1>0, <2>1 DEF Background!Priorities, Levels
    <2> QED
        BY <1>2, <2>2 DEF DispatchPush, Background!Next
<1>3. ASSUME NEW c \in Callers, DispatchOnMainThread(c)
      PROVE Next /\ UNCHANGED backgroundVars
    <2>1. (IF c = Main THEN 0 ELSE running[c]) \in Runnables
        BY <1>0
    <2> QED
        BY <1>3, <2>1 DEF DispatchOnMainThread, Next
<1>4. ASSUME NEW c \in Callers, MainPing(c) PROVE Next /\ UNCHANGED backgroundVars
    BY <1>4 DEF MainPing, Next
<1>5. ASSUME NEW w \in Workers, WorkerPops(w) \/ WorkerEnds(w) \/ RunPanics(w)
      PROVE Background!Next /\ UNCHANGED calloopVars
    BY <1>5 DEF WorkerPops, WorkerEnds, RunPanics, Background!Next
<1>6. ASSUME NEW w \in Workers, RunReturns(w) PROVE UNCHANGED <<backgroundVars, calloopVars>>
    BY <1>6 DEF RunReturns
<1>7. CASE NewReturns
    BY <1>7 DEF NewReturns, Background!Next
<1>8. CASE MainLoop
    BY <1>8 DEF MainLoop, Next
<1>9. ASSUME NEW x \in Runnables, IdleRuns(x) PROVE UNCHANGED <<backgroundVars, calloopVars>>
    BY <1>9 DEF IdleRuns
<1>10. ASSUME NEW c \in Callers, Dispatch(c) PROVE Background!Next /\ UNCHANGED calloopVars
    BY <1>10 DEF Dispatch, Background!Next
<1>11. CASE DropMainSender \/ DropMainSenderInner
    BY <1>11 DEF DropMainSender, DropMainSenderInner, Next
<1>12. CASE DropBackgroundSender
    BY <1>12 DEF DropBackgroundSender, Background!Next
<1>13. Main \in Callers /\ Workers \subseteq Callers
    BY <1>0
<1> QED
    BY <1>1, <1>2, <1>3, <1>4, <1>5, <1>6, <1>7, <1>8, <1>9, <1>10, <1>11, <1>12, <1>13
       DEF DispatcherNext, Worker, MainThread

\* The tasks the workers run and the idle callbacks stay within the tasks dispatched.
LEMMA TaskTypeStep ==
    ASSUME DispatcherTypeOK, TypeOK', DispatcherNext
    PROVE  /\ running' \in [Workers -> 0 .. MaxItems] /\ idle' \subseteq Runnables
           /\ panicked' \subseteq 1 .. MaxItems
<1>0. /\ running \in [Workers -> 0 .. MaxItems] /\ idle \subseteq Runnables
      /\ panicked \subseteq 1 .. MaxItems /\ MaxItems \in Nat /\ ran' \subseteq Runnables
    BY DispatcherConstants DEF DispatcherTypeOK, TypeOK
<1>1. CASE UNCHANGED taskVars
    BY <1>0, <1>1 DEF taskVars
<1>2. ASSUME NEW w \in Workers, WorkerPops(w)
      PROVE /\ running' \in [Workers -> 0 .. MaxItems] /\ idle' \subseteq Runnables
            /\ panicked' \subseteq 1 .. MaxItems
    <2>1. Obtained \in 0 .. MaxItems
        BY <1>2, ObtainedType DEF WorkerPops, DispatcherTypeOK
    <2> QED
        BY <1>0, <1>2, <2>1 DEF WorkerPops
<1>3. ASSUME NEW w \in Workers, RunReturns(w) \/ RunPanics(w)
      PROVE /\ running' \in [Workers -> 0 .. MaxItems] /\ idle' \subseteq Runnables
            /\ panicked' \subseteq 1 .. MaxItems
    <2>1. CASE RunReturns(w)
        BY <1>0, <2>1 DEF RunReturns
    <2>2. CASE RunPanics(w)
        <3>1. running[w] \in 1 .. MaxItems
            BY <2>2 DEF RunPanics
        <3>2. running' = [running EXCEPT ![w] = 0] /\ idle' = idle
              /\ panicked' = panicked \cup {running[w]}
            BY <2>2 DEF RunPanics
        <3>3. running' \in [Workers -> 0 .. MaxItems]
            BY <1>0, <3>2
        <3>4. panicked' \subseteq 1 .. MaxItems
            BY <1>0, <3>1, <3>2
        <3> QED
            BY <1>0, <3>2, <3>3, <3>4
    <2> QED
        BY <1>3, <2>1, <2>2
<1>4. CASE MainLoop \/ \E x \in Runnables : IdleRuns(x)
    BY <1>0, <1>4 DEF MainLoop, IdleRuns
<1> QED
    BY <1>1, <1>2, <1>3, <1>4 DEF DispatcherNext, Worker, MainThread, SpawnWorker, WorkerEnds,
       MainPing, DispatchOnMainThread, DispatchPush, NewReturns, Dispatch, DropMainSender,
       DropMainSenderInner, DropBackgroundSender

IInv == DispatcherTypeOK /\ NoLostWakeup /\ PopAlwaysYields /\ NoStrandedRunnable

LEMMA InitIInv == DispatcherInit => IInv
<1> SUFFICES ASSUME DispatcherInit PROVE IInv
    OBVIOUS
<1>0. MaxItems \in Nat /\ Original \notin Workers
    BY DispatcherConstants
<1>1. TypeOK /\ NoStrandedRunnable
    BY DEF DispatcherInit, Init, TypeOK, NoStrandedRunnable
<1>2. PICK first \in Receivers :
          receiver = [r \in Receivers |-> IF r = first THEN "idle" ELSE "unborn"]
    BY DEF DispatcherInit, Background!Init, Receivers
<1>3. Cardinality(Receivers \ (Background!With("unborn") \cup Background!With("dropped"))) = 1
    <2>1. Receivers \ (Background!With("unborn") \cup Background!With("dropped")) = {first}
        BY <1>2 DEF Background!With, Receivers
    <2> QED
        BY <2>1, FS_Singleton
<1>4. <<>> \in Seq(Items)
    OBVIOUS
<1>5. Background!TypeOK
    <2>1. receiver \in [Receivers -> States]
        BY <1>2 DEF States
    <2>2. /\ queues \in [Levels -> Seq(Items)] /\ accepted \in [Levels -> Seq(Items)]
          /\ popped \in [Levels -> Seq(Items)]
        BY <1>4 DEF DispatcherInit, Background!Init, Background!Priorities, Levels
    <2>3. unwrapped_none \in BOOLEAN
        BY DEF DispatcherInit, Background!Init
    <2> QED
        BY <1>0, <1>3, <2>1, <2>2, <2>3, SameCardinality DEF DispatcherInit, Background!Init,
           Background!TypeOK, Background!Priorities, Background!Items, Receivers, Items, Levels,
           States
<1>6. DispatcherTypeOK
    BY <1>0, <1>1, <1>5 DEF DispatcherInit, DispatcherTypeOK
<1>7. NoLostWakeup
    BY <1>2 DEF NoLostWakeup, Background!NoLostWakeup, Background!With, Receivers
<1>8. PopAlwaysYields
    BY DEF DispatcherInit, Background!Init, PopAlwaysYields, Background!PopAlwaysYields
<1> QED
    BY <1>1, <1>6, <1>7, <1>8 DEF IInv

LEMMA StepIInv == IInv /\ [DispatcherNext]_dispatcherVars => IInv'
<1> SUFFICES ASSUME IInv, [DispatcherNext]_dispatcherVars PROVE IInv'
    OBVIOUS
<1>0. Background!TypeOK /\ TypeOK
    BY DEF IInv, DispatcherTypeOK
<1>1. UNCHANGED backgroundVars => Background!TypeOK' /\ NoLostWakeup' /\ PopAlwaysYields'
    <2> SUFFICES ASSUME UNCHANGED backgroundVars
                 PROVE Background!TypeOK' /\ NoLostWakeup' /\ PopAlwaysYields'
        OBVIOUS
    <2>1. \A s \in States : Background!With(s)' = Background!With(s)
        BY DEF backgroundVars, Background!With
    <2>2. Background!TypeOK'
        BY <1>0, <2>1 DEF backgroundVars, Background!TypeOK, States
    <2>3. Background!Stored' = Background!Stored
        BY DEF backgroundVars, Background!Stored
    <2>4. NoLostWakeup'
        BY <2>1, <2>3 DEF IInv, NoLostWakeup, Background!NoLostWakeup, States
    <2>5. PopAlwaysYields'
        BY DEF backgroundVars, IInv, PopAlwaysYields, Background!PopAlwaysYields
    <2> QED
        BY <2>2, <2>4, <2>5
<1>2. UNCHANGED calloopVars => TypeOK' /\ NoStrandedRunnable'
    BY <1>0 DEF calloopVars, IInv, TypeOK, NoStrandedRunnable
<1>3. CASE DispatcherNext
    <2>1. Background!TypeOK' /\ NoLostWakeup' /\ PopAlwaysYields'
        BY <1>0, <1>1, <1>3, ComponentSteps, BackgroundTypeStep, WakeupStep, YieldStep DEF IInv
    <2>2. TypeOK' /\ NoStrandedRunnable'
        BY <1>0, <1>2, <1>3, ComponentSteps, MainTypeStep, StrandedStep DEF IInv
    <2> QED
        BY <1>3, <2>1, <2>2, TaskTypeStep DEF IInv, DispatcherTypeOK
<1>4. CASE UNCHANGED dispatcherVars
    BY <1>1, <1>2, <1>4 DEF dispatcherVars, taskVars, IInv, DispatcherTypeOK
<1> QED
    BY <1>3, <1>4

LEMMA Invariant == DispatcherSpec => []IInv
BY InitIInv, StepIInv, PTL DEF DispatcherSpec
-------------------------------------------------------------------------------
\* The composed state is well typed: receiver_count is the number of receivers alive
\* through every clone, panic and return of a worker, and no task runs that was not sent.
THEOREM DispatcherTypeCorrect == DispatcherSpec => []DispatcherTypeOK
<1>1. IInv => DispatcherTypeOK
    BY DEF IInv
<1> QED
    BY Invariant, <1>1, PTL

\* While a worker sleeps in pop, every stored task has a woken worker on its way to it, for
\* any number of workers and whichever of them die of panics (send and recv, queue.rs).
THEOREM WakeupNeverLost == DispatcherSpec => []NoLostWakeup
<1>1. IInv => NoLostWakeup
    BY DEF IInv
<1> QED
    BY Invariant, <1>1, PTL

\* A blocking pop never unwraps None (pop, queue.rs:284): the die has stopped at some level
\* whenever a worker takes the lock of a queue with items.
THEOREM PopYields == DispatcherSpec => []PopAlwaysYields
<1>1. IInv => PopAlwaysYields
    BY DEF IInv
<1> QED
    BY Invariant, <1>1, PTL

\* However workers' sends interleave with the draining event loop, a runnable for the main
\* thread has a ping, a thread about to ping, or the draining loop on its way to it.
THEOREM NeverStranded == DispatcherSpec => []NoStrandedRunnable
<1>1. IInv => NoStrandedRunnable
    BY DEF IInv
<1> QED
    BY Invariant, <1>1, PTL

\* The dispatcher uses both queues only as their specifications allow: PriorityQueue's and
\* the safety part of CalloopQueue's (LinuxDispatcher::new, dispatch, dispatch_on_main_thread).
THEOREM QueuesUsedAsSpecified ==
    DispatcherSpec => Background!Spec /\ Init /\ [][Next]_calloopVars
<1>1. DispatcherInit => Background!Init /\ Init
    BY DEF DispatcherInit
<1>2. IInv /\ [DispatcherNext]_dispatcherVars =>
          [Background!Next]_(Background!queueVars) /\ [Next]_calloopVars
    <2>1. UNCHANGED backgroundVars => UNCHANGED Background!queueVars
        BY DEF backgroundVars, Background!queueVars
    <2>2. IInv => DispatcherTypeOK
        BY DEF IInv
    <2> QED
        BY <2>1, <2>2, ComponentSteps DEF dispatcherVars
<1> QED
    BY Invariant, <1>1, <1>2, PTL DEF DispatcherSpec, Background!Spec

-------------------------------------------------------------------------------
(* The ingress: how calls nest, where work is and who comes back for it.     *)

\* Who has the queue: a drain, or an input that opened the barrier.
Owns(f) == f.kind = "drain" \/ (f.kind = "input" /\ f.flag)

On(s, kind) == \E i \in 1 .. Len(s) : s[i].kind = kind
Root(s) == \E i \in 1 .. Len(s) : s[i].kind = "input" /\ s[i].flag

\* What each call is nested in.
NestedIn(s) ==
    \A i \in 1 .. Len(s) :
        /\ s[i].kind = "command" => i > 1 /\ s[i - 1].kind = "drain"
        /\ s[i].kind = "critical" => i > 1 /\ s[i - 1].kind = "converge"
        /\ s[i].kind = "drain" /\ s[i].flag => i > 1 /\ s[i - 1].kind = "converge"
        /\ s[i].kind = "drain" => \A j \in 1 .. i - 1 : s[j].kind = "converge" => j = i - 1
        /\ s[i].kind = "deliver" => i > 1 /\ s[i - 1].kind \in {"drain", "input"}
        /\ s[i].kind = "input" /\ ~s[i].flag => \E j \in 1 .. i - 1 : s[j].kind = "command"
        /\ s[i].kind = "input" /\ s[i].stage = "prior" /\ i < Len(s) =>
              s[i + 1].kind = "deliver"
        /\ s[i].kind = "converge" =>
              s[i].sequence <= Budget /\ \A j \in 1 .. i - 1 : s[j].kind \notin Holding
        /\ s[i].kind = "input" => s[i].sequence <= MaxSequence

\* One call has the queue at a time, and one convergence runs.
OneAtATime(s) ==
    /\ \A i, j \in 1 .. Len(s) : Owns(s[i]) /\ Owns(s[j]) => i = j
    /\ \A i, j \in 1 .. Len(s) : s[i].kind = "converge" /\ s[j].kind = "converge" => i = j

\* The phase says who has the queue.
PhaseOf(s, ph, conv) ==
    /\ ph = "command" <=> On(s, "command")
    /\ ph = "input" <=> Root(s)
    /\ ph = "draining" <=> On(s, "drain") /\ ~On(s, "command")
    /\ conv <=> On(s, "converge")

Nest(s) == NestedIn(s) /\ OneAtATime(s)
Nesting == IngressTypeOK /\ Nest(stack) /\ PhaseOf(stack, phase, converging)

\* The work a call in progress has taken and not settled yet.
Carries(f) ==
    f.kind \in {"borrow", "deliver", "command"} \/ (f.kind = "input" /\ f.stage = "prior")
Held(s) == {s[i].sequence : i \in {j \in 1 .. Len(s) : Carries(s[j])}} \ {0}

SequencesOf(work, kinds) ==
    {work[i].sequence : i \in {j \in 1 .. Len(work) : work[j].kind \in kinds}}

\* Sequences grow along the queue, from there to the staged callbacks, and on.
Ascends(work) ==
    \A i, j \in 1 .. Len(work) : i < j => work[i].sequence < work[j].sequence
Grows(s) == \A i, j \in 1 .. Len(s) : i < j => s[i] < s[j]
Ordered ==
    /\ Ascends(pending) /\ Grows(staged)
    /\ \A m \in In(pending), n \in Range(staged) : m < n
    /\ \A n \in In(pending) \cup Range(staged) \cup Held(stack) : n < next_sequence

\* A sequence is in one place only, and its disposition is open while it is in one.
HeldOnce(s) ==
    \A i, j \in 1 .. Len(s) :
        Carries(s[i]) /\ Carries(s[j]) /\ s[i].sequence = s[j].sequence =>
            i = j \/ s[i].sequence = 0
Accounted ==
    /\ HeldOnce(stack)
    /\ \A n \in Held(stack) : n \notin In(pending) /\ n \notin Range(staged)
    /\ \A n \in Reservable :
          settled[n] = "pending" <=> n \in In(pending) \cup Range(staged) \cup Held(stack)

\* A completion is asked for behind the fence, once; the end of the queue leaves nothing.
CompletionFenced ==
    /\ SequencesOf(pending, Critical) # {} => fenced
    /\ \A m, n \in SequencesOf(pending, Critical) : m = n
    /\ terminated => pending = <<>> /\ staged = <<>>

\* The inputs at a barrier.
Waits(s) ==
    {s[i].sequence : i \in {j \in 1 .. Len(s) : s[j].kind = "input" /\ s[j].stage = "prior"}}

\* What the handler that started last has behind it.
HandledFirst ==
    /\ handled < next_sequence
    /\ \A n \in SequencesOf(pending, Events) \cup Range(staged) : n > handled
    /\ \A w \in Waits(stack) : w > handled /\ \A n \in Range(staged) : n > w

Accounts == Ordered /\ Accounted /\ CompletionFenced /\ HandledFirst

\* A call whose end converges, or schedules what will.
Releases(s) == \E k \in {"borrow", "lease", "released"} : On(s, k)

\* A blocked queue has a recovery scheduled, or such a call.
BlockedOwed ==
    phase = "blocked" =>
        ~terminated /\ ~converging /\ (unwind_recovery_scheduled \/ Releases(stack))

\* Queued work has a wake, a scheduled recovery or convergence, or such a call.
WorkOwed ==
    phase = "idle" /\ pending # <<>> =>
        \/ scheduled_wake \/ post_borrow_convergence_scheduled \/ converging
        \/ unwind_recovery_scheduled \/ Releases(stack)
        \/ TopIs("work") /\ Top.stage = "none"

\* Staged callbacks have a token, or one is about to be sent.
StagedOwed == staged # <<>> => token \/ stager = "send"

Owed == BlockedOwed /\ WorkOwed /\ StagedOwed
-------------------------------------------------------------------------------
(* Sequences.                                                                *)

LEMMA FrontOf ==
    ASSUME NEW S, NEW s \in Seq(S), s # <<>>
    PROVE  /\ Len(s) \in Nat \ {0} /\ Front(s) \in Seq(S) /\ Len(Front(s)) = Len(s) - 1
           /\ \A i \in 1 .. Len(s) - 1 : Front(s)[i] = s[i]
           /\ Last(s) = s[Len(s)] /\ s[Len(s)] \in S
           /\ (Front(s) = <<>> <=> Len(s) = 1)
<1>1. Len(s) \in Nat \ {0}
    OBVIOUS
<1>2. PICK m \in Nat : m = Len(s) - 1
    BY <1>1
<1>3. Front(s) = SubSeq(s, 1, m)
    BY <1>2 DEF Front
<1>4. /\ SubSeq(s, 1, m) \in Seq(S) /\ Len(SubSeq(s, 1, m)) = m
      /\ \A i \in 1 .. m : SubSeq(s, 1, m)[i] = s[i]
    <2>1. \A i \in 1 .. m : s[i] \in S
        BY <1>1, <1>2
    <2> QED
        BY <1>1, <1>2, <2>1
<1>5. Last(s) = s[Len(s)] /\ s[Len(s)] \in S
    BY <1>1 DEF Last
<1>6. \A t \in Seq(S) : t = <<>> <=> Len(t) = 0
    OBVIOUS
<1>7. Front(s) = <<>> <=> Len(s) = 1
    <2>1. Front(s) \in Seq(S) /\ Len(Front(s)) = m
        BY <1>3, <1>4
    <2>2. Front(s) = <<>> <=> m = 0
        BY <1>6, <2>1
    <2> QED
        BY <1>1, <1>2, <2>2
<1> QED
    BY <1>1, <1>2, <1>3, <1>4, <1>5, <1>7

LEMMA AppendOf ==
    ASSUME NEW S, NEW s \in Seq(S), NEW e \in S
    PROVE  /\ Len(s) \in Nat /\ Append(s, e) \in Seq(S) /\ Len(Append(s, e)) = Len(s) + 1
           /\ \A i \in 1 .. Len(s) : Append(s, e)[i] = s[i]
           /\ Append(s, e)[Len(s) + 1] = e
           /\ Append(s, e) # <<>> /\ Last(Append(s, e)) = e /\ Front(Append(s, e)) = s
<1>1. /\ Len(s) \in Nat /\ Append(s, e) \in Seq(S) /\ Len(Append(s, e)) = Len(s) + 1
      /\ \A i \in 1 .. Len(s) : Append(s, e)[i] = s[i]
      /\ Append(s, e)[Len(s) + 1] = e
    OBVIOUS
<1>2. Append(s, e) # <<>>
    BY <1>1
<1>3. Last(Append(s, e)) = e
    BY <1>1 DEF Last
<1>t. PICK t \in Seq(S) : t = Append(s, e)
    BY <1>1
<1>f. /\ Front(t) \in Seq(S) /\ Len(Front(t)) = Len(t) - 1
      /\ \A i \in 1 .. Len(t) - 1 : Front(t)[i] = t[i]
    BY <1>2, <1>t, FrontOf
<1>4. Front(Append(s, e)) \in Seq(S) /\ Len(Front(Append(s, e))) = Len(s)
    BY <1>1, <1>t, <1>f
<1>5. \A i \in 1 .. Len(s) : Front(Append(s, e))[i] = s[i]
    BY <1>1, <1>t, <1>f
<1>6. Front(Append(s, e)) = s
    BY <1>4, <1>5
<1> QED
    BY <1>1, <1>2, <1>3, <1>6

\* Pushing two frames is pushing the one and then the other.
LEMMA PushTwo ==
    ASSUME NEW S, NEW s \in Seq(S), NEW e \in S, NEW f \in S
    PROVE  /\ Append(s, e) \o <<f>> = Append(Append(s, e), f)
           /\ s \o <<e, f>> = Append(Append(s, e), f)
           /\ s \o <<f>> = Append(s, f)
OBVIOUS

\* Changing the last element is replacing it.
LEMMA ChangeLast ==
    ASSUME NEW S, NEW s \in Seq(S), s # <<>>, NEW e \in S
    PROVE  [s EXCEPT ![Len(s)] = e] = Append(Front(s), e)
<1> DEFINE a == [s EXCEPT ![Len(s)] = e]
           b == Append(Front(s), e)
<1>1. /\ Len(s) \in Nat \ {0} /\ Front(s) \in Seq(S) /\ Len(Front(s)) = Len(s) - 1
      /\ \A i \in 1 .. Len(s) - 1 : Front(s)[i] = s[i]
    BY FrontOf
<1>2. /\ b \in Seq(S) /\ Len(b) = Len(s) /\ b[Len(s)] = e
      /\ \A i \in 1 .. Len(s) - 1 : b[i] = s[i]
    <2>1. /\ Append(Front(s), e) \in Seq(S) /\ Len(Append(Front(s), e)) = Len(Front(s)) + 1
          /\ \A i \in 1 .. Len(Front(s)) : Append(Front(s), e)[i] = Front(s)[i]
          /\ Append(Front(s), e)[Len(Front(s)) + 1] = e
        BY <1>1, AppendOf
    <2> QED
        BY <1>1, <2>1
<1>3. a \in Seq(S) /\ Len(a) = Len(s) /\ \A i \in 1 .. Len(s) : a[i] = IF i = Len(s) THEN e ELSE s[i]
    BY <1>1
<1> HIDE DEF a, b
<1>4. \A i \in 1 .. Len(s) : a[i] = b[i]
    BY <1>1, <1>2, <1>3
<1>5. a = b
    BY <1>2, <1>3, <1>4
<1> QED
    BY <1>5 DEF a, b
-------------------------------------------------------------------------------
(* The stack: what may be called where.                                      *)

CanSit(s, f) ==
    /\ f.kind = "command" => s # <<>> /\ Last(s).kind = "drain"
    /\ f.kind = "critical" => s # <<>> /\ Last(s).kind = "converge"
    /\ f.kind = "drain" => /\ f.flag => s # <<>> /\ Last(s).kind = "converge"
                           /\ On(s, "converge") => Last(s).kind = "converge"
    /\ f.kind = "deliver" => s # <<>> /\ Last(s).kind \in {"drain", "input"}
    /\ f.kind = "input" /\ ~f.flag => On(s, "command")
    /\ f.kind = "converge" => /\ f.sequence <= Budget /\ ~On(s, "converge")
                              /\ \A k \in Holding : ~On(s, k)
    /\ f.kind = "input" => f.sequence <= MaxSequence
    /\ Owns(f) => ~On(s, "drain") /\ ~Root(s)
    /\ s # <<>> /\ Last(s).kind = "input" /\ Last(s).stage = "prior" => f.kind = "deliver"

LEMMA PushNest ==
    ASSUME NEW s \in Seq(Frames), NEW f \in Frames, Nest(s), CanSit(s, f)
    PROVE  /\ Append(s, f) \in Seq(Frames) /\ Nest(Append(s, f))
           /\ \A k : On(Append(s, f), k) <=> On(s, k) \/ f.kind = k
           /\ Root(Append(s, f)) <=> Root(s) \/ (f.kind = "input" /\ f.flag)
<1> DEFINE t == Append(s, f)
           n == Len(s) + 1
<1>1. /\ Len(s) \in Nat /\ t \in Seq(Frames) /\ Len(t) = n
      /\ \A i \in 1 .. Len(s) : t[i] = s[i]
      /\ t[n] = f
    BY AppendOf
<1>s. s # <<>> => Last(s) = s[Len(s)] /\ Len(s) \in 1 .. Len(s)
    BY FrontOf
<1>i. \A i \in 1 .. n : i = n \/ i \in 1 .. Len(s)
    BY <1>1
<1>n. n \in 1 .. n /\ \A i \in 1 .. Len(s) : i \in 1 .. n
    BY <1>1
<1> HIDE DEF t, n
<1>2. \A k : On(t, k) <=> On(s, k) \/ f.kind = k
    BY <1>1, <1>i, <1>n DEF On
<1>3. Root(t) <=> Root(s) \/ (f.kind = "input" /\ f.flag)
    BY <1>1, <1>i, <1>n DEF Root
<1>4. NestedIn(t)
    <2>1. SUFFICES ASSUME NEW i \in 1 .. n
          PROVE  /\ t[i].kind = "command" => i > 1 /\ t[i - 1].kind = "drain"
                 /\ t[i].kind = "critical" => i > 1 /\ t[i - 1].kind = "converge"
                 /\ t[i].kind = "drain" /\ t[i].flag => i > 1 /\ t[i - 1].kind = "converge"
                 /\ t[i].kind = "drain" => \A j \in 1 .. i - 1 : t[j].kind = "converge" => j = i - 1
                 /\ t[i].kind = "deliver" => i > 1 /\ t[i - 1].kind \in {"drain", "input"}
                 /\ t[i].kind = "input" /\ ~t[i].flag => \E j \in 1 .. i - 1 : t[j].kind = "command"
                 /\ t[i].kind = "input" /\ t[i].stage = "prior" /\ i < n => t[i + 1].kind = "deliver"
                 /\ t[i].kind = "converge" =>
                       t[i].sequence <= Budget /\ \A j \in 1 .. i - 1 : t[j].kind \notin Holding
                 /\ t[i].kind = "input" => t[i].sequence <= MaxSequence
        BY <1>1 DEF NestedIn
    <2>2. CASE i \in 1 .. Len(s)
        <3>1. t[i] = s[i] /\ \A j \in 1 .. i - 1 : j \in 1 .. Len(s) /\ t[j] = s[j]
            BY <1>1, <2>2
        <3>2. i > 1 => i - 1 \in 1 .. i - 1
            BY <1>1, <2>2
        <3>3. /\ s[i].kind = "command" => i > 1 /\ s[i - 1].kind = "drain"
              /\ s[i].kind = "critical" => i > 1 /\ s[i - 1].kind = "converge"
              /\ s[i].kind = "drain" /\ s[i].flag => i > 1 /\ s[i - 1].kind = "converge"
              /\ s[i].kind = "drain" => \A j \in 1 .. i - 1 : s[j].kind = "converge" => j = i - 1
              /\ s[i].kind = "deliver" => i > 1 /\ s[i - 1].kind \in {"drain", "input"}
              /\ s[i].kind = "input" /\ ~s[i].flag => \E j \in 1 .. i - 1 : s[j].kind = "command"
              /\ s[i].kind = "input" /\ s[i].stage = "prior" /\ i < Len(s) =>
                    s[i + 1].kind = "deliver"
              /\ s[i].kind = "converge" =>
                    s[i].sequence <= Budget /\ \A j \in 1 .. i - 1 : s[j].kind \notin Holding
              /\ s[i].kind = "input" => s[i].sequence <= MaxSequence
            BY <2>2 DEF Nest, NestedIn
        <3>4. i < Len(s) => i + 1 \in 1 .. Len(s)
            BY <1>1, <2>2
        <3>5. i < n => i < Len(s) \/ i = Len(s)
            BY <1>1, <2>2 DEF n
        <3>6. t[i].kind = "input" /\ t[i].stage = "prior" /\ i < n => t[i + 1].kind = "deliver"
            <4>1. CASE i < Len(s)
                BY <1>1, <3>1, <3>3, <3>4, <4>1
            <4>2. CASE i = Len(s)
                <5>1. s # <<>> /\ Last(s) = s[i] /\ i + 1 = n
                    BY <1>1, <1>s, <2>2, <4>2 DEF n
                <5>2. s[i].kind = "input" /\ s[i].stage = "prior" => f.kind = "deliver"
                    BY <5>1 DEF CanSit
                <5> QED
                    BY <1>1, <3>1, <5>1, <5>2
            <4> QED
                BY <3>5, <4>1, <4>2
        <3>7. /\ s[i].kind = "input" /\ ~s[i].flag => \E j \in 1 .. i - 1 : t[j].kind = "command"
              /\ s[i].kind = "converge" => \A j \in 1 .. i - 1 : t[j].kind \notin Holding
              /\ s[i].kind = "drain" => \A j \in 1 .. i - 1 : t[j].kind = "converge" => j = i - 1
            BY <3>1, <3>3
        <3>8. i > 1 => t[i - 1] = s[i - 1]
            BY <3>1, <3>2
        <3> QED
            BY <3>1, <3>3, <3>6, <3>7, <3>8
    <2>3. CASE i = n
        <3>1. t[i] = f /\ i - 1 = Len(s) /\ ~(i < n) /\ \A j \in 1 .. Len(s) : t[j] = s[j]
            BY <1>1, <2>3 DEF n
        <3>2. s # <<>> => i > 1 /\ t[i - 1] = Last(s)
            BY <1>1, <1>s, <2>3, <3>1 DEF n
        <3>3. f.kind = "drain" => \A j \in 1 .. Len(s) : s[j].kind = "converge" => j = Len(s)
            <4>1. SUFFICES ASSUME f.kind = "drain", NEW j \in 1 .. Len(s), s[j].kind = "converge"
                           PROVE  j = Len(s)
                OBVIOUS
            <4>2. s # <<>> /\ On(s, "converge")
                BY <1>1, <4>1 DEF On
            <4>3. Last(s).kind = "converge"
                BY <4>1, <4>2 DEF CanSit
            <4> QED
                BY <1>s, <4>1, <4>2, <4>3 DEF Nest, OneAtATime
        <3>4. f.kind = "input" /\ ~f.flag => \E j \in 1 .. Len(s) : s[j].kind = "command"
            BY DEF CanSit, On
        <3>5. f.kind = "converge" => f.sequence <= Budget /\ \A j \in 1 .. Len(s) : s[j].kind \notin Holding
            BY DEF CanSit, On
        <3>6. /\ f.kind = "command" => s # <<>> /\ Last(s).kind = "drain"
              /\ f.kind = "critical" => s # <<>> /\ Last(s).kind = "converge"
              /\ f.kind = "drain" /\ f.flag => s # <<>> /\ Last(s).kind = "converge"
              /\ f.kind = "deliver" => s # <<>> /\ Last(s).kind \in {"drain", "input"}
              /\ f.kind = "input" => f.sequence <= MaxSequence
            BY DEF CanSit
        <3> QED
            BY <3>1, <3>2, <3>3, <3>4, <3>5, <3>6
    <2> QED
        BY <1>i, <2>2, <2>3
<1>5. OneAtATime(t)
    <2>1. \A i, j \in 1 .. Len(s) : Owns(s[i]) /\ Owns(s[j]) => i = j
        BY DEF Nest, OneAtATime
    <2>2. Owns(f) => \A i \in 1 .. Len(s) : ~Owns(s[i])
        BY DEF CanSit, Owns, On, Root
    <2>3. \A i, j \in 1 .. Len(s) : s[i].kind = "converge" /\ s[j].kind = "converge" => i = j
        BY DEF Nest, OneAtATime
    <2>4. f.kind = "converge" => \A i \in 1 .. Len(s) : s[i].kind # "converge"
        BY DEF CanSit, On
    <2>5. \A i, j \in 1 .. n : Owns(t[i]) /\ Owns(t[j]) => i = j
        BY <1>1, <1>i, <2>1, <2>2
    <2>6. \A i, j \in 1 .. n : t[i].kind = "converge" /\ t[j].kind = "converge" => i = j
        BY <1>1, <1>i, <2>3, <2>4
    <2> QED
        BY <1>1, <2>5, <2>6 DEF OneAtATime
<1> QED
    BY <1>1, <1>2, <1>3, <1>4, <1>5 DEF t, Nest

LEMMA PopNest ==
    ASSUME NEW s \in Seq(Frames), s # <<>>, Nest(s), NEW f, f = s[Len(s)]
    PROVE  /\ Front(s) \in Seq(Frames) /\ Nest(Front(s)) /\ CanSit(Front(s), f) /\ f \in Frames
           /\ \A k : On(s, k) <=> On(Front(s), k) \/ f.kind = k
           /\ Root(s) <=> Root(Front(s)) \/ (f.kind = "input" /\ f.flag)
           /\ f.kind = "command" => ~On(Front(s), "command")
           /\ f.kind = "drain" => ~On(Front(s), "command")
           /\ Owns(f) => ~On(Front(s), "deliver") /\ ~On(Front(s), "input")
<1> DEFINE t == Front(s)
           n == Len(s)
<1>1. /\ n \in Nat \ {0} /\ t \in Seq(Frames) /\ Len(t) = n - 1
      /\ \A i \in 1 .. n - 1 : t[i] = s[i]
      /\ s[n] = f /\ f \in Frames
      /\ (t = <<>> <=> n = 1)
    BY FrontOf
<1>t. t # <<>> => Last(t) = s[n - 1] /\ n > 1 /\ n - 1 \in 1 .. n - 1
    <2>1. t # <<>> => Last(t) = t[n - 1] /\ n > 1 /\ n - 1 \in 1 .. n - 1
        BY <1>1, FrontOf
    <2> QED
        BY <1>1, <2>1
<1>i. \A i \in 1 .. n : i = n \/ i \in 1 .. n - 1
    BY <1>1
<1>n. n \in 1 .. n /\ \A i \in 1 .. n - 1 : i \in 1 .. n /\ i # n
    BY <1>1
<1>o. \A i, j \in 1 .. n : Owns(s[i]) /\ Owns(s[j]) => i = j
    BY DEF Nest, OneAtATime
<1>c. \A i, j \in 1 .. n : s[i].kind = "converge" /\ s[j].kind = "converge" => i = j
    BY DEF Nest, OneAtATime
<1>p. \A i \in 1 .. n :
        /\ s[i].kind = "command" => i > 1 /\ s[i - 1].kind = "drain"
        /\ s[i].kind = "critical" => i > 1 /\ s[i - 1].kind = "converge"
        /\ s[i].kind = "drain" /\ s[i].flag => i > 1 /\ s[i - 1].kind = "converge"
        /\ s[i].kind = "drain" => \A j \in 1 .. i - 1 : s[j].kind = "converge" => j = i - 1
        /\ s[i].kind = "deliver" => i > 1 /\ s[i - 1].kind \in {"drain", "input"}
        /\ s[i].kind = "input" /\ ~s[i].flag => \E j \in 1 .. i - 1 : s[j].kind = "command"
        /\ s[i].kind = "input" /\ s[i].stage = "prior" /\ i < n => s[i + 1].kind = "deliver"
        /\ s[i].kind = "converge" =>
              s[i].sequence <= Budget /\ \A j \in 1 .. i - 1 : s[j].kind \notin Holding
        /\ s[i].kind = "input" => s[i].sequence <= MaxSequence
    BY DEF Nest, NestedIn
<1> HIDE DEF t, n
<1>5. OneAtATime(t)
    <2>1. \A i, j \in 1 .. Len(t) : Owns(t[i]) /\ Owns(t[j]) => i = j
        BY <1>1, <1>n, <1>o
    <2>2. \A i, j \in 1 .. Len(t) : t[i].kind = "converge" /\ t[j].kind = "converge" => i = j
        BY <1>1, <1>n, <1>c
    <2> QED
        BY <2>1, <2>2 DEF OneAtATime
<1>2. \A k : On(s, k) <=> On(t, k) \/ f.kind = k
    BY <1>1, <1>i, <1>n DEF On, n
<1>3. Root(s) <=> Root(t) \/ (f.kind = "input" /\ f.flag)
    BY <1>1, <1>i, <1>n DEF Root, n
<1>4. NestedIn(t)
    <2>1. SUFFICES ASSUME NEW i \in 1 .. n - 1
          PROVE  /\ t[i].kind = "command" => i > 1 /\ t[i - 1].kind = "drain"
                 /\ t[i].kind = "critical" => i > 1 /\ t[i - 1].kind = "converge"
                 /\ t[i].kind = "drain" /\ t[i].flag => i > 1 /\ t[i - 1].kind = "converge"
                 /\ t[i].kind = "drain" => \A j \in 1 .. i - 1 : t[j].kind = "converge" => j = i - 1
                 /\ t[i].kind = "deliver" => i > 1 /\ t[i - 1].kind \in {"drain", "input"}
                 /\ t[i].kind = "input" /\ ~t[i].flag => \E j \in 1 .. i - 1 : t[j].kind = "command"
                 /\ t[i].kind = "input" /\ t[i].stage = "prior" /\ i < n - 1 =>
                       t[i + 1].kind = "deliver"
                 /\ t[i].kind = "converge" =>
                       t[i].sequence <= Budget /\ \A j \in 1 .. i - 1 : t[j].kind \notin Holding
                 /\ t[i].kind = "input" => t[i].sequence <= MaxSequence
        BY <1>1 DEF NestedIn
    <2>2. t[i] = s[i] /\ \A j \in 1 .. i - 1 : t[j] = s[j]
        BY <1>1
    <2>3. (i > 1 => t[i - 1] = s[i - 1]) /\ (i < n - 1 => i < n /\ t[i + 1] = s[i + 1])
        BY <1>1
    <2>4. /\ s[i].kind = "command" => i > 1 /\ s[i - 1].kind = "drain"
          /\ s[i].kind = "critical" => i > 1 /\ s[i - 1].kind = "converge"
          /\ s[i].kind = "drain" /\ s[i].flag => i > 1 /\ s[i - 1].kind = "converge"
          /\ s[i].kind = "drain" => \A j \in 1 .. i - 1 : s[j].kind = "converge" => j = i - 1
          /\ s[i].kind = "deliver" => i > 1 /\ s[i - 1].kind \in {"drain", "input"}
          /\ s[i].kind = "input" /\ ~s[i].flag => \E j \in 1 .. i - 1 : s[j].kind = "command"
          /\ s[i].kind = "input" /\ s[i].stage = "prior" /\ i < n => s[i + 1].kind = "deliver"
          /\ s[i].kind = "converge" =>
                s[i].sequence <= Budget /\ \A j \in 1 .. i - 1 : s[j].kind \notin Holding
          /\ s[i].kind = "input" => s[i].sequence <= MaxSequence
        BY <1>p, <1>n
    <2> QED
        BY <2>2, <2>3, <2>4
<1>6. CanSit(t, f)
    <2>1. /\ f.kind = "command" => n > 1 /\ s[n - 1].kind = "drain"
          /\ f.kind = "critical" => n > 1 /\ s[n - 1].kind = "converge"
          /\ f.kind = "drain" /\ f.flag => n > 1 /\ s[n - 1].kind = "converge"
          /\ f.kind = "drain" => \A j \in 1 .. n - 1 : s[j].kind = "converge" => j = n - 1
          /\ f.kind = "deliver" => n > 1 /\ s[n - 1].kind \in {"drain", "input"}
          /\ f.kind = "input" /\ ~f.flag => \E j \in 1 .. n - 1 : s[j].kind = "command"
          /\ f.kind = "converge" =>
                f.sequence <= Budget /\ \A j \in 1 .. n - 1 : s[j].kind \notin Holding
          /\ f.kind = "input" => f.sequence <= MaxSequence
        BY <1>p, <1>n, <1>1
    <2>2. n > 1 => t # <<>>
        BY <1>1
    <2>3. f.kind = "drain" /\ On(t, "converge") => t # <<>> /\ Last(t).kind = "converge"
        BY <1>1, <1>t, <2>1 DEF On
    <2>4. f.kind = "input" /\ ~f.flag => On(t, "command")
        BY <1>1, <2>1 DEF On
    <2>5. f.kind = "converge" => ~On(t, "converge") /\ \A k \in Holding : ~On(t, k)
        BY <1>1, <1>n, <1>c, <2>1 DEF On
    <2>6. Owns(f) => \A i \in 1 .. n - 1 : ~Owns(s[i])
        BY <1>1, <1>n, <1>o
    <2>7. Owns(f) => ~On(t, "drain") /\ ~Root(t)
        BY <1>1, <2>6 DEF On, Root, Owns
    <2>8. t # <<>> /\ Last(t).kind = "input" /\ Last(t).stage = "prior" => f.kind = "deliver"
        <3>1. n > 1 => n - 1 \in 1 .. n /\ n - 1 < n /\ (n - 1) + 1 = n
            BY <1>1
        <3>2. n > 1 /\ s[n - 1].kind = "input" /\ s[n - 1].stage = "prior" => s[(n - 1) + 1].kind = "deliver"
            BY <1>p, <3>1
        <3> QED
            BY <1>1, <1>t, <3>1, <3>2
    <2> QED
        BY <1>t, <2>1, <2>2, <2>3, <2>4, <2>5, <2>7, <2>8 DEF CanSit
<1>7. \A i \in 1 .. n : s[i].kind = "command" => i - 1 \in 1 .. n /\ Owns(s[i - 1])
    BY <1>1, <1>p DEF Owns
<1>8. f.kind = "command" => ~On(t, "command")
    <2>1. ASSUME f.kind = "command", NEW i \in 1 .. n - 1, s[i].kind = "command" PROVE FALSE
        <3>1. n - 1 \in 1 .. n /\ Owns(s[n - 1]) /\ i - 1 \in 1 .. n /\ Owns(s[i - 1])
            BY <1>1, <1>7, <1>n, <2>1
        <3>2. n - 1 = i - 1
            BY <1>o, <3>1
        <3> QED
            BY <1>1, <3>2
    <2> QED
        BY <1>1, <2>1 DEF On
<1>9. f.kind = "drain" => ~On(t, "command")
    <2>1. ASSUME f.kind = "drain", NEW i \in 1 .. n - 1, s[i].kind = "command" PROVE FALSE
        <3>1. i - 1 \in 1 .. n /\ Owns(s[i - 1]) /\ n \in 1 .. n /\ Owns(s[n])
            BY <1>1, <1>7, <1>n, <2>1 DEF Owns
        <3>2. n = i - 1
            BY <1>o, <3>1
        <3> QED
            BY <1>1, <3>2
    <2> QED
        BY <1>1, <2>1 DEF On
<1>10. Owns(f) => ~On(t, "input")
    <2>1. ASSUME Owns(f), NEW i \in 1 .. n - 1, s[i].kind = "input" PROVE FALSE
        <3>1. ~Owns(s[i]) /\ n \in 1 .. n /\ Owns(s[n])
            BY <1>1, <1>n, <1>o, <2>1
        <3>2. PICK j \in 1 .. i - 1 : s[j].kind = "command"
            BY <1>p, <1>n, <3>1, <2>1 DEF Owns
        <3>3. j \in 1 .. n /\ j - 1 # n
            BY <1>1
        <3>4. j - 1 \in 1 .. n /\ Owns(s[j - 1])
            BY <1>7, <3>2, <3>3
        <3> QED
            BY <1>o, <3>1, <3>3, <3>4
    <2> QED
        BY <1>1, <2>1 DEF On
<1>11. Owns(f) => ~On(t, "deliver")
    <2>1. ASSUME Owns(f), NEW i \in 1 .. n - 1, s[i].kind = "deliver" PROVE FALSE
        <3>1. i \in 1 .. n /\ i > 1 /\ s[i - 1].kind \in {"drain", "input"}
            BY <1>1, <1>n, <1>p, <2>1
        <3>2. i - 1 \in 1 .. n - 1 /\ i - 1 \in 1 .. n /\ i - 1 # n
            BY <1>1, <3>1
        <3>3. s[i - 1].kind # "input"
            BY <1>1, <1>10, <2>1, <3>2 DEF On
        <3>4. Owns(s[i - 1]) /\ n \in 1 .. n /\ Owns(s[n])
            BY <1>1, <1>n, <2>1, <3>1, <3>3 DEF Owns
        <3> QED
            BY <1>o, <3>2, <3>4
    <2> QED
        BY <1>1, <2>1 DEF On
<1> QED
    BY <1>1, <1>2, <1>3, <1>4, <1>5, <1>6, <1>8, <1>9, <1>10, <1>11 DEF t, Nest
\* Frames that have nothing to do with the phase.
Plain(f) ==
    f.kind \in {"borrow", "critical", "deliver", "lease", "work", "released"}
    \/ (f.kind = "input" /\ ~f.flag)

\* Where a call that depends on nothing may be made.
Open(s) == s # <<>> /\ Last(s).kind = "input" => Last(s).stage # "prior"

LEMMA PushPlain ==
    ASSUME NEW s \in Seq(Frames), Nest(s), NEW f \in Frames, Plain(f), CanSit(s, f),
           NEW ph, NEW conv, PhaseOf(s, ph, conv)
    PROVE  Append(s, f) \in Seq(Frames) /\ Nest(Append(s, f)) /\ PhaseOf(Append(s, f), ph, conv)
<1>1. /\ Append(s, f) \in Seq(Frames) /\ Nest(Append(s, f))
      /\ \A k : On(Append(s, f), k) <=> On(s, k) \/ f.kind = k
      /\ Root(Append(s, f)) <=> Root(s) \/ (f.kind = "input" /\ f.flag)
    BY PushNest
<1>2. /\ On(Append(s, f), "command") <=> On(s, "command")
      /\ On(Append(s, f), "drain") <=> On(s, "drain")
      /\ On(Append(s, f), "converge") <=> On(s, "converge")
      /\ Root(Append(s, f)) <=> Root(s)
    BY <1>1 DEF Plain
<1> QED
    BY <1>1, <1>2 DEF PhaseOf

LEMMA PopPlain ==
    ASSUME NEW s \in Seq(Frames), Nest(s), s # <<>>, Plain(s[Len(s)]),
           NEW ph, NEW conv, PhaseOf(s, ph, conv)
    PROVE  Front(s) \in Seq(Frames) /\ Nest(Front(s)) /\ PhaseOf(Front(s), ph, conv)
<1> DEFINE f == s[Len(s)]
<1>1. /\ Front(s) \in Seq(Frames) /\ Nest(Front(s))
      /\ \A k : On(s, k) <=> On(Front(s), k) \/ f.kind = k
      /\ Root(s) <=> Root(Front(s)) \/ (f.kind = "input" /\ f.flag)
    BY PopNest
<1>2. /\ On(Front(s), "command") <=> On(s, "command")
      /\ On(Front(s), "drain") <=> On(s, "drain")
      /\ On(Front(s), "converge") <=> On(s, "converge")
      /\ Root(Front(s)) <=> Root(s)
    BY <1>1 DEF Plain
<1> QED
    BY <1>1, <1>2 DEF PhaseOf

LEMMA OpenCall ==
    ASSUME NEW s, Open(s), NEW f, f.kind \in {"borrow", "lease", "work", "released"}
    PROVE  CanSit(s, f) /\ Plain(f)
BY DEF Open, CanSit, Plain, Owns

\* Below a call, except a delivery, nothing waits at a barrier.
LEMMA OpenBelow ==
    ASSUME NEW s \in Seq(Frames), Nest(s), s # <<>>, s[Len(s)].kind # "deliver"
    PROVE  Open(Front(s))
<1>1. CanSit(Front(s), s[Len(s)])
    BY PopNest
<1> QED
    BY <1>1 DEF CanSit, Open

LEMMA OpenTop ==
    ASSUME NEW s, s # <<>> => s[Len(s)].kind # "input"
    PROVE  Open(s)
BY DEF Open, Last

\* A call that goes on: its stage, its budget or what it holds may change.
LEMMA GoesOn ==
    ASSUME NEW s \in Seq(Frames), Nest(s), s # <<>>, NEW f, f = s[Len(s)],
           NEW g \in Frames, g.kind = f.kind, g.flag = f.flag \/ f.kind = "converge",
           f.kind = "converge" => g.sequence <= Budget,
           f.kind = "input" => g.sequence = f.sequence,
           NEW ph, NEW conv, PhaseOf(s, ph, conv)
    PROVE  LET t == Append(Front(s), g) IN
           /\ t \in Seq(Frames) /\ Nest(t) /\ PhaseOf(t, ph, conv) /\ t # <<>> /\ Last(t) = g
           /\ \A k : On(t, k) <=> On(s, k)
<1> DEFINE t == Append(Front(s), g)
<1>1. /\ Front(s) \in Seq(Frames) /\ Nest(Front(s)) /\ CanSit(Front(s), f)
      /\ \A k : On(s, k) <=> On(Front(s), k) \/ f.kind = k
      /\ Root(s) <=> Root(Front(s)) \/ (f.kind = "input" /\ f.flag)
    BY PopNest
<1>2. CanSit(Front(s), g)
    BY <1>1 DEF CanSit, Owns
<1>3. /\ t \in Seq(Frames) /\ Nest(t)
      /\ \A k : On(t, k) <=> On(Front(s), k) \/ g.kind = k
      /\ Root(t) <=> Root(Front(s)) \/ (g.kind = "input" /\ g.flag)
    BY <1>1, <1>2, PushNest
<1>4. t # <<>> /\ Last(t) = g
    BY <1>1, AppendOf
<1> HIDE DEF t
<1>5. \A k : On(t, k) <=> On(s, k)
    BY <1>1, <1>3
<1>6. Root(t) <=> Root(s)
    BY <1>1, <1>3
<1>7. PhaseOf(t, ph, conv)
    BY <1>5, <1>6 DEF PhaseOf
<1> QED
    BY <1>3, <1>4, <1>5, <1>7 DEF t

\* Whoever has the queue gives it back.
LEMMA PopOwner ==
    ASSUME NEW s \in Seq(Frames), Nest(s), s # <<>>, Owns(s[Len(s)]),
           NEW ph, NEW conv, PhaseOf(s, ph, conv), NEW next \in {"idle", "blocked"}
    PROVE  Front(s) \in Seq(Frames) /\ Nest(Front(s)) /\ PhaseOf(Front(s), next, conv)
<1> DEFINE f == s[Len(s)]
<1>1. /\ Front(s) \in Seq(Frames) /\ Nest(Front(s)) /\ CanSit(Front(s), f)
      /\ \A k : On(s, k) <=> On(Front(s), k) \/ f.kind = k
      /\ Root(s) <=> Root(Front(s)) \/ (f.kind = "input" /\ f.flag)
      /\ f.kind = "drain" => ~On(Front(s), "command")
    BY PopNest
<1>2. ~On(Front(s), "drain") /\ ~Root(Front(s))
    BY <1>1 DEF CanSit
<1>3. f.kind = "input" /\ f.flag => ~On(Front(s), "command")
    BY <1>1 DEF PhaseOf
<1>4. ~On(Front(s), "command")
    BY <1>1, <1>3 DEF Owns
<1>5. On(Front(s), "converge") <=> On(s, "converge")
    BY <1>1 DEF Owns
<1> QED
    BY <1>1, <1>2, <1>4, <1>5 DEF PhaseOf

LEMMA PopCommandFrame ==
    ASSUME NEW s \in Seq(Frames), Nest(s), s # <<>>, s[Len(s)].kind = "command",
           NEW ph, NEW conv, PhaseOf(s, ph, conv)
    PROVE  /\ Front(s) \in Seq(Frames) /\ Nest(Front(s)) /\ PhaseOf(Front(s), "draining", conv)
           /\ Front(s) # <<>> /\ Last(Front(s)).kind = "drain"
<1> DEFINE f == s[Len(s)]
<1>1. /\ Front(s) \in Seq(Frames) /\ Nest(Front(s)) /\ CanSit(Front(s), f)
      /\ \A k : On(s, k) <=> On(Front(s), k) \/ f.kind = k
      /\ Root(s) <=> Root(Front(s)) \/ (f.kind = "input" /\ f.flag)
      /\ ~On(Front(s), "command")
    BY PopNest
<1>2. Front(s) # <<>> /\ Last(Front(s)).kind = "drain"
    BY <1>1 DEF CanSit
<1>3. On(Front(s), "drain")
    BY <1>1, <1>2, FrontOf DEF On
<1>4. ~Root(Front(s))
    BY <1>1 DEF PhaseOf
<1> QED
    BY <1>1, <1>2, <1>3, <1>4 DEF PhaseOf

\* A drain begins where nobody has the queue.
LEMMA PushDrain ==
    ASSUME NEW s \in Seq(Frames), Nest(s), Open(s), NEW flag \in BOOLEAN,
           flag \/ On(s, "converge") => s # <<>> /\ Last(s).kind = "converge",
           NEW conv, PhaseOf(s, "idle", conv)
    PROVE  LET t == Append(s, Frame("drain", "run", 0, flag)) IN
           t \in Seq(Frames) /\ Nest(t) /\ PhaseOf(t, "draining", conv)
<1> DEFINE f == Frame("drain", "run", 0, flag)
<1>1. f \in Frames /\ f.kind = "drain" /\ f.flag = flag
    BY IngressConstants DEF Frame, Frames
<1>2. ~On(s, "command") /\ ~On(s, "drain") /\ ~Root(s)
    BY DEF PhaseOf
<1> HIDE DEF f
<1>3. CanSit(s, f)
    BY <1>1, <1>2 DEF CanSit, Open
<1>4. /\ Append(s, f) \in Seq(Frames) /\ Nest(Append(s, f))
      /\ \A k : On(Append(s, f), k) <=> On(s, k) \/ f.kind = k
      /\ Root(Append(s, f)) <=> Root(s) \/ (f.kind = "input" /\ f.flag)
    BY <1>1, <1>3, PushNest
<1>5. PhaseOf(Append(s, f), "draining", conv)
    BY <1>1, <1>2, <1>4 DEF PhaseOf
<1> QED
    BY <1>4, <1>5 DEF f

LEMMA PushCommandFrame ==
    ASSUME NEW s \in Seq(Frames), Nest(s), s # <<>>, s[Len(s)].kind = "drain",
           NEW f \in Frames, f.kind = "command",
           NEW ph, NEW conv, PhaseOf(s, ph, conv)
    PROVE  LET t == Append(s, f) IN
           t \in Seq(Frames) /\ Nest(t) /\ PhaseOf(t, "command", conv)
<1>1. /\ CanSit(Front(s), s[Len(s)]) /\ ~On(Front(s), "command")
      /\ \A k : On(s, k) <=> On(Front(s), k) \/ s[Len(s)].kind = k
      /\ Root(s) <=> Root(Front(s)) \/ (s[Len(s)].kind = "input" /\ s[Len(s)].flag)
    BY PopNest
<1>2. ~Root(s) /\ ~On(s, "command")
    BY <1>1 DEF CanSit, Owns
<1>3. CanSit(s, f)
    BY DEF CanSit, Owns, Last
<1>4. /\ Append(s, f) \in Seq(Frames) /\ Nest(Append(s, f))
      /\ \A k : On(Append(s, f), k) <=> On(s, k) \/ f.kind = k
      /\ Root(Append(s, f)) <=> Root(s) \/ (f.kind = "input" /\ f.flag)
    BY <1>3, PushNest
<1>5. PhaseOf(Append(s, f), "command", conv)
    BY <1>2, <1>4 DEF PhaseOf
<1> QED
    BY <1>4, <1>5

LEMMA PushRoot ==
    ASSUME NEW s \in Seq(Frames), Nest(s), Open(s), NEW f \in Frames, f.kind = "input", f.flag,
           f.sequence <= MaxSequence, NEW ph \in {"idle", "blocked"}, NEW conv, PhaseOf(s, ph, conv)
    PROVE  LET t == Append(s, f) IN
           t \in Seq(Frames) /\ Nest(t) /\ PhaseOf(t, "input", conv)
<1>1. ~On(s, "command") /\ ~On(s, "drain") /\ ~Root(s)
    BY DEF PhaseOf
<1>2. CanSit(s, f)
    BY <1>1 DEF CanSit, Owns, Open
<1>3. /\ Append(s, f) \in Seq(Frames) /\ Nest(Append(s, f))
      /\ \A k : On(Append(s, f), k) <=> On(s, k) \/ f.kind = k
      /\ Root(Append(s, f)) <=> Root(s) \/ (f.kind = "input" /\ f.flag)
    BY <1>2, PushNest
<1>4. PhaseOf(Append(s, f), "input", conv)
    BY <1>1, <1>3 DEF PhaseOf
<1> QED
    BY <1>3, <1>4
-------------------------------------------------------------------------------
(* Types.                                                                    *)

QueueTyped ==
    /\ next_sequence \in 1 .. MaxSequence + 1
    /\ staged \in Seq(Reservable) /\ stager \in {"idle", "send"} /\ token \in BOOLEAN
    /\ pending \in Seq(Envelopes)
    /\ settled \in [Reservable -> {"unused", "pending", "delivered", "coalesced", "closed",
                                   "failed", "rejected"}]
    /\ handled \in 0 .. MaxSequence
    /\ fenced \in BOOLEAN /\ terminated \in BOOLEAN

PhaseTyped ==
    /\ phase \in {"idle", "blocked", "draining", "command", "input"}
    /\ remaining \in 0 .. Budget
    /\ scheduled_wake \in BOOLEAN /\ stale \in Nat
    /\ unwind_recovery_scheduled \in BOOLEAN
    /\ post_borrow_convergence_scheduled \in BOOLEAN
    /\ requested \in BOOLEAN /\ converging \in BOOLEAN /\ retained \in BOOLEAN
    /\ unwinding \in BOOLEAN
    /\ panics \in 0 .. MaxUnwinds /\ borrows \in 0 .. MaxBorrows

LEMMA TypedParts == IngressTypeOK <=> QueueTyped /\ PhaseTyped /\ stack \in Seq(Frames)
BY DEF IngressTypeOK, QueueTyped, PhaseTyped

Dispositions ==
    {"unused", "pending", "delivered", "coalesced", "closed", "failed", "rejected"}

LEMMA SettledTyped ==
    ASSUME QueueTyped, NEW S, NEW d \in Dispositions
    PROVE  Settled(S, d) \in [Reservable -> Dispositions]
BY DEF QueueTyped, Settled, Dispositions

LEMMA ReservedTyped ==
    ASSUME QueueTyped
    PROVE  /\ StagedWork \in Seq(Envelopes) /\ Len(StagedWork) = Len(staged)
           /\ \A i \in 1 .. Len(staged) : StagedWork[i] = [sequence |-> staged[i], kind |-> "event"]
           /\ Imported \in Seq(Envelopes)
           /\ ImportSettled \in [Reservable -> Dispositions]
<1>1. Len(staged) \in Nat /\ \A i \in 1 .. Len(staged) : staged[i] \in Reservable
    BY DEF QueueTyped
<1>2. /\ StagedWork \in Seq(Envelopes) /\ Len(StagedWork) = Len(staged)
      /\ \A i \in 1 .. Len(staged) : StagedWork[i] = [sequence |-> staged[i], kind |-> "event"]
    BY <1>1 DEF StagedWork, Envelopes
<1>3. Imported \in Seq(Envelopes)
    BY <1>2 DEF QueueTyped, Imported
<1>4. ImportSettled \in [Reservable -> Dispositions]
    BY SettledTyped DEF ImportSettled, QueueTyped, Dispositions
<1> QED
    BY <1>2, <1>3, <1>4

LEMMA AcceptTyped ==
    ASSUME QueueTyped, NEW kind \in {"event", "frame", "command", "completion"}, Accept(kind),
           UNCHANGED <<stager, token, fenceVars>>, handled' \in 0 .. MaxSequence
    PROVE  QueueTyped'
<1> DEFINE work == Reserved.work
           next == Enqueued(work, [sequence |-> next_sequence, kind |-> kind])
<1>1. work \in Seq(Envelopes) /\ Reserved.staged = <<>> /\ Reserved.settled \in [Reservable -> Dispositions]
    BY ReservedTyped DEF Reserved
<1>2. next_sequence \in Reservable /\ next_sequence' = next_sequence + 1 /\ staged' = <<>>
    BY <1>1 DEF Accept
<1>3. next_sequence' \in 1 .. MaxSequence + 1
    BY <1>2, IngressConstants DEF Reservable
<1>4. [sequence |-> next_sequence, kind |-> kind] \in Envelopes
    BY <1>2 DEF Envelopes
<1>5. work # <<>> => Front(work) \in Seq(Envelopes)
    BY <1>1, FrontOf
<1>6. next \in Seq(Envelopes)
    <2>1. (IF Coalesces(work, kind) THEN Front(work) ELSE work) \in Seq(Envelopes)
        BY <1>1, <1>5 DEF Coalesces
    <2> HIDE DEF work
    <2> QED
        BY <1>4, <2>1, AppendOf DEF Enqueued
<1>7. pending' \in Seq(Envelopes)
    BY <1>1, <1>6 DEF Accept
<1>8. settled' \in [Reservable -> Dispositions]
    <2>1. CASE Refuses(kind)
        <3>1. settled' = [Reserved.settled EXCEPT ![next_sequence] = "closed"]
            BY <2>1 DEF Accept
        <3> QED
            BY <1>1, <3>1 DEF Dispositions
    <2>2. CASE ~Refuses(kind)
        <3>1. \A m \in Reservable : Reserved.settled[m] \in Dispositions
            BY <1>1
        <3>2. settled' = [m \in Reservable |->
                             IF m = next_sequence THEN "pending"
                             ELSE IF Coalesces(work, kind) /\ m = Last(work).sequence
                             THEN "coalesced"
                             ELSE Reserved.settled[m]]
            BY <2>2 DEF Accept
        <3> QED
            BY <3>1, <3>2 DEF Dispositions
    <2> QED
        BY <2>1, <2>2
<1> HIDE DEF work, next
<1> QED
    BY <1>2, <1>3, <1>7, <1>8 DEF QueueTyped, fenceVars, Dispositions
-------------------------------------------------------------------------------
(* The queue stays well typed.                                               *)

LEMMA NoSequences ==
    ASSUME NEW work \in Seq(Envelopes), NEW kinds, SequencesOf(work, kinds) = {}
    PROVE  \A i \in 1 .. Len(work) : work[i].kind \notin kinds
BY DEF SequencesOf

LEMMA KeptNone ==
    ASSUME NEW T, NEW s \in Seq(T), NEW wanted, \A i \in 1 .. Len(s) : s[i] \notin wanted
    PROVE  Kept(s, wanted) = <<>>
<1> DEFINE places == {i \in 1 .. Len(s) : s[i] \in wanted}
           Rank(i) == Cardinality({j \in places : j <= i})
           N == Cardinality(places)
           Pick(k) == s[CHOOSE i \in places : Rank(i) = k]
<1>1. places = {}
    OBVIOUS
<1>2. N = 0
    BY <1>1, FS_EmptySet
<1>3. Kept(s, wanted) = [k \in 1 .. N |-> Pick(k)]
    BY DEF Kept
<1> HIDE DEF places, N, Pick
<1>4. Kept(s, wanted) = [k \in 1 .. 0 |-> Pick(k)]
    BY <1>2, <1>3
<1> QED
    BY <1>4

\* Only a completion waits behind the fence, so the fence retires all that is queued.
LEMMA FenceEmpties ==
    ASSUME QueueTyped, CompletionFenced, ~fenced
    PROVE  /\ Kept(pending, {e \in Envelopes : e.kind \in Critical}) = <<>>
           /\ {e.sequence : e \in {f \in Range(pending) : f.kind \notin Critical}} = In(pending)
<1>1. SequencesOf(pending, Critical) = {} /\ pending \in Seq(Envelopes)
    BY DEF CompletionFenced, QueueTyped
<1>2. \A i \in 1 .. Len(pending) : pending[i].kind \notin Critical
    BY <1>1, NoSequences
<1>3. \A i \in 1 .. Len(pending) : pending[i] \notin {e \in Envelopes : e.kind \in Critical}
    BY <1>2
<1>4. Kept(pending, {e \in Envelopes : e.kind \in Critical}) = <<>>
    BY <1>1, <1>3, KeptNone
<1>5. DOMAIN pending = 1 .. Len(pending)
    BY <1>1
<1>6. {e.sequence : e \in {f \in Range(pending) : f.kind \notin Critical}} = In(pending)
    BY <1>2, <1>5 DEF Range, In
<1> QED
    BY <1>4, <1>6

LEMMA EnvelopeTail ==
    ASSUME NEW S, NEW s \in Seq(S), s # <<>>
    PROVE  /\ Len(s) \in Nat \ {0} /\ Tail(s) \in Seq(S) /\ Len(Tail(s)) = Len(s) - 1
           /\ Head(s) = s[1] /\ Head(s) \in S
           /\ \A i \in 1 .. Len(s) - 1 : Tail(s)[i] = s[i + 1]
<1>1. Len(s) \in Nat \ {0}
    OBVIOUS
<1>2. Tail(s) \in Seq(S) /\ Len(Tail(s)) = Len(s) - 1
    BY <1>1
<1>3. Head(s) = s[1] /\ s[1] \in S
    BY <1>1
<1>4. ASSUME NEW i \in 1 .. Len(s) - 1 PROVE Tail(s)[i] = s[i + 1]
    BY <1>1
<1> QED
    BY <1>1, <1>2, <1>3, <1>4

\* Taking out an element shifts what follows it.
LEMMA RemoveOf ==
    ASSUME NEW S, NEW s \in Seq(S), NEW i \in 1 .. Len(s)
    PROVE  /\ RemoveAt(s, i) \in Seq(S) /\ Len(RemoveAt(s, i)) = Len(s) - 1
           /\ \A j \in 1 .. Len(s) - 1 :
                 RemoveAt(s, i)[j] = IF j < i THEN s[j] ELSE s[j + 1]
<1> DEFINE a == SubSeq(s, 1, i - 1)
           b == SubSeq(s, i + 1, Len(s))
<1>0. Len(s) \in Nat /\ i \in 1 .. Len(s)
    OBVIOUS
<1>1. a \in Seq(S) /\ Len(a) = i - 1 /\ \A j \in 1 .. i - 1 : a[j] = s[j]
    OBVIOUS
<1>2. b \in Seq(S) /\ Len(b) = Len(s) - i /\ \A j \in 1 .. Len(s) - i : b[j] = s[i + j]
    OBVIOUS
<1>3. RemoveAt(s, i) = a \o b
    BY DEF RemoveAt
<1> HIDE DEF a, b
<1>4. a \o b \in Seq(S) /\ Len(a \o b) = Len(s) - 1
    <2>1. a \in Seq(S) /\ b \in Seq(S)
        BY <1>1, <1>2
    <2>2. a \o b \in Seq(S)
        BY <2>1
    <2>3. Len(a \o b) = Len(a) + Len(b)
        BY <2>1
    <2> QED
        BY <2>2, <2>3, <1>0, <1>1, <1>2
<1>5. ASSUME NEW j \in 1 .. Len(s) - 1
      PROVE  (a \o b)[j] = IF j < i THEN s[j] ELSE s[j + 1]
    <2>1. (a \o b)[j] = IF j <= Len(a) THEN a[j] ELSE b[j - Len(a)]
        <3>1. Len(a) \in Nat /\ Len(b) \in Nat /\ j \in 1 .. Len(a) + Len(b)
            BY <1>1, <1>2
        <3> QED
            BY <1>1, <1>2, <3>1
    <2>2. CASE j < i
        BY <2>1, <2>2, <1>1
    <2>3. CASE ~(j < i)
        <3>1. (a \o b)[j] = b[j - (i - 1)]
            BY <2>1, <2>3, <1>1
        <3>2. j - (i - 1) \in 1 .. Len(s) - i
            BY <2>3
        <3>3. b[j - (i - 1)] = s[i + (j - (i - 1))]
            BY <3>2, <1>2
        <3>4. i + (j - (i - 1)) = j + 1
            OBVIOUS
        <3> QED
            BY <3>1, <3>3, <3>4, <2>3
    <2> QED
        BY <2>2, <2>3
<1> QED
    BY <1>3, <1>4, <1>5

LEMMA Least ==
    ASSUME NEW S \in SUBSET Nat, S # {}
    PROVE  \E m \in S : \A k \in S : m <= k
<1> DEFINE Less == {ss \in Nat \X Nat : ss[1] < ss[2]}
<1>1. IsWellFoundedOn(Less, Nat)
    BY NatLessThanWellFounded, Zenon DEF OpToRel
<1>2. \A m, k \in Nat : <<k, m>> \in Less <=> k < m
    OBVIOUS
<1> HIDE DEF Less
<1>3. \E m \in S : \A k \in S : <<k, m>> \notin Less
    BY <1>1, WFMin, Zenon
<1>4. PICK m \in S : \A k \in S : <<k, m>> \notin Less
    BY <1>3
<1>5. \A k \in S : k \in Nat /\ ~(k < m)
    BY <1>2, <1>4
<1> QED
    BY <1>5, m \in Nat

LEMMA FirstPrior ==
    ASSUME PriorEvents # {}
    PROVE  \E i \in PriorEvents : \A k \in PriorEvents : i <= k
<1>1. PriorEvents \in SUBSET Nat
    BY DEF PriorEvents
<1> QED
    BY <1>1, Least

LEMMA TopFrame ==
    ASSUME Nesting, stack # <<>>
    PROVE  /\ Top \in Frames /\ Top = stack[Len(stack)] /\ Len(stack) \in Nat \ {0}
           /\ Below = Front(stack) /\ Below \in Seq(Frames) /\ Nest(Below) /\ CanSit(Below, Top)
BY FrontOf, PopNest DEF Top, Below, Nesting, IngressTypeOK

LEMMA QueueSteps == Nesting /\ CompletionFenced /\ [IngressNext]_ingressVars => QueueTyped'
<1> SUFFICES ASSUME Nesting, CompletionFenced, [IngressNext]_ingressVars PROVE QueueTyped'
    OBVIOUS
<1>q. QueueTyped /\ PhaseTyped /\ stack \in Seq(Frames)
    BY TypedParts DEF Nesting
<1> DEFINE queue == <<next_sequence, staged, stager, token, pending, handled, fenced, terminated>>
<1>same. ASSUME UNCHANGED <<queue, settled>> PROVE QueueTyped'
    BY <1>q, <1>same DEF QueueTyped
<1>settle. ASSUME UNCHANGED queue, NEW S, NEW d \in Dispositions, settled' = Settled(S, d)
           PROVE  QueueTyped'
    BY <1>q, <1>settle, SettledTyped DEF QueueTyped, Dispositions
<1>d. {"delivered", "failed", "rejected", "closed", "pending"} \subseteq Dispositions
    BY DEF Dispositions
<1>r. /\ Reserved.work \in Seq(Envelopes) /\ Reserved.staged = <<>>
      /\ Reserved.settled \in [Reservable -> Dispositions]
    BY <1>q, ReservedTyped DEF Reserved
<1>1. ASSUME NEW kind \in Kinds, Enqueue(kind) PROVE QueueTyped'
    <2>1. kind \in {"event", "frame", "command", "completion"}
        BY IngressConstants
    <2>2. Accept(kind) /\ UNCHANGED <<stager, token, fenceVars>> /\ handled' \in 0 .. MaxSequence
        BY <1>q, <1>1 DEF Enqueue, QueueTyped
    <2> QED
        BY <1>q, <2>1, <2>2, AcceptTyped
<1>2. ASSUME Stage PROVE QueueTyped'
    <2>1. next_sequence \in Reservable /\ next_sequence' \in 1 .. MaxSequence + 1
        BY <1>q, <1>2, IngressConstants DEF Stage, QueueTyped, Reservable
    <2>2. staged' \in Seq(Reservable)
        BY <1>q, <1>2, <2>1, AppendOf DEF Stage, QueueTyped
    <2>3. settled' \in [Reservable -> Dispositions]
        BY <1>q, <1>2, <1>d DEF Stage, QueueTyped, Dispositions
    <2> QED
        BY <1>q, <1>2, <2>1, <2>2, <2>3 DEF Stage, QueueTyped, Dispositions, queueVars,
           fenceVars
<1>3. ASSUME Send PROVE QueueTyped'
    BY <1>q, <1>3 DEF Send, QueueTyped, queueVars, fenceVars, historyVars
<1>4. ASSUME Import PROVE QueueTyped'
    <2>1. settled' \in [Reservable -> Dispositions] /\ pending' \in Seq(Envelopes)
          /\ staged' \in Seq(Reservable)
        <3>1. /\ Imported \in Seq(Envelopes) /\ ImportSettled \in [Reservable -> Dispositions]
              /\ pending \in Seq(Envelopes) /\ settled \in [Reservable -> Dispositions]
              /\ staged \in Seq(Reservable) /\ <<>> \in Seq(Reservable)
            BY <1>q, ReservedTyped DEF QueueTyped, Dispositions
        <3>2. \/ pending' = pending /\ staged' = staged /\ settled' = settled
              \/ pending' = Imported /\ staged' = <<>> /\ settled' = ImportSettled
            BY <1>4 DEF Import
        <3> QED
            BY <3>1, <3>2
    <2> QED
        BY <1>q, <1>4, <2>1 DEF Import, QueueTyped, Dispositions, fenceVars
<1>5. ASSUME BeginShutdown PROVE QueueTyped'
    <2>1. pending' = <<>>
        BY <1>q, <1>5, FenceEmpties DEF BeginShutdown
    <2>2. settled' \in [Reservable -> Dispositions]
        BY <1>q, <1>5, <1>d, SettledTyped DEF BeginShutdown
    <2> QED
        BY <1>q, <1>5, <2>1, <2>2 DEF BeginShutdown, QueueTyped, Dispositions, sequencerVars
<1>6. ASSUME Borrow \/ Panic \/ RunWake \/ RunStaleWake \/ RunRecovery \/ RunConvergence
      PROVE  QueueTyped'
    BY <1>6, <1>same DEF Borrow, Panic, RunWake, RunStaleWake, RunRecovery, RunConvergence,
       sequencerVars, queueVars, fenceVars, historyVars
<1>7. ASSUME ShouldClose PROVE QueueTyped'
    <2>1. CASE AppIdle /\ DeliversInline(Reserved.work)
        <3>1. next_sequence \in Reservable /\ next_sequence' \in 1 .. MaxSequence + 1
              /\ handled' \in 0 .. MaxSequence
            BY <1>q, <1>7, <2>1, IngressConstants DEF ShouldClose, QueueTyped, Reservable
        <3>2. settled' \in [Reservable -> Dispositions]
            BY <1>r, <1>7, <2>1, <1>d DEF ShouldClose
        <3> QED
            BY <1>q, <1>r, <1>7, <2>1, <3>1, <3>2
               DEF ShouldClose, QueueTyped, Dispositions, fenceVars
    <2>2. CASE ~(AppIdle /\ DeliversInline(Reserved.work))
        <3>1. Accept("event") /\ UNCHANGED <<stager, token, fenceVars>> /\ handled' \in 0 .. MaxSequence
            BY <1>q, <1>7, <2>2 DEF ShouldClose, QueueTyped
        <3> QED
            BY <1>q, <3>1, AcceptTyped
    <2> QED
        BY <2>1, <2>2
<1>8. ASSUME InputBegins PROVE QueueTyped'
    <2>1. next_sequence \in Reservable /\ next_sequence' \in 1 .. MaxSequence + 1
        BY <1>q, <1>8, IngressConstants DEF InputBegins, QueueTyped, Reservable
    <2>2. settled' \in [Reservable -> Dispositions]
        BY <1>r, <1>8, <1>d DEF InputBegins
    <2>3. staged' = <<>> /\ pending' \in Seq(Envelopes)
        BY <1>r, <1>8 DEF InputBegins
    <2>4. UNCHANGED <<stager, token, handled, fenced, terminated>>
        BY <1>8 DEF InputBegins, fenceVars
    <2> QED
        BY <1>q, <2>1, <2>2, <2>3, <2>4 DEF QueueTyped, Dispositions
<1>9. ASSUME BorrowReleased \/ ConvergePass \/ ConvergeCritical \/ CriticalEnds \/ ConvergeEnds
             \/ StartWork \/ FinishWork \/ FinishDrain \/ InputEnds \/ LeaseEnds
      PROVE  QueueTyped'
    BY <1>9, <1>same DEF BorrowReleased, ConvergePass, ConvergeCritical, CriticalEnds,
       ConvergeEnds, StartWork, FinishWork, FinishDrain, InputEnds, LeaseEnds, sequencerVars,
       queueVars, fenceVars, historyVars
<1>10. ASSUME DrainBlocks PROVE QueueTyped'
    BY <1>10, <1>same DEF DrainBlocks, PutBack, sequencerVars, queueVars, fenceVars, historyVars
<1>11. ASSUME BorrowEnds \/ DeliverEnds \/ CommandEnds PROVE QueueTyped'
    <2>1. UNCHANGED queue /\ settled' = Settled({Top.sequence}, "delivered")
        BY <1>11 DEF BorrowEnds, DeliverEnds, CommandEnds, sequencerVars, queueVars, fenceVars
    <2> QED
        BY <2>1, <1>settle, <1>d
<1>12. ASSUME InputRejected PROVE QueueTyped'
    <2>1. UNCHANGED queue /\ settled' = Settled({Top.sequence}, "rejected")
        BY <1>12 DEF InputRejected, sequencerVars, fenceVars
    <2> QED
        BY <2>1, <1>settle, <1>d
<1>13. ASSUME UnwindCode PROVE QueueTyped'
    <2>1. UNCHANGED queue
          /\ settled' = Settled(IF Top.kind \in {"borrow", "deliver"} THEN {Top.sequence} ELSE {},
                                "failed")
        BY <1>13 DEF UnwindCode, sequencerVars, queueVars, fenceVars
    <2> QED
        BY <2>1, <1>settle, <1>d
<1>14. ASSUME UnwindQueue PROVE QueueTyped'
    <2>1. UNCHANGED queue
          /\ settled' = Settled(IF Top.kind = "input" /\ Top.stage = "prior" THEN {Top.sequence}
                                ELSE {}, "failed")
        BY <1>14 DEF UnwindQueue, sequencerVars, fenceVars
    <2> QED
        BY <2>1, <1>settle, <1>d
<1>15. ASSUME Catch PROVE QueueTyped'
    <2>1. UNCHANGED queue
        BY <1>15 DEF Catch, sequencerVars, fenceVars
    <2>2. settled' = settled \/ settled' = Settled({Top.sequence}, "failed")
        BY <1>15 DEF Catch
    <2> QED
        BY <2>1, <2>2, <1>settle, <1>same, <1>d
<1>16. ASSUME DrainEvent \/ DrainCommand PROVE QueueTyped'
    <2>1. pending # <<>> /\ pending' = Tail(pending)
        BY <1>16 DEF DrainEvent, DrainCommand, Pops
    <2>2. pending' \in Seq(Envelopes) /\ FirstPending \in Envelopes
        BY <1>q, <2>1, EnvelopeTail DEF QueueTyped, FirstPending
    <2>3. handled' \in 0 .. MaxSequence
        <3>1. handled' = handled \/ handled' = FirstPending.sequence
            BY <1>16 DEF DrainEvent, DrainCommand, historyVars
        <3>2. FirstPending.sequence \in 1 .. MaxSequence
            BY <2>2 DEF Envelopes, Reservable
        <3> QED
            BY <1>q, <3>1, <3>2 DEF QueueTyped
    <2>4. UNCHANGED <<next_sequence, staged, stager, token, fenced, terminated, settled>>
        BY <1>16 DEF DrainEvent, DrainCommand, sequencerVars, fenceVars, historyVars
    <2> QED
        BY <1>q, <2>2, <2>3, <2>4 DEF QueueTyped
<1>17. ASSUME DrainCompletion PROVE QueueTyped'
    <2>1. Tail(pending) \in Seq(Envelopes)
        BY <1>q, <1>17, EnvelopeTail DEF DrainCompletion, Pops, QueueTyped
    <2>2. pending' \in Seq(Envelopes) /\ staged' \in Seq(Reservable)
          /\ fenced' \in BOOLEAN /\ terminated' \in BOOLEAN
        <3>1. <<>> \in Seq(Envelopes) /\ <<>> \in Seq(Reservable)
            OBVIOUS
        <3>2. \/ /\ pending' = <<>> /\ staged' = <<>> /\ fenced' = fenced /\ terminated' = TRUE
              \/ /\ pending' = Tail(pending) /\ staged' = staged /\ fenced' = FALSE
                 /\ terminated' = terminated
            BY <1>17 DEF DrainCompletion, Terminate
        <3> QED
            BY <1>q, <2>1, <3>1, <3>2 DEF QueueTyped
    <2>3. settled' \in [Reservable -> Dispositions]
        <3>1. \A n \in Reservable : settled[n] \in Dispositions
            BY <1>q DEF QueueTyped, Dispositions
        <3>2. Settled({FirstPending.sequence}, "delivered") \in [Reservable -> Dispositions]
            BY <1>q, <1>d, SettledTyped
        <3> QED
            BY <1>17, <1>d, <3>1, <3>2 DEF DrainCompletion
    <2> QED
        BY <1>q, <1>17, <2>2, <2>3 DEF DrainCompletion, QueueTyped, Dispositions
<1>18. ASSUME InputPrior PROVE QueueTyped'
    <2>1. PICK i \in 1 .. Len(pending) :
              pending' = RemoveAt(pending, i) /\ handled' = pending[i].sequence
        <3>1. \E i \in PriorEvents : \A k \in PriorEvents : i <= k
            BY <1>18, FirstPrior DEF InputPrior
        <3>2. \A i \in PriorEvents : i \in 1 .. Len(pending)
            BY DEF PriorEvents
        <3> QED
            BY <1>18, <3>1, <3>2 DEF InputPrior
    <2>2. pending' \in Seq(Envelopes) /\ pending[i] \in Envelopes
        BY <1>q, <2>1, RemoveOf DEF QueueTyped
    <2>3. handled' \in 0 .. MaxSequence
        BY <2>1, <2>2 DEF Envelopes, Reservable
    <2>4. UNCHANGED <<next_sequence, staged, stager, token, fenced, terminated, settled>>
        BY <1>18 DEF InputPrior, sequencerVars, fenceVars
    <2> QED
        BY <1>q, <2>2, <2>3, <2>4 DEF QueueTyped
<1>19. ASSUME InputHandled PROVE QueueTyped'
    <2>1. Top.sequence \in 0 .. MaxSequence
        <3>1. stack # <<>> /\ Top.kind = "input"
            BY <1>19 DEF InputHandled, AtBarrier, TopIs
        <3>2. Top \in Frames /\ CanSit(Below, Top)
            BY <3>1, TopFrame
        <3> QED
            BY <3>1, <3>2, IngressConstants DEF CanSit, Frames
    <2> QED
        BY <1>q, <1>19, <2>1 DEF InputHandled, QueueTyped, sequencerVars, queueVars, fenceVars
<1>20. ASSUME UNCHANGED ingressVars PROVE QueueTyped'
    BY <1>20, <1>same DEF ingressVars, sequencerVars, queueVars, fenceVars, historyVars
<1> QED
    BY <1>1, <1>2, <1>3, <1>4, <1>5, <1>6, <1>7, <1>8, <1>9, <1>10, <1>11, <1>12, <1>13, <1>14,
       <1>15, <1>16, <1>17, <1>18, <1>19, <1>20
       DEF IngressNext, Tasks, Running
-------------------------------------------------------------------------------
(* Calls stay nested as they should, and the phase says who has the queue.   *)

LEMMA FrameTyped ==
    ASSUME NEW kind \in {"borrow", "critical", "deliver", "command", "lease", "input", "drain",
                         "work", "released", "converge"},
           NEW stage \in {"run", "live", "stale", "none", "post", "prior", "after", "return",
                          "first", "critical", "second", "end"},
           NEW sequence \in 0 .. MaxSequence + Budget, NEW flag \in BOOLEAN
    PROVE  /\ Frame(kind, stage, sequence, flag) \in Frames
           /\ Frame(kind, stage, sequence, flag).kind = kind
           /\ Frame(kind, stage, sequence, flag).stage = stage
           /\ Frame(kind, stage, sequence, flag).sequence = sequence
           /\ Frame(kind, stage, sequence, flag).flag = flag
BY DEF Frame, Frames

\* A drain that ends with a shared budget hands it to the convergence below.
LEMMA AfterDrainNest ==
    ASSUME Nesting, stack # <<>>, Top.kind = "drain", NEW next \in {"idle", "blocked"}
    PROVE  /\ AfterDrain \in Seq(Frames) /\ Nest(AfterDrain) /\ PhaseOf(AfterDrain, next, converging)
           /\ \A k : On(AfterDrain, k) <=> On(Below, k)
           /\ AfterDrain = Below \/
                 \E g \in Frames : /\ Below # <<>> /\ Below[Len(Below)].kind = "converge"
                                   /\ g.kind = "converge" /\ AfterDrain = Append(Front(Below), g)
<1>1. /\ Top \in Frames /\ Top = stack[Len(stack)] /\ Len(stack) \in Nat \ {0}
      /\ Below = Front(stack) /\ Below \in Seq(Frames) /\ Nest(Below) /\ CanSit(Below, Top)
    BY TopFrame
<1>2. PhaseOf(Below, next, converging)
    BY <1>1, PopOwner DEF Nesting, IngressTypeOK, Owns
<1>3. CASE ~(Top.flag /\ Len(stack) > 1)
    BY <1>1, <1>2, <1>3 DEF AfterDrain
<1>4. CASE Top.flag /\ Len(stack) > 1
    <2>1. Below # <<>> /\ Last(Below).kind = "converge"
        BY <1>1, <1>4 DEF CanSit
    <2>2. /\ Len(Below) = Len(stack) - 1 /\ Len(Below) \in Nat \ {0}
          /\ Last(Below) = Below[Len(Below)] /\ Below[Len(Below)] \in Frames
        BY <1>1, <2>1, FrontOf DEF Nesting, IngressTypeOK
    <2>3. remaining \in 0 .. Budget /\ remaining \in 0 .. MaxSequence + Budget /\ remaining <= Budget
        BY IngressConstants DEF Nesting, IngressTypeOK
    <2> DEFINE g == [Below[Len(Below)] EXCEPT !.sequence = remaining]
    <2>4. g \in Frames /\ g.kind = "converge" /\ g.sequence <= Budget
        BY <2>1, <2>2, <2>3 DEF Frames
    <2>5. AfterDrain = [Below EXCEPT ![Len(Below)] = g]
        BY <1>1, <1>4, <2>2 DEF AfterDrain
    <2> HIDE DEF g
    <2>6. AfterDrain = Append(Front(Below), g)
        BY <1>1, <2>1, <2>4, <2>5, ChangeLast
    <2>7. /\ Append(Front(Below), g) \in Seq(Frames) /\ Nest(Append(Front(Below), g))
          /\ PhaseOf(Append(Front(Below), g), next, converging)
          /\ \A k : On(Append(Front(Below), g), k) <=> On(Below, k)
        BY <1>1, <1>2, <2>1, <2>2, <2>4, GoesOn
    <2> QED
        BY <2>1, <2>2, <2>4, <2>6, <2>7
<1> QED
    BY <1>3, <1>4

\* A call that depends on nothing may be made where callbacks may run.
LEMMA NestableOpen ==
    ASSUME Nestable
    PROVE  Open(stack) /\ ~unwinding /\ (stack # <<>> => Top.kind # "input")
BY DEF Nestable, Pumping, Open, Last, Top, Holding

StackFits == stack \in Seq(Frames) /\ Nest(stack) /\ PhaseOf(stack, phase, converging)

LEMMA FitsParts == Nesting <=> QueueTyped /\ PhaseTyped /\ StackFits
BY TypedParts DEF Nesting, StackFits

LEMMA WakeTyped == ASSUME NEW w, NEW p, scheduled_wake \in BOOLEAN
                   PROVE WakeFor(w, p) \in BOOLEAN
BY DEF WakeFor

LEMMA PhaseSteps == Nesting /\ [IngressNext]_ingressVars => PhaseTyped'
<1> SUFFICES ASSUME Nesting, [IngressNext]_ingressVars PROVE PhaseTyped'
    OBVIOUS
<1>q. PhaseTyped
    BY FitsParts
<1>w. /\ \A w, p : WakeFor(w, p) \in BOOLEAN
      /\ stale + 1 \in Nat /\ stale + 0 \in Nat /\ stale \in Nat
      /\ stale > 0 => stale - 1 \in Nat
      /\ remaining > 0 => remaining - 1 \in 0 .. Budget
      /\ 0 \in 0 .. Budget /\ Budget \in 0 .. Budget
    BY <1>q, WakeTyped, IngressConstants DEF PhaseTyped
<1>p. /\ panics < MaxUnwinds => panics + 1 \in 0 .. MaxUnwinds
      /\ borrows < MaxBorrows => borrows + 1 \in 0 .. MaxBorrows
    BY <1>q, IngressConstants DEF PhaseTyped
<1>t. /\ scheduled_wake \in BOOLEAN
      /\ stale + (IF scheduled_wake THEN 1 ELSE 0) \in Nat
      /\ \A b : stale + (IF b THEN 1 ELSE 0) \in Nat
    BY <1>q, <1>w DEF PhaseTyped
<1>same. ASSUME UNCHANGED <<phase, remaining, scheduled_wake, stale, releaseVars, boundVars>>,
                unwinding' \in BOOLEAN
         PROVE  PhaseTyped'
    BY <1>q, <1>same DEF PhaseTyped, releaseVars, boundVars
<1>1. ASSUME NEW kind \in Kinds, Enqueue(kind) PROVE PhaseTyped'
    <2>1. scheduled_wake' \in BOOLEAN
        BY <1>1, <1>w, <1>t DEF Enqueue, Accept
    <2> QED
        BY <1>q, <1>1, <2>1 DEF Enqueue, PhaseTyped, releaseVars, boundVars, stackVars
<1>2. ASSUME Stage \/ Send \/ BeginShutdown PROVE PhaseTyped'
    BY <1>q, <1>2, <1>same DEF Stage, Send, BeginShutdown, queueVars, stackVars, PhaseTyped
<1>3. ASSUME Import PROVE PhaseTyped'
    <2>1. scheduled_wake' \in BOOLEAN
        BY <1>3, <1>w, <1>t DEF Import
    <2> QED
        BY <1>q, <1>3, <2>1 DEF Import, PhaseTyped, releaseVars, boundVars, stackVars
<1>4. ASSUME Borrow \/ Panic PROVE PhaseTyped'
    <2>1. UNCHANGED <<phase, remaining, scheduled_wake, stale, releaseVars>>
        BY <1>4 DEF Borrow, Panic, queueVars
    <2>2. unwinding' \in BOOLEAN /\ panics' \in 0 .. MaxUnwinds /\ borrows' \in 0 .. MaxBorrows
        BY <1>q, <1>p, <1>4 DEF Borrow, Panic, PhaseTyped
    <2> QED
        BY <1>q, <2>1, <2>2 DEF PhaseTyped, releaseVars
<1>5. ASSUME RunWake \/ RunStaleWake \/ RunRecovery \/ RunConvergence PROVE PhaseTyped'
    <2>1. UNCHANGED <<phase, remaining, scheduled_wake, requested, converging, retained, unwinding,
                      panics, borrows>>
        BY <1>5 DEF RunWake, RunStaleWake, RunRecovery, RunConvergence, queueVars, releaseVars,
           boundVars
    <2>2. stale' = stale \/ (stale > 0 /\ stale' = stale - 1)
        BY <1>5 DEF RunWake, RunStaleWake, RunRecovery, RunConvergence, queueVars
    <2>3. /\ unwind_recovery_scheduled' \in {unwind_recovery_scheduled, FALSE}
          /\ post_borrow_convergence_scheduled' \in {post_borrow_convergence_scheduled, FALSE}
        BY <1>5 DEF RunWake, RunStaleWake, RunRecovery, RunConvergence, releaseVars
    <2>4. stale' \in Nat
        BY <1>w, <2>2
    <2>5. unwind_recovery_scheduled' \in BOOLEAN /\ post_borrow_convergence_scheduled' \in BOOLEAN
        BY <1>q, <2>3 DEF PhaseTyped
    <2> QED
        BY <1>q, <2>1, <2>4, <2>5 DEF PhaseTyped
<1>6. ASSUME ShouldClose PROVE PhaseTyped'
    <2>1. scheduled_wake' \in BOOLEAN
        BY <1>6, <1>w, <1>t DEF ShouldClose, Accept
    <2> QED
        BY <1>q, <1>6, <2>1 DEF ShouldClose, PhaseTyped, releaseVars, boundVars
<1>7. ASSUME InputBegins PROVE PhaseTyped'
    <2>1. stale' \in Nat /\ scheduled_wake' \in BOOLEAN
        BY <1>7, <1>w, <1>t DEF InputBegins
    <2>2. phase' \in {phase, "input"}
        BY <1>7 DEF InputBegins
    <2>3. UNCHANGED <<remaining, releaseVars, unwinding, boundVars>>
        BY <1>7 DEF InputBegins
    <2> QED
        BY <1>q, <2>1, <2>2, <2>3 DEF PhaseTyped, releaseVars, boundVars
<1>8. ASSUME BorrowEnds \/ CriticalEnds \/ FinishWork \/ DeliverEnds \/ LeaseEnds \/ InputHandled
      PROVE  PhaseTyped'
    BY <1>q, <1>8, <1>same DEF BorrowEnds, CriticalEnds, FinishWork, DeliverEnds, LeaseEnds,
       InputHandled, queueVars, PhaseTyped
<1>9. ASSUME BorrowReleased PROVE PhaseTyped'
    BY <1>q, <1>9 DEF BorrowReleased, PhaseTyped, boundVars
<1>10. ASSUME ConvergePass PROVE PhaseTyped'
    <2>1. stack # <<>> /\ Top.kind = "converge"
        BY <1>10 DEF ConvergePass, TopIs
    <2>2. Top \in Frames /\ CanSit(Below, Top)
        BY <2>1, TopFrame
    <2>3. Top.sequence \in 0 .. Budget
        BY <2>1, <2>2, IngressConstants DEF CanSit, Frames
    <2>4. /\ remaining' \in {remaining, Top.sequence} /\ phase' \in {phase, "draining"}
          /\ retained' = FALSE
          /\ UNCHANGED <<unwind_recovery_scheduled, post_borrow_convergence_scheduled, requested,
                         converging, unwinding, boundVars>>
        BY <1>10 DEF ConvergePass
    <2>5. scheduled_wake' \in BOOLEAN /\ stale' \in Nat
        BY <1>10, <1>t, <1>w DEF ConvergePass, TakeWake
    <2> QED
        BY <1>q, <2>3, <2>4, <2>5 DEF PhaseTyped, boundVars
<1>11. ASSUME ConvergeCritical PROVE PhaseTyped'
    <2>1. UNCHANGED <<phase, remaining, scheduled_wake, stale, unwind_recovery_scheduled,
                      post_borrow_convergence_scheduled, converging, retained, unwinding, panics>>
        BY <1>11 DEF ConvergeCritical, queueVars
    <2>2. requested' \in {requested, TRUE}
        BY <1>11 DEF ConvergeCritical
    <2>3. borrows' = borrows \/ (borrows < MaxBorrows /\ borrows' = borrows + 1)
        BY <1>11 DEF ConvergeCritical
    <2>4. borrows' \in 0 .. MaxBorrows
        BY <1>q, <1>p, <2>3 DEF PhaseTyped
    <2> QED
        BY <1>q, <2>1, <2>2, <2>4 DEF PhaseTyped
<1>12. ASSUME ConvergeEnds PROVE PhaseTyped'
    <2>1. scheduled_wake' \in BOOLEAN /\ stale' \in Nat /\ post_borrow_convergence_scheduled' \in BOOLEAN
        BY <1>q, <1>12, <1>t, <1>w DEF ConvergeEnds, TakeWake, PhaseTyped
    <2>2. unwinding' \in BOOLEAN
        BY <1>12 DEF ConvergeEnds
    <2> QED
        BY <1>q, <1>12, <2>1, <2>2 DEF ConvergeEnds, PhaseTyped, boundVars
<1>13. ASSUME StartWork PROVE PhaseTyped'
    <2>1. scheduled_wake' \in BOOLEAN /\ stale' \in Nat
        <3>1. \/ UNCHANGED <<scheduled_wake, stale>>
              \/ /\ scheduled_wake' = FALSE
                 /\ stale' = stale + (IF Top.stage = "none" /\ scheduled_wake THEN 1 ELSE 0)
              \/ scheduled_wake' = (scheduled_wake /\ Top.stage # "live") /\ stale' = stale
            BY <1>13 DEF StartWork, Postpone
        <3> QED
            BY <3>1, <1>t, <1>w
    <2>2. /\ remaining' \in {remaining, Budget} /\ phase' \in {phase, "draining"}
          /\ requested' \in {requested, TRUE}
          /\ UNCHANGED <<unwind_recovery_scheduled, post_borrow_convergence_scheduled, converging,
                         retained, unwinding, boundVars>>
        BY <1>13 DEF StartWork
    <2> QED
        BY <1>q, <1>w, <2>1, <2>2 DEF PhaseTyped, boundVars
<1>14. ASSUME FinishDrain \/ DrainBlocks PROVE PhaseTyped'
    <2>1. scheduled_wake' \in BOOLEAN /\ stale' \in Nat
        BY <1>14, <1>t, <1>w DEF FinishDrain, DrainBlocks, TakeWake
    <2>2. /\ phase' \in {"idle", "blocked"} /\ remaining' = 0
          /\ UNCHANGED <<releaseVars, unwinding, boundVars>>
        BY <1>14 DEF FinishDrain, DrainBlocks
    <2> QED
        BY <1>q, <1>w, <2>1, <2>2 DEF PhaseTyped, releaseVars, boundVars
<1>15. ASSUME DrainEvent \/ DrainCommand PROVE PhaseTyped'
    <2>1. /\ remaining > 0 /\ remaining' = remaining - 1
          /\ phase' \in {phase, "command"}
          /\ UNCHANGED <<scheduled_wake, stale, releaseVars, unwinding, boundVars>>
        BY <1>15 DEF DrainEvent, DrainCommand, Pops
    <2> QED
        BY <1>q, <1>w, <2>1 DEF PhaseTyped, releaseVars, boundVars
<1>16. ASSUME CommandEnds PROVE PhaseTyped'
    BY <1>q, <1>16 DEF CommandEnds, PhaseTyped, releaseVars, boundVars
<1>17. ASSUME DrainCompletion PROVE PhaseTyped'
    <2>1. scheduled_wake' \in BOOLEAN /\ stale' \in Nat /\ unwind_recovery_scheduled' \in BOOLEAN
        BY <1>q, <1>17, <1>t DEF DrainCompletion, Terminate, PhaseTyped
    <2> QED
        BY <1>q, <1>w, <1>17, <2>1 DEF DrainCompletion, Pops, PhaseTyped, stackVars, boundVars
<1>18. ASSUME InputPrior PROVE PhaseTyped'
    <2>1. remaining' \in 0 .. Budget
        BY <1>q, <1>w, <1>18 DEF InputPrior, PhaseTyped
    <2> QED
        BY <1>q, <1>18, <2>1 DEF InputPrior, PhaseTyped, releaseVars, boundVars
<1>19. ASSUME InputRejected \/ InputEnds PROVE PhaseTyped'
    <2>1. scheduled_wake' \in BOOLEAN /\ phase' \in {phase, "idle"}
        BY <1>19, <1>t, <1>w DEF InputRejected, InputEnds
    <2>2. UNCHANGED <<remaining, stale, releaseVars, unwinding, boundVars>>
        BY <1>19 DEF InputRejected, InputEnds
    <2> QED
        BY <1>q, <2>1, <2>2 DEF PhaseTyped, releaseVars, boundVars
<1>20. ASSUME UnwindCode PROVE PhaseTyped'
    <2>1. unwind_recovery_scheduled' \in BOOLEAN
        BY <1>20 DEF UnwindCode
    <2> QED
        BY <1>q, <1>20, <2>1 DEF UnwindCode, PhaseTyped, queueVars, boundVars
<1>21. ASSUME UnwindQueue PROVE PhaseTyped'
    <2>1. scheduled_wake' \in BOOLEAN /\ phase' \in {phase, "idle"} /\ remaining' \in {remaining, 0}
        BY <1>21, <1>t, <1>w DEF UnwindQueue
    <2>2. UNCHANGED <<stale, releaseVars, unwinding, boundVars>>
        BY <1>21 DEF UnwindQueue
    <2> QED
        BY <1>q, <1>w, <2>1, <2>2 DEF PhaseTyped, releaseVars, boundVars
<1>22. ASSUME Catch PROVE PhaseTyped'
    <2>1. phase' \in {phase, "draining"} /\ retained' \in {retained, TRUE}
        BY <1>22 DEF Catch
    <2> QED
        BY <1>q, <1>22, <2>1 DEF Catch, PhaseTyped, boundVars
<1>23. ASSUME UNCHANGED ingressVars PROVE PhaseTyped'
    BY <1>q, <1>23, <1>same DEF ingressVars, queueVars, stackVars, PhaseTyped
<1> QED
    BY <1>1, <1>2, <1>3, <1>4, <1>5, <1>6, <1>7, <1>8, <1>9, <1>10, <1>11, <1>12, <1>13, <1>14,
       <1>15, <1>16, <1>17, <1>18, <1>19, <1>20, <1>21, <1>22, <1>23
       DEF IngressNext, Tasks, Running
\* A change of a field of the last frame.
LEMMA TouchLast ==
    ASSUME NEW s \in Seq(Frames), s # <<>>
    PROVE  /\ [s EXCEPT ![Len(s)].stage = "return"] =
                 Append(Front(s), [s[Len(s)] EXCEPT !.stage = "return"])
           /\ [s EXCEPT ![Len(s)].flag = TRUE] =
                 Append(Front(s), [s[Len(s)] EXCEPT !.flag = TRUE])
           /\ [s[Len(s)] EXCEPT !.stage = "return"] \in Frames
           /\ [s[Len(s)] EXCEPT !.flag = TRUE] \in Frames
           /\ [s[Len(s)] EXCEPT !.stage = "return"].kind = s[Len(s)].kind
           /\ [s[Len(s)] EXCEPT !.stage = "return"].flag = s[Len(s)].flag
           /\ [s[Len(s)] EXCEPT !.stage = "return"].sequence = s[Len(s)].sequence
           /\ [s[Len(s)] EXCEPT !.flag = TRUE].kind = s[Len(s)].kind
           /\ [s[Len(s)] EXCEPT !.flag = TRUE].sequence = s[Len(s)].sequence
<1> DEFINE g == [s[Len(s)] EXCEPT !.stage = "return"]
           h == [s[Len(s)] EXCEPT !.flag = TRUE]
<1>1. s[Len(s)] \in Frames
    BY FrontOf
<1>2. /\ g \in Frames /\ g.kind = s[Len(s)].kind /\ g.flag = s[Len(s)].flag
      /\ g.sequence = s[Len(s)].sequence
      /\ h \in Frames /\ h.kind = s[Len(s)].kind /\ h.sequence = s[Len(s)].sequence
    BY <1>1 DEF Frames
<1>3. /\ [s EXCEPT ![Len(s)].stage = "return"] = [s EXCEPT ![Len(s)] = g]
      /\ [s EXCEPT ![Len(s)].flag = TRUE] = [s EXCEPT ![Len(s)] = h]
    OBVIOUS
<1> HIDE DEF g, h
<1>4. /\ [s EXCEPT ![Len(s)] = g] = Append(Front(s), g)
      /\ [s EXCEPT ![Len(s)] = h] = Append(Front(s), h)
    BY <1>2, ChangeLast
<1> QED
    BY <1>2, <1>3, <1>4 DEF g, h

\* The stages a frame goes through.
LEMMA TopGoesOn ==
    ASSUME NEW f \in Frames, NEW stage \in {"post", "after", "second"}
    PROVE  LET g == [f EXCEPT !.stage = stage] IN
           g \in Frames /\ g.kind = f.kind /\ g.flag = f.flag /\ g.sequence = f.sequence
           /\ g.stage = stage
BY DEF Frames

LEMMA NextStageTyped ==
    ASSUME Nesting, stack # <<>>
    PROVE  /\ NextStage \in Frames /\ NextStage.kind = Top.kind
           /\ NextStage.sequence = Top.sequence
<1>1. Top \in Frames /\ retained \in BOOLEAN
    BY TopFrame DEF Nesting, IngressTypeOK
<1>2. (Top.flag \/ retained) \in BOOLEAN
    OBVIOUS
<1>3. NextStage = [Top EXCEPT !.stage = IF Top.stage = "first" THEN "critical" ELSE "end",
                              !.flag = Top.flag \/ retained]
    BY DEF NextStage
<1>4. (IF Top.stage = "first" THEN "critical" ELSE "end") \in {"critical", "end"}
    OBVIOUS
<1> QED
    BY <1>1, <1>2, <1>3, <1>4 DEF Frames

LEMMA EnvelopesIn ==
    ASSUME NEW work \in Seq(Envelopes)
    PROVE  /\ \A i \in 1 .. Len(work) : work[i] \in Envelopes /\ work[i].sequence \in Reservable
           /\ work # <<>> => Head(work) \in Envelopes /\ Head(work).sequence \in Reservable
<1>1. \A i \in 1 .. Len(work) : work[i] \in Envelopes
    OBVIOUS
<1>2. work # <<>> => Head(work) \in Envelopes
    BY EnvelopeTail
<1>3. \A e \in Envelopes : e.sequence \in Reservable
    BY DEF Envelopes
<1> QED
    BY <1>1, <1>2, <1>3

LEMMA StackSteps == Nesting /\ [IngressNext]_ingressVars => StackFits'
<1> SUFFICES ASSUME Nesting, [IngressNext]_ingressVars PROVE StackFits'
    OBVIOUS
<1>s. /\ stack \in Seq(Frames) /\ Nest(stack) /\ PhaseOf(stack, phase, converging)
      /\ IngressTypeOK
    BY DEF Nesting, IngressTypeOK
<1>top. ASSUME stack # <<>>
        PROVE  /\ Top \in Frames /\ Top = stack[Len(stack)] /\ Last(stack) = Top
               /\ Below = Front(stack) /\ Below \in Seq(Frames) /\ Nest(Below)
               /\ CanSit(Below, Top)
    BY <1>s, <1>top, TopFrame DEF Last
<1>z. 0 \in 0 .. MaxSequence + Budget /\ Budget \in 0 .. MaxSequence + Budget
      /\ \A n \in Reservable : n \in 0 .. MaxSequence + Budget /\ n <= MaxSequence
    BY IngressConstants DEF Reservable
<1>same. ASSUME UNCHANGED <<stack, phase, converging>> PROVE StackFits'
    BY <1>s, <1>same DEF StackFits
<1>push. ASSUME NEW f \in Frames, Plain(f), CanSit(stack, f), stack' = Append(stack, f),
                UNCHANGED <<phase, converging>>
         PROVE  StackFits'
    <2>1. Append(stack, f) \in Seq(Frames) /\ Nest(Append(stack, f))
          /\ PhaseOf(Append(stack, f), phase, converging)
        BY <1>s, <1>push, PushPlain
    <2> QED
        BY <1>push, <2>1 DEF StackFits
<1>pop. ASSUME stack # <<>>, Plain(Top), stack' = Below, UNCHANGED <<phase, converging>>
        PROVE  StackFits'
    <2>1. Below \in Seq(Frames) /\ Nest(Below) /\ PhaseOf(Below, phase, converging)
        BY <1>s, <1>top, <1>pop, PopPlain
    <2> QED
        BY <1>pop, <2>1 DEF StackFits
<1>swap. ASSUME stack # <<>>, Plain(Top), Top.kind # "deliver", NEW f \in Frames,
                f.kind \in {"borrow", "lease", "work", "released"}, stack' = Replace(f),
                UNCHANGED <<phase, converging>>
         PROVE  StackFits'
    <2>1. Below \in Seq(Frames) /\ Nest(Below) /\ PhaseOf(Below, phase, converging)
        BY <1>s, <1>top, <1>swap, PopPlain
    <2>2. Open(Below)
        BY <1>s, <1>top, <1>swap, OpenBelow
    <2>3. CanSit(Below, f) /\ Plain(f)
        BY <2>2, <1>swap, OpenCall
    <2>4. Append(Below, f) \in Seq(Frames) /\ Nest(Append(Below, f))
          /\ PhaseOf(Append(Below, f), phase, converging)
        BY <2>1, <2>3, PushPlain
    <2> QED
        BY <1>swap, <2>4 DEF StackFits, Replace
<1>on. ASSUME stack # <<>>, NEW g \in Frames, g.kind = Top.kind,
              g.flag = Top.flag \/ Top.kind = "converge", g.sequence = Top.sequence
       PROVE  LET t == Replace(g) IN
              /\ t \in Seq(Frames) /\ Nest(t) /\ PhaseOf(t, phase, converging) /\ t # <<>>
              /\ Last(t) = g /\ \A k : On(t, k) <=> On(stack, k)
    <2>1. Top.kind = "converge" => g.sequence <= Budget
        BY <1>top, <1>on DEF CanSit
    <2>2. g.flag = Top.flag \/ Top.kind = "converge"
        BY <1>on
    <2>3. /\ Append(Front(stack), g) \in Seq(Frames) /\ Nest(Append(Front(stack), g))
          /\ PhaseOf(Append(Front(stack), g), phase, converging)
          /\ Append(Front(stack), g) # <<>> /\ Last(Append(Front(stack), g)) = g
          /\ \A k : On(Append(Front(stack), g), k) <=> On(stack, k)
        BY <1>s, <1>top, <1>on, <2>1, <2>2, GoesOn
    <2> QED
        BY <1>top, <1>on, <2>3 DEF Replace
<1>1. ASSUME NEW kind \in Kinds, Enqueue(kind) PROVE StackFits'
    BY <1>1, <1>same DEF Enqueue, stackVars, releaseVars
<1>2. ASSUME Stage \/ Send \/ BeginShutdown \/ Import \/ Panic \/ DrainCompletion
      PROVE StackFits'
    BY <1>2, <1>same DEF Stage, Send, BeginShutdown, Import, Panic, DrainCompletion, stackVars,
       releaseVars, queueVars
<1>3. ASSUME Borrow \/ RunWake \/ RunStaleWake \/ RunRecovery \/ RunConvergence PROVE StackFits'
    <2>1. \/ stack' = Append(stack, Frame("borrow", "run", 0, FALSE))
          \/ stack' = Append(stack, Frame("work", "live", 0, FALSE))
          \/ stack' = Append(stack, Frame("work", "stale", 0, FALSE))
          \/ stack' = Append(stack, Frame("released", "run", 0, FALSE))
        BY <1>3 DEF Borrow, RunWake, RunStaleWake, RunRecovery, RunConvergence, PushFrame
    <2>2. Open(stack) /\ UNCHANGED <<phase, converging>>
        BY <1>3, NestableOpen DEF Borrow, RunWake, RunStaleWake, RunRecovery, RunConvergence,
           queueVars, releaseVars
    <2>3. /\ Frame("borrow", "run", 0, FALSE) \in Frames
          /\ Frame("work", "live", 0, FALSE) \in Frames
          /\ Frame("work", "stale", 0, FALSE) \in Frames
          /\ Frame("released", "run", 0, FALSE) \in Frames
        BY <1>z DEF Frame, Frames
    <2>4. /\ Frame("borrow", "run", 0, FALSE).kind = "borrow"
          /\ Frame("work", "live", 0, FALSE).kind = "work"
          /\ Frame("work", "stale", 0, FALSE).kind = "work"
          /\ Frame("released", "run", 0, FALSE).kind = "released"
        BY DEF Frame
    <2>5. PICK f \in Frames : /\ f.kind \in {"borrow", "lease", "work", "released"}
                              /\ stack' = Append(stack, f)
        BY <2>1, <2>3, <2>4
    <2>6. CanSit(stack, f) /\ Plain(f)
        BY <2>2, <2>5, OpenCall
    <2> QED
        BY <2>2, <2>5, <2>6, <1>push
<1>4. ASSUME ShouldClose PROVE StackFits'
    <2>1. CASE AppIdle /\ DeliversInline(Reserved.work)
        <3> DEFINE w == Frame("work", "none", 0, FALSE)
                   b == Frame("borrow", "run", next_sequence, FALSE)
        <3>1. /\ stack' = stack \o <<w, b>> /\ Open(stack) /\ UNCHANGED <<phase, converging>>
              /\ next_sequence \in Reservable
            BY <1>4, <2>1, NestableOpen DEF ShouldClose, releaseVars
        <3>2. w \in Frames /\ b \in Frames /\ w.kind = "work" /\ b.kind = "borrow"
            BY <1>z, <3>1 DEF Frame, Frames
        <3> HIDE DEF w, b
        <3>3. stack' = Append(Append(stack, w), b)
            BY <1>s, <3>1, <3>2, PushTwo
        <3>4. CanSit(stack, w) /\ Plain(w)
            BY <3>1, <3>2, OpenCall
        <3>5. PICK t \in Seq(Frames) : /\ t = Append(stack, w) /\ Nest(t)
                                       /\ PhaseOf(t, phase, converging)
            BY <1>s, <3>2, <3>4, PushPlain
        <3>6. Open(t)
            BY <1>s, <3>2, <3>5, AppendOf DEF Open
        <3>7. CanSit(t, b) /\ Plain(b)
            BY <3>2, <3>6, OpenCall
        <3>8. Append(t, b) \in Seq(Frames) /\ Nest(Append(t, b))
              /\ PhaseOf(Append(t, b), phase, converging)
            BY <3>2, <3>5, <3>7, PushPlain
        <3> QED
            BY <3>1, <3>3, <3>5, <3>8 DEF StackFits
    <2>2. CASE ~(AppIdle /\ DeliversInline(Reserved.work))
        BY <1>4, <2>2, <1>same DEF ShouldClose, releaseVars
    <2> QED
        BY <2>1, <2>2
<1>5. ASSUME InputBegins PROVE StackFits'
    <2> DEFINE l == Frame("lease", "run", 0, FALSE)
               f == Frame("input", "prior", next_sequence, Barrier = "root")
    <2>1. /\ Open(stack) /\ UNCHANGED converging /\ next_sequence \in Reservable
          /\ phase' = IF Barrier = "root" THEN "input" ELSE phase
          /\ stack' = IF Barrier = "refused" THEN Append(stack, l)
                      ELSE Append(Append(stack, l), f)
        BY <1>5, NestableOpen DEF InputBegins, PushFrame, releaseVars
    <2>2. /\ l \in Frames /\ l.kind = "lease" /\ f \in Frames /\ f.kind = "input"
          /\ f.sequence = next_sequence /\ f.flag = (Barrier = "root")
        BY <1>z, <2>1 DEF Frame, Frames
    <2> HIDE DEF l, f
    <2>3. CanSit(stack, l) /\ Plain(l)
        BY <2>1, <2>2, OpenCall
    <2>4. PICK t \in Seq(Frames) : /\ t = Append(stack, l) /\ Nest(t)
                                   /\ PhaseOf(t, phase, converging)
        BY <1>s, <2>2, <2>3, PushPlain
    <2>5. \A k : On(t, k) <=> On(stack, k) \/ l.kind = k
        BY <1>s, <2>2, <2>3, <2>4, PushNest
    <2>6. t # <<>> /\ Last(t) = l
        BY <1>s, <2>2, <2>4, AppendOf
    <2>7. Open(t)
        BY <2>2, <2>6 DEF Open
    <2>8. CASE Barrier = "refused"
        BY <2>1, <2>4, <2>8 DEF StackFits
    <2>9. CASE Barrier = "root"
        <3>1. phase \in {"idle", "blocked"} /\ f.flag
            BY <2>2, <2>9 DEF Barrier
        <3>2. Append(t, f) \in Seq(Frames) /\ Nest(Append(t, f))
              /\ PhaseOf(Append(t, f), "input", converging)
            BY <1>z, <2>1, <2>2, <2>4, <2>7, <3>1, PushRoot
        <3> QED
            BY <2>1, <2>4, <2>9, <3>2 DEF StackFits
    <2>10. CASE Barrier = "nested"
        <3>1. phase = "command" /\ ~f.flag
            BY <2>2, <2>10 DEF Barrier
        <3>2. On(t, "command")
            BY <2>4, <3>1 DEF PhaseOf
        <3>3. CanSit(t, f) /\ Plain(f)
            BY <1>z, <2>1, <2>2, <2>6, <3>1, <3>2 DEF CanSit, Plain, Owns
        <3>4. Append(t, f) \in Seq(Frames) /\ Nest(Append(t, f))
              /\ PhaseOf(Append(t, f), phase, converging)
            BY <2>2, <2>4, <3>3, PushPlain
        <3> QED
            BY <2>1, <2>4, <2>10, <3>4 DEF StackFits
    <2> QED
        BY <2>8, <2>9, <2>10 DEF Barrier
<1>6. ASSUME BorrowEnds \/ FinishWork \/ LeaseEnds \/ DeliverEnds \/ CriticalEnds
      PROVE StackFits'
    <2> DEFINE r == Frame("released", "run", 0, FALSE)
    <2>1. /\ stack # <<>> /\ Plain(Top) /\ UNCHANGED <<phase, converging>>
          /\ stack' = Below \/ (stack' = Replace(r) /\ Top.kind # "deliver")
        BY <1>6 DEF BorrowEnds, FinishWork, LeaseEnds, DeliverEnds, CriticalEnds, TopIs, Plain,
           queueVars, releaseVars
    <2>2. r \in Frames /\ r.kind = "released"
        BY <1>z DEF Frame, Frames
    <2> HIDE DEF r
    <2> QED
        BY <2>1, <2>2, <1>pop, <1>swap
<1>7. ASSUME BorrowReleased PROVE StackFits'
    <2>1. stack # <<>> /\ Top.kind = "released" /\ Plain(Top)
        BY <1>7 DEF BorrowReleased, TopIs, Plain
    <2>2. CASE LeaseActive \/ ~AppIdle \/ converging
        BY <1>7, <2>1, <2>2, <1>pop DEF BorrowReleased
    <2>3. CASE ~(LeaseActive \/ ~AppIdle \/ converging)
        <3> DEFINE c == Frame("converge", "first", Budget, retained)
        <3>1. /\ converging' = TRUE /\ phase' = (IF phase = "blocked" THEN "idle" ELSE phase)
              /\ stack' = Append(Below, c)
            BY <1>7, <2>3 DEF BorrowReleased, Replace
        <3>2. /\ c \in Frames /\ c.kind = "converge" /\ c.sequence = Budget
            BY <1>s, <1>z DEF IngressTypeOK, Frame, Frames
        <3> HIDE DEF c
        <3>3. /\ Below \in Seq(Frames) /\ Nest(Below) /\ PhaseOf(Below, phase, converging)
              /\ Open(Below)
            BY <1>s, <1>top, <2>1, PopPlain, OpenBelow
        <3>4. ~On(Below, "converge")
            BY <2>3, <3>3 DEF PhaseOf
        <3>5. \A k : On(stack, k) <=> On(Below, k) \/ Top.kind = k
            BY <1>s, <1>top, <2>1, PopNest
        <3>6. \A k \in Holding : ~On(stack, k)
            BY <2>3 DEF AppIdle, On
        <3>7. CanSit(Below, c)
            <4>1. Budget <= Budget
                BY IngressConstants
            <4> QED
                BY <3>2, <3>3, <3>4, <3>5, <3>6, <4>1 DEF CanSit, Owns, Open
        <3>8. PICK t \in Seq(Frames) : /\ t = Append(Below, c) /\ Nest(t)
                                       /\ \A k : On(t, k) <=> On(Below, k) \/ c.kind = k
                                       /\ Root(t) <=> Root(Below) \/ (c.kind = "input" /\ c.flag)
            BY <3>2, <3>3, <3>7, PushNest
        <3>9. /\ On(t, "command") <=> On(Below, "command")
              /\ On(t, "drain") <=> On(Below, "drain")
              /\ On(t, "converge") /\ (Root(t) <=> Root(Below))
            BY <3>2, <3>8
        <3>10. PhaseOf(t, phase', converging')
            BY <3>1, <3>3, <3>9 DEF PhaseOf
        <3> QED
            BY <3>1, <3>8, <3>10 DEF StackFits
    <2> QED
        BY <2>2, <2>3
<1>8. ASSUME ConvergePass PROVE StackFits'
    <2>1. stack # <<>> /\ Top.kind = "converge" /\ UNCHANGED converging
        BY <1>8 DEF ConvergePass, TopIs
    <2>2. /\ NextStage \in Frames /\ NextStage.kind = "converge"
          /\ NextStage.sequence = Top.sequence
        BY <2>1, NextStageTyped
    <2>3. PICK t : /\ t = Replace(NextStage) /\ t \in Seq(Frames) /\ Nest(t)
                   /\ PhaseOf(t, phase, converging) /\ t # <<>> /\ Last(t) = NextStage
        BY <2>1, <2>2, <1>on
    <2>4. \/ stack' = t /\ phase' = phase
          \/ phase = "idle" /\ phase' = "draining" /\ stack' = t \o <<Frame("drain", "run", 0, TRUE)>>
        BY <1>8, <2>3 DEF ConvergePass
    <2>5. CASE stack' = t /\ phase' = phase
        BY <2>1, <2>3, <2>5 DEF StackFits
    <2>6. CASE phase = "idle" /\ phase' = "draining"
               /\ stack' = t \o <<Frame("drain", "run", 0, TRUE)>>
        <3>0. Frame("drain", "run", 0, TRUE) \in Frames
            BY <1>z DEF Frame, Frames
        <3>1. stack' = Append(t, Frame("drain", "run", 0, TRUE))
            BY <2>3, <2>6, <3>0, PushTwo
        <3>2. Open(t) /\ Last(t).kind = "converge"
            BY <2>2, <2>3 DEF Open
        <3>3. LET u == Append(t, Frame("drain", "run", 0, TRUE)) IN
              u \in Seq(Frames) /\ Nest(u) /\ PhaseOf(u, "draining", converging)
            BY <2>3, <2>6, <3>2, PushDrain
        <3> QED
            BY <2>1, <2>6, <3>1, <3>3 DEF StackFits
    <2> QED
        BY <2>4, <2>5, <2>6
<1>9. ASSUME ConvergeCritical PROVE StackFits'
    <2> DEFINE g == [Top EXCEPT !.stage = "second"]
               c == Frame("critical", "run", 0, FALSE)
    <2>1. /\ stack # <<>> /\ Top.kind = "converge" /\ UNCHANGED <<phase, converging>>
          /\ stack' = Replace(g) \/ stack' = Replace(g) \o <<c>>
        BY <1>9 DEF ConvergeCritical, TopIs, queueVars
    <2>2. /\ g \in Frames /\ g.kind = Top.kind /\ g.flag = Top.flag /\ g.sequence = Top.sequence
        BY <1>top, <2>1, TopGoesOn
    <2>3. c \in Frames /\ c.kind = "critical"
        BY <1>z DEF Frame, Frames
    <2> HIDE DEF g, c
    <2>4. PICK t : /\ t = Replace(g) /\ t \in Seq(Frames) /\ Nest(t)
                   /\ PhaseOf(t, phase, converging) /\ t # <<>> /\ Last(t) = g
        BY <2>1, <2>2, <1>on
    <2>5. CASE stack' = t
        BY <2>1, <2>4, <2>5 DEF StackFits
    <2>6. CASE stack' = t \o <<c>>
        <3>1. stack' = Append(t, c)
            BY <2>3, <2>4, <2>6, PushTwo
        <3>2. CanSit(t, c) /\ Plain(c)
            BY <2>1, <2>2, <2>3, <2>4 DEF CanSit, Plain, Owns
        <3>3. Append(t, c) \in Seq(Frames) /\ Nest(Append(t, c))
              /\ PhaseOf(Append(t, c), phase, converging)
            BY <2>3, <2>4, <3>2, PushPlain
        <3> QED
            BY <2>1, <3>1, <3>3 DEF StackFits
    <2> QED
        BY <2>1, <2>4, <2>5, <2>6
<1>10. ASSUME ConvergeEnds PROVE StackFits'
    <2>1. /\ stack # <<>> /\ Top.kind = "converge" /\ converging' = FALSE /\ stack' = Below
          /\ phase' = phase
        BY <1>10 DEF ConvergeEnds, TopIs
    <2>2. \A k : On(stack, k) <=> On(Below, k) \/ Top.kind = k
        BY <1>s, <1>top, <2>1, PopNest
    <2>3. Root(stack) <=> Root(Below) \/ (Top.kind = "input" /\ Top.flag)
        BY <1>s, <1>top, <2>1, PopNest
    <2>4. /\ On(stack, "command") <=> On(Below, "command")
          /\ On(stack, "drain") <=> On(Below, "drain")
          /\ (Root(stack) <=> Root(Below)) /\ ~On(Below, "converge")
        BY <1>top, <2>1, <2>2, <2>3 DEF CanSit
    <2>5. PhaseOf(Below, phase, FALSE)
        BY <1>s, <2>4 DEF PhaseOf
    <2> QED
        BY <1>top, <2>1, <2>5 DEF StackFits
<1>11. ASSUME StartWork PROVE StackFits'
    <2> DEFINE g == [Top EXCEPT !.stage = "post"]
    <2>1. stack # <<>> /\ Top.kind = "work" /\ Plain(Top) /\ UNCHANGED converging
        BY <1>11 DEF StartWork, TopIs, Plain
    <2>2. \/ stack' = Below /\ phase' = phase
          \/ stack' = Replace(g) /\ phase' = phase
          \/ /\ stack' = Replace(g) \o <<Frame("drain", "run", 0, FALSE)>>
             /\ phase = "idle" /\ phase' = "draining" /\ ~converging
        BY <1>11 DEF StartWork
    <2>3. /\ g \in Frames /\ g.kind = Top.kind /\ g.flag = Top.flag /\ g.sequence = Top.sequence
        BY <1>top, <2>1, TopGoesOn
    <2> HIDE DEF g
    <2>4. PICK t : /\ t = Replace(g) /\ t \in Seq(Frames) /\ Nest(t)
                   /\ PhaseOf(t, phase, converging) /\ t # <<>> /\ Last(t) = g
                   /\ \A k : On(t, k) <=> On(stack, k)
        BY <2>1, <2>3, <1>on
    <2>5. CASE stack' = Below /\ phase' = phase
        BY <2>1, <2>5, <1>pop
    <2>6. CASE stack' = t /\ phase' = phase
        BY <2>1, <2>4, <2>6 DEF StackFits
    <2>7. CASE /\ stack' = t \o <<Frame("drain", "run", 0, FALSE)>>
               /\ phase = "idle" /\ phase' = "draining" /\ ~converging
        <3>0. Frame("drain", "run", 0, FALSE) \in Frames
            BY <1>z DEF Frame, Frames
        <3>1. stack' = Append(t, Frame("drain", "run", 0, FALSE))
            BY <2>4, <2>7, <3>0, PushTwo
        <3>2. Open(t) /\ ~On(t, "converge")
            BY <1>s, <2>1, <2>3, <2>4, <2>7 DEF Open, PhaseOf
        <3>3. LET u == Append(t, Frame("drain", "run", 0, FALSE)) IN
              u \in Seq(Frames) /\ Nest(u) /\ PhaseOf(u, "draining", converging)
            BY <2>4, <2>7, <3>2, PushDrain
        <3> QED
            BY <2>1, <2>7, <3>1, <3>3 DEF StackFits
    <2> QED
        BY <2>2, <2>4, <2>5, <2>6, <2>7
<1>12. ASSUME FinishDrain \/ DrainBlocks PROVE StackFits'
    <2>1. /\ stack # <<>> /\ Top.kind = "drain" /\ phase' \in {"idle", "blocked"}
          /\ UNCHANGED converging /\ stack' = AfterDrain
        BY <1>12 DEF FinishDrain, DrainBlocks, Looping, TopIs, releaseVars
    <2>2. AfterDrain \in Seq(Frames) /\ Nest(AfterDrain) /\ PhaseOf(AfterDrain, phase', converging)
        BY <2>1, AfterDrainNest
    <2> QED
        BY <2>1, <2>2 DEF StackFits
<1>13. ASSUME DrainEvent \/ InputPrior PROVE StackFits'
    <2>1. PICK n : /\ stack' = Append(stack, Frame("deliver", "run", n, FALSE))
                   /\ n \in {pending[i].sequence : i \in 1 .. Len(pending)}
        <3>1. CASE DrainEvent
            <4>1. pending # <<>> /\ stack' = Append(stack, Frame("deliver", "run", FirstPending.sequence, FALSE))
                BY <3>1 DEF DrainEvent, Pops, PushFrame
            <4>2. FirstPending = pending[1] /\ 1 \in 1 .. Len(pending)
                BY <1>s, <4>1, EnvelopeTail DEF FirstPending, IngressTypeOK
            <4> QED
                BY <4>1, <4>2
        <3>2. CASE InputPrior
            <4>1. \E i \in PriorEvents : \A k \in PriorEvents : i <= k
                BY <3>2, FirstPrior DEF InputPrior
            <4>2. \A i \in PriorEvents : i \in 1 .. Len(pending)
                BY DEF PriorEvents
            <4> QED
                BY <3>2, <4>1, <4>2 DEF InputPrior, PushFrame
        <3> QED
            BY <1>13, <3>1, <3>2
    <2>2. /\ stack # <<>> /\ Top.kind \in {"drain", "input"} /\ UNCHANGED <<phase, converging>>
        BY <1>13 DEF DrainEvent, InputPrior, Looping, AtBarrier, TopIs, releaseVars
    <2>3. n \in 0 .. MaxSequence + Budget
        <3>1. \A i \in 1 .. Len(pending) : pending[i].sequence \in Reservable
            BY <1>s, EnvelopesIn DEF IngressTypeOK
        <3> QED
            BY <1>z, <2>1, <3>1
    <2> DEFINE f == Frame("deliver", "run", n, FALSE)
    <2>4. f \in Frames /\ f.kind = "deliver"
        BY <2>3 DEF Frame, Frames
    <2> HIDE DEF f
    <2>5. CanSit(stack, f) /\ Plain(f)
        BY <1>top, <2>2, <2>4 DEF CanSit, Plain, Owns
    <2> QED
        BY <2>1, <2>2, <2>4, <2>5, <1>push DEF f
<1>14. ASSUME DrainCommand PROVE StackFits'
    <2> DEFINE f == Frame("command", "run", FirstPending.sequence, FALSE)
    <2>1. /\ stack # <<>> /\ Top.kind = "drain" /\ pending # <<>> /\ UNCHANGED converging
          /\ phase' = "command" /\ stack' = Append(stack, f)
        BY <1>14 DEF DrainCommand, Looping, Pops, TopIs, PushFrame, releaseVars
    <2>2. FirstPending.sequence \in Reservable
        BY <1>s, <2>1, EnvelopesIn DEF FirstPending, IngressTypeOK
    <2>3. f \in Frames /\ f.kind = "command"
        BY <1>z, <2>2 DEF Frame, Frames
    <2> HIDE DEF f
    <2>4. Append(stack, f) \in Seq(Frames) /\ Nest(Append(stack, f))
          /\ PhaseOf(Append(stack, f), "command", converging)
        BY <1>s, <1>top, <2>1, <2>3, PushCommandFrame
    <2> QED
        BY <2>1, <2>4 DEF StackFits
<1>15. ASSUME CommandEnds PROVE StackFits'
    <2>1. /\ stack # <<>> /\ Top.kind = "command" /\ phase' = "draining" /\ stack' = Below
          /\ UNCHANGED converging
        BY <1>15 DEF CommandEnds, TopIs, releaseVars
    <2>2. Below \in Seq(Frames) /\ Nest(Below) /\ PhaseOf(Below, "draining", converging)
        BY <1>s, <1>top, <2>1, PopCommandFrame
    <2> QED
        BY <2>1, <2>2 DEF StackFits
<1>16. ASSUME InputHandled PROVE StackFits'
    <2> DEFINE g == [Top EXCEPT !.stage = "after"]
               f == Frame("deliver", "run", Top.sequence, FALSE)
    <2>1. /\ stack # <<>> /\ Top.kind = "input" /\ UNCHANGED <<phase, converging>>
          /\ stack' = Append(Replace(g), f)
        BY <1>16 DEF InputHandled, AtBarrier, TopIs, queueVars, releaseVars
    <2>2. /\ g \in Frames /\ g.kind = Top.kind /\ g.flag = Top.flag /\ g.sequence = Top.sequence
        BY <1>top, <2>1, TopGoesOn
    <2>3. f \in Frames /\ f.kind = "deliver"
        BY <1>top, <2>1 DEF Frame, Frames
    <2> HIDE DEF g, f
    <2>4. PICK t : /\ t = Replace(g) /\ t \in Seq(Frames) /\ Nest(t)
                   /\ PhaseOf(t, phase, converging) /\ t # <<>> /\ Last(t) = g
        BY <2>1, <2>2, <1>on
    <2>5. CanSit(t, f) /\ Plain(f)
        BY <2>1, <2>2, <2>3, <2>4 DEF CanSit, Plain, Owns
    <2>6. Append(t, f) \in Seq(Frames) /\ Nest(Append(t, f))
          /\ PhaseOf(Append(t, f), phase, converging)
        BY <2>3, <2>4, <2>5, PushPlain
    <2> QED
        BY <2>1, <2>4, <2>6 DEF StackFits
<1>root. ASSUME stack # <<>>, Owns(Top)
         PROVE  Below \in Seq(Frames) /\ Nest(Below) /\ PhaseOf(Below, "idle", converging)
    BY <1>s, <1>top, <1>root, PopOwner
<1>17. ASSUME InputRejected PROVE StackFits'
    <2>1. /\ stack # <<>> /\ Top.kind = "input" /\ stack' = Below /\ UNCHANGED converging
          /\ phase' = IF Top.flag THEN "idle" ELSE phase
        BY <1>17 DEF InputRejected, AtBarrier, TopIs, releaseVars
    <2>2. CASE Top.flag
        BY <2>1, <2>2, <1>root DEF StackFits, Owns
    <2>3. CASE ~Top.flag
        BY <2>1, <2>3, <1>pop DEF Plain
    <2> QED
        BY <2>2, <2>3
<1>18. ASSUME InputEnds PROVE StackFits'
    <2> DEFINE w == Frame("work", "none", 0, FALSE)
    <2>1. /\ stack # <<>> /\ Top.kind = "input" /\ UNCHANGED converging
          /\ phase' = (IF Top.flag THEN "idle" ELSE phase)
          /\ stack' = IF Top.flag THEN Append(Below, w) ELSE Below
        BY <1>18 DEF InputEnds, TopIs, releaseVars, Replace
    <2>2. CASE Top.flag
        <3>1. w \in Frames /\ w.kind = "work"
            BY <1>z DEF Frame, Frames
        <3> HIDE DEF w
        <3>2. Below \in Seq(Frames) /\ Nest(Below) /\ PhaseOf(Below, "idle", converging)
            BY <2>1, <2>2, <1>root DEF Owns
        <3>3. Open(Below)
            BY <1>s, <1>top, <2>1, OpenBelow
        <3>4. CanSit(Below, w) /\ Plain(w)
            BY <3>1, <3>3, OpenCall
        <3>5. Append(Below, w) \in Seq(Frames) /\ Nest(Append(Below, w))
              /\ PhaseOf(Append(Below, w), "idle", converging)
            BY <3>1, <3>2, <3>4, PushPlain
        <3> QED
            BY <2>1, <2>2, <3>5 DEF StackFits
    <2>3. CASE ~Top.flag
        BY <2>1, <2>3, <1>pop DEF Plain
    <2> QED
        BY <2>2, <2>3
<1>19. ASSUME UnwindCode PROVE StackFits'
    <2>1. /\ stack # <<>> /\ Plain(Top) /\ stack' = Below /\ UNCHANGED <<phase, converging>>
        BY <1>19 DEF UnwindCode, Unwinds, Plain, queueVars
    <2> QED
        BY <2>1, <1>pop
<1>20. ASSUME UnwindQueue PROVE StackFits'
    <2>1. /\ stack # <<>> /\ Top.kind \in {"input", "drain"} /\ UNCHANGED converging
          /\ phase' = (IF Top.kind = "drain" \/ Top.flag THEN "idle" ELSE phase)
          /\ stack' = IF Top.kind = "drain" THEN AfterDrain ELSE Below
        BY <1>20 DEF UnwindQueue, Unwinds, releaseVars
    <2>2. CASE Top.kind = "drain"
        <3>1. AfterDrain \in Seq(Frames) /\ Nest(AfterDrain)
              /\ PhaseOf(AfterDrain, "idle", converging)
            BY <2>1, <2>2, AfterDrainNest
        <3> QED
            BY <2>1, <2>2, <3>1 DEF StackFits
    <2>3. CASE Top.kind = "input" /\ Top.flag
        BY <2>1, <2>3, <1>root DEF StackFits, Owns
    <2>4. CASE Top.kind = "input" /\ ~Top.flag
        BY <2>1, <2>4, <1>pop DEF Plain
    <2> QED
        BY <2>1, <2>2, <2>3, <2>4
<1>21. ASSUME Catch PROVE StackFits'
    <2>1. UNCHANGED converging
        BY <1>21 DEF Catch
    <2>2. \/ /\ stack # <<>> /\ Top.kind = "command" /\ phase' = "draining"
             /\ stack' = [Below EXCEPT ![Len(Below)].stage = "return"]
          \/ /\ stack # <<>> /\ Top.kind = "critical" /\ phase' = phase
             /\ stack' = [Below EXCEPT ![Len(Below)].flag = TRUE]
          \/ /\ stack # <<>> /\ Top.kind = "converge" /\ phase' = phase
             /\ stack' = Replace([Top EXCEPT !.flag = TRUE])
          \/ UNCHANGED <<stack, phase>>
        BY <1>21 DEF Catch, Unwinds
    <2>3. CASE /\ stack # <<>> /\ Top.kind = "command" /\ phase' = "draining"
               /\ stack' = [Below EXCEPT ![Len(Below)].stage = "return"]
        <3>1. /\ Below \in Seq(Frames) /\ Nest(Below) /\ PhaseOf(Below, "draining", converging)
              /\ Below # <<>> /\ Last(Below).kind = "drain"
            BY <1>s, <1>top, <2>3, PopCommandFrame
        <3> DEFINE g == [Below[Len(Below)] EXCEPT !.stage = "return"]
        <3>2. /\ stack' = Append(Front(Below), g) /\ g \in Frames
              /\ g.kind = Below[Len(Below)].kind /\ g.flag = Below[Len(Below)].flag
              /\ Below[Len(Below)].kind = "drain"
            BY <2>3, <3>1, TouchLast DEF Last
        <3> HIDE DEF g
        <3>3. /\ Append(Front(Below), g) \in Seq(Frames) /\ Nest(Append(Front(Below), g))
              /\ PhaseOf(Append(Front(Below), g), "draining", converging)
            BY <3>1, <3>2, GoesOn
        <3> QED
            BY <2>1, <2>3, <3>2, <3>3 DEF StackFits
    <2>4. CASE /\ stack # <<>> /\ Top.kind = "critical" /\ phase' = phase
               /\ stack' = [Below EXCEPT ![Len(Below)].flag = TRUE]
        <3>1. /\ Below \in Seq(Frames) /\ Nest(Below) /\ PhaseOf(Below, phase, converging)
              /\ Below # <<>> /\ Last(Below).kind = "converge"
            BY <1>s, <1>top, <2>4, PopPlain DEF Plain, CanSit
        <3> DEFINE g == [Below[Len(Below)] EXCEPT !.flag = TRUE]
        <3>2. /\ stack' = Append(Front(Below), g) /\ g \in Frames
              /\ g.kind = Below[Len(Below)].kind /\ g.sequence = Below[Len(Below)].sequence
              /\ Below[Len(Below)].kind = "converge"
            BY <2>4, <3>1, TouchLast DEF Last
        <3> HIDE DEF g
        <3>3. g.sequence <= Budget
            <4>1. CanSit(Front(Below), Below[Len(Below)])
                BY <3>1, PopNest
            <4> QED
                BY <3>2, <4>1 DEF CanSit
        <3>4. /\ Append(Front(Below), g) \in Seq(Frames) /\ Nest(Append(Front(Below), g))
              /\ PhaseOf(Append(Front(Below), g), phase, converging)
            BY <3>1, <3>2, <3>3, GoesOn
        <3> QED
            BY <2>1, <2>4, <3>2, <3>4 DEF StackFits
    <2>5. CASE /\ stack # <<>> /\ Top.kind = "converge" /\ phase' = phase
               /\ stack' = Replace([Top EXCEPT !.flag = TRUE])
        <3> DEFINE g == [Top EXCEPT !.flag = TRUE]
        <3>1. g \in Frames /\ g.kind = Top.kind /\ g.sequence = Top.sequence
            BY <1>top, <2>5 DEF Frames
        <3>2. stack' = Replace(g)
            BY <2>5
        <3> HIDE DEF g
        <3>3. LET t == Replace(g) IN
              t \in Seq(Frames) /\ Nest(t) /\ PhaseOf(t, phase, converging)
            BY <2>5, <3>1, <1>on
        <3> QED
            BY <2>1, <2>5, <3>2, <3>3 DEF StackFits
    <2>6. CASE UNCHANGED <<stack, phase>>
        BY <2>1, <2>6, <1>same
    <2> QED
        BY <2>2, <2>3, <2>4, <2>5, <2>6
<1>22. ASSUME UNCHANGED ingressVars PROVE StackFits'
    BY <1>22, <1>same DEF ingressVars, stackVars, queueVars, releaseVars
<1> QED
    BY <1>1, <1>2, <1>3, <1>4, <1>5, <1>6, <1>7, <1>8, <1>9, <1>10, <1>11, <1>12, <1>13, <1>14,
       <1>15, <1>16, <1>17, <1>18, <1>19, <1>20, <1>21, <1>22
       DEF IngressNext, Tasks, Running

LEMMA NestingSteps == Nesting /\ CompletionFenced /\ [IngressNext]_ingressVars => Nesting'
<1> SUFFICES ASSUME Nesting, CompletionFenced, [IngressNext]_ingressVars PROVE Nesting'
    OBVIOUS
<1>1. QueueTyped' /\ PhaseTyped' /\ StackFits'
    BY QueueSteps, PhaseSteps, StackSteps
<1>2. IngressTypeOK'
    BY <1>1 DEF QueueTyped, PhaseTyped, StackFits, IngressTypeOK
<1> QED
    BY <1>1, <1>2 DEF Nesting, StackFits
-------------------------------------------------------------------------------
(* What the operations of the queue do to the sequences in it.               *)

LEMMA AddWork ==
    ASSUME NEW w \in Seq(Envelopes), NEW e \in Envelopes
    PROVE  /\ In(Append(w, e)) = In(w) \cup {e.sequence}
           /\ \A K : SequencesOf(Append(w, e), K) =
                        SequencesOf(w, K) \cup (IF e.kind \in K THEN {e.sequence} ELSE {})
           /\ Ascends(w) /\ (\A n \in In(w) : n < e.sequence) => Ascends(Append(w, e))
<1> DEFINE t == Append(w, e)
           n == Len(w) + 1
<1>1. /\ Len(w) \in Nat /\ t \in Seq(Envelopes) /\ Len(t) = n
      /\ \A i \in 1 .. Len(w) : t[i] = w[i]
      /\ t[n] = e
    BY AppendOf
<1>i. \A i \in 1 .. n : i = n \/ i \in 1 .. Len(w)
    BY <1>1
<1>n. n \in 1 .. n /\ \A i \in 1 .. Len(w) : i \in 1 .. n /\ i < n
    BY <1>1
<1>m. \A i \in 1 .. n : ~(n < i)
    BY <1>1
<1> HIDE DEF t, n
<1>2. In(t) = In(w) \cup {e.sequence}
    BY <1>1, <1>i, <1>n DEF In
<1>3. ASSUME NEW K
      PROVE  SequencesOf(t, K) = SequencesOf(w, K) \cup (IF e.kind \in K THEN {e.sequence} ELSE {})
    BY <1>1, <1>i, <1>n DEF SequencesOf
<1>4. ASSUME Ascends(w), \A m \in In(w) : m < e.sequence PROVE Ascends(t)
    <2>1. ASSUME NEW i \in 1 .. n, NEW j \in 1 .. n, i < j PROVE t[i].sequence < t[j].sequence
        <3>1. i \in 1 .. Len(w) /\ w[i].sequence \in In(w) /\ t[i] = w[i]
            BY <1>1, <1>i, <1>m, <2>1 DEF In
        <3>2. CASE j = n
            BY <1>1, <1>4, <3>1, <3>2
        <3>3. CASE j \in 1 .. Len(w)
            BY <1>1, <1>4, <2>1, <3>1, <3>3 DEF Ascends
        <3> QED
            BY <1>i, <3>2, <3>3
    <2> QED
        BY <1>1, <2>1 DEF Ascends
<1> QED
    BY <1>2, <1>3, <1>4 DEF t

\* One envelope leaves the queue and the others keep their order.
DropsAt(w, i, t) ==
    /\ Len(t) = Len(w) - 1
    /\ \A j \in 1 .. Len(w) - 1 : t[j] = IF j < i THEN w[j] ELSE w[j + 1]

LEMMA DropWork ==
    ASSUME NEW w \in Seq(Envelopes), Ascends(w), NEW i \in 1 .. Len(w),
           NEW t \in Seq(Envelopes), DropsAt(w, i, t)
    PROVE  /\ In(t) = In(w) \ {w[i].sequence} /\ Ascends(t)
           /\ \A K : SequencesOf(t, K) = SequencesOf(w, K) \ {w[i].sequence}
<1>1. Len(w) \in Nat /\ i \in Nat
    OBVIOUS
<1>d. /\ Len(t) = Len(w) - 1
      /\ \A j \in 1 .. Len(w) - 1 : t[j] = IF j < i THEN w[j] ELSE w[j + 1]
    BY DEF DropsAt
<1>2. ASSUME NEW j \in 1 .. Len(t)
      PROVE  \E k \in 1 .. Len(w) : k # i /\ t[j] = w[k] /\ k = (IF j < i THEN j ELSE j + 1)
    <2>1. j \in 1 .. Len(w) - 1
        BY <1>d, <1>1
    <2>2. CASE j < i
        <3>1. t[j] = w[j] /\ j \in 1 .. Len(w) /\ j # i
            BY <1>d, <1>1, <2>1, <2>2
        <3> QED
            BY <2>2, <3>1
    <2>3. CASE ~(j < i)
        <3>1. t[j] = w[j + 1] /\ j + 1 \in 1 .. Len(w) /\ j + 1 # i
            BY <1>d, <1>1, <2>1, <2>3
        <3> QED
            BY <2>3, <3>1
    <2> QED
        BY <2>2, <2>3
<1>3. ASSUME NEW k \in 1 .. Len(w), k # i PROVE \E j \in 1 .. Len(t) : t[j] = w[k]
    <2>1. CASE k < i
        BY <1>d, <1>1, <2>1
    <2>2. CASE ~(k < i)
        <3>1. k - 1 \in 1 .. Len(w) - 1 /\ ~(k - 1 < i) /\ (k - 1) + 1 = k
            BY <1>1, <1>3, <2>2
        <3>2. t[k - 1] = w[k]
            BY <1>d, <3>1
        <3> QED
            BY <1>d, <3>1, <3>2
    <2> QED
        BY <2>1, <2>2
<1>4. ASSUME NEW k \in 1 .. Len(w), k # i PROVE w[k].sequence # w[i].sequence
    <2>1. w[k] \in Envelopes /\ w[i] \in Envelopes
        OBVIOUS
    <2>2. w[k].sequence \in Nat /\ w[i].sequence \in Nat
        BY <2>1 DEF Envelopes, Reservable
    <2>3. k < i \/ i < k
        BY <1>1, <1>4
    <2> QED
        BY <2>2, <2>3 DEF Ascends
<1>5. In(t) = In(w) \ {w[i].sequence}
    <2>1. \A n \in In(t) : n \in In(w) \ {w[i].sequence}
        BY <1>2, <1>4 DEF In
    <2>2. \A n \in In(w) \ {w[i].sequence} : n \in In(t)
        BY <1>3 DEF In
    <2> QED
        BY <2>1, <2>2
<1>6. ASSUME NEW K PROVE SequencesOf(t, K) = SequencesOf(w, K) \ {w[i].sequence}
    <2>1. \A n \in SequencesOf(t, K) : n \in SequencesOf(w, K) \ {w[i].sequence}
        BY <1>2, <1>4 DEF SequencesOf
    <2>2. ASSUME NEW n \in SequencesOf(w, K) \ {w[i].sequence} PROVE n \in SequencesOf(t, K)
        <3>1. PICK k \in 1 .. Len(w) : w[k].kind \in K /\ w[k].sequence = n
            BY <2>2 DEF SequencesOf
        <3>2. PICK j \in 1 .. Len(t) : t[j] = w[k]
            BY <1>3, <2>2, <3>1
        <3> QED
            BY <3>1, <3>2 DEF SequencesOf
    <2> QED
        BY <2>1, <2>2
<1>7. Ascends(t)
    <2>1. ASSUME NEW j \in 1 .. Len(t), NEW k \in 1 .. Len(t), j < k
          PROVE  t[j].sequence < t[k].sequence
        <3>1. PICK a \in 1 .. Len(w) : t[j] = w[a] /\ a = (IF j < i THEN j ELSE j + 1)
            BY <1>2
        <3>2. PICK b \in 1 .. Len(w) : t[k] = w[b] /\ b = (IF k < i THEN k ELSE k + 1)
            BY <1>2
        <3>3. a < b
            BY <1>1, <2>1, <3>1, <3>2
        <3> QED
            BY <3>1, <3>2, <3>3 DEF Ascends
    <2> QED
        BY <2>1 DEF Ascends
<1> QED
    BY <1>5, <1>6, <1>7

LEMMA TailWork ==
    ASSUME NEW w \in Seq(Envelopes), Ascends(w), w # <<>>
    PROVE  /\ In(Tail(w)) = In(w) \ {Head(w).sequence} /\ Ascends(Tail(w))
           /\ \A K : SequencesOf(Tail(w), K) = SequencesOf(w, K) \ {Head(w).sequence}
           /\ Head(w).sequence \in In(w) /\ \A n \in In(Tail(w)) : n > Head(w).sequence
<1>1. /\ Len(w) \in Nat \ {0} /\ Tail(w) \in Seq(Envelopes) /\ Len(Tail(w)) = Len(w) - 1
      /\ Head(w) = w[1] /\ \A j \in 1 .. Len(w) - 1 : Tail(w)[j] = w[j + 1]
    BY EnvelopeTail
<1>2. 1 \in 1 .. Len(w) /\ \A j \in 1 .. Len(w) - 1 : Tail(w)[j] = IF j < 1 THEN w[j] ELSE w[j + 1]
    BY <1>1
<1>o. 1 \in 1 .. Len(w)
    BY <1>1
<1>t. PICK t \in Seq(Envelopes) : t = Tail(w)
    BY <1>1
<1>i. PICK i \in 1 .. Len(w) : i = 1
    BY <1>2
<1>d. \A j \in 1 .. Len(w) - 1 : t[j] = IF j < i THEN w[j] ELSE w[j + 1]
    BY <1>2, <1>t, <1>i
<1>e. Len(t) = Len(w) - 1
    BY <1>1, <1>t
<1>f. DropsAt(w, i, t)
    BY <1>d, <1>e DEF DropsAt
<1>3. /\ In(Tail(w)) = In(w) \ {w[1].sequence} /\ Ascends(Tail(w))
      /\ \A K : SequencesOf(Tail(w), K) = SequencesOf(w, K) \ {w[1].sequence}
    <2>1. /\ In(t) = In(w) \ {w[i].sequence} /\ Ascends(t)
          /\ \A K : SequencesOf(t, K) = SequencesOf(w, K) \ {w[i].sequence}
        BY <1>f, DropWork
    <2> QED
        BY <1>t, <1>i, <2>1
<1>4. w[1].sequence \in In(w)
    BY <1>2 DEF In
<1>5. ASSUME NEW j \in 1 .. Len(Tail(w)) PROVE Tail(w)[j].sequence > w[1].sequence
    <2>1. j + 1 \in 1 .. Len(w) /\ 1 < j + 1 /\ Tail(w)[j] = w[j + 1]
        BY <1>1
    <2>2. w[1].sequence < w[j + 1].sequence
        BY <1>2, <2>1 DEF Ascends
    <2>3. w[1].sequence \in Nat /\ w[j + 1].sequence \in Nat
        <3>1. \A k \in 1 .. Len(w) : w[k].sequence \in Reservable
            BY EnvelopesIn
        <3>2. w[1].sequence \in Reservable /\ w[j + 1].sequence \in Reservable
            BY <1>o, <2>1, <3>1
        <3> QED
            BY <3>2, IngressConstants DEF Reservable
    <2> QED
        BY <2>1, <2>2, <2>3
<1>6. \A n \in In(Tail(w)) : n > w[1].sequence
    BY <1>5 DEF In
<1> QED
    BY <1>1, <1>3, <1>4, <1>6

LEMMA FrontWork ==
    ASSUME NEW w \in Seq(Envelopes), Ascends(w), w # <<>>
    PROVE  /\ In(Front(w)) = In(w) \ {Last(w).sequence} /\ Ascends(Front(w))
           /\ \A K : SequencesOf(Front(w), K) = SequencesOf(w, K) \ {Last(w).sequence}
           /\ Last(w).sequence \in In(w)
<1>1. /\ Len(w) \in Nat \ {0} /\ Front(w) \in Seq(Envelopes) /\ Len(Front(w)) = Len(w) - 1
      /\ Last(w) = w[Len(w)] /\ \A j \in 1 .. Len(w) - 1 : Front(w)[j] = w[j]
    BY FrontOf
<1>2. Len(w) \in 1 .. Len(w)
      /\ \A j \in 1 .. Len(w) - 1 : Front(w)[j] = IF j < Len(w) THEN w[j] ELSE w[j + 1]
    BY <1>1
<1>3. w[Len(w)].sequence \in In(w)
    BY <1>2 DEF In
<1>t. PICK t \in Seq(Envelopes) : t = Front(w)
    BY <1>1
<1>i. PICK i \in 1 .. Len(w) : i = Len(w)
    BY <1>2
<1>d. \A j \in 1 .. Len(w) - 1 : t[j] = IF j < i THEN w[j] ELSE w[j + 1]
    BY <1>2, <1>t, <1>i
<1>e. Len(t) = Len(w) - 1
    BY <1>1, <1>t
<1>f. DropsAt(w, i, t)
    BY <1>d, <1>e DEF DropsAt
<1>4. /\ In(t) = In(w) \ {w[i].sequence} /\ Ascends(t)
      /\ \A K : SequencesOf(t, K) = SequencesOf(w, K) \ {w[i].sequence}
    BY <1>f, DropWork
<1> QED
    BY <1>1, <1>3, <1>4, <1>t, <1>i

LEMMA RemoveWork ==
    ASSUME NEW w \in Seq(Envelopes), Ascends(w), NEW i \in 1 .. Len(w)
    PROVE  /\ In(RemoveAt(w, i)) = In(w) \ {w[i].sequence} /\ Ascends(RemoveAt(w, i))
           /\ \A K : SequencesOf(RemoveAt(w, i), K) = SequencesOf(w, K) \ {w[i].sequence}
           /\ w[i].sequence \in In(w)
<1>1. w[i].sequence \in In(w)
    BY DEF In
<1> QED
    BY <1>1, RemoveOf, DropWork DEF DropsAt

\* Importing the staged callbacks.
LEMMA JoinWork ==
    ASSUME QueueTyped, Ordered
    PROVE  LET w == pending \o StagedWork IN
           /\ w \in Seq(Envelopes) /\ Ascends(w)
           /\ In(w) = In(pending) \cup Range(staged)
           /\ SequencesOf(w, Critical) = SequencesOf(pending, Critical)
           /\ SequencesOf(w, Events) = SequencesOf(pending, Events) \cup Range(staged)
<1> DEFINE w == pending \o StagedWork
           p == Len(pending)
           q == Len(staged)
<1>1. /\ StagedWork \in Seq(Envelopes) /\ Len(StagedWork) = q
      /\ \A i \in 1 .. q : StagedWork[i] = [sequence |-> staged[i], kind |-> "event"]
      /\ pending \in Seq(Envelopes) /\ staged \in Seq(Reservable)
    BY ReservedTyped DEF QueueTyped
<1>2. p \in Nat /\ q \in Nat
    BY <1>1
<1>3. w \in Seq(Envelopes) /\ Len(w) = p + q
    BY <1>1
<1>4. \A i \in 1 .. p : w[i] = pending[i]
    BY <1>1
<1>5. ASSUME NEW i \in 1 .. q
      PROVE  /\ p + i \in 1 .. p + q
             /\ w[p + i].sequence = staged[i] /\ w[p + i].kind = "event"
    <2>1. p + i \in 1 .. p + q /\ ~(p + i <= p) /\ (p + i) - p = i
        BY <1>2
    <2>2. w[p + i] = StagedWork[i]
        BY <1>1, <1>2, <2>1
    <2>3. StagedWork[i] = [sequence |-> staged[i], kind |-> "event"]
        BY <1>1
    <2> HIDE DEF w, p, q
    <2> QED
        BY <2>1, <2>2, <2>3
<1>6. ASSUME NEW k \in 1 .. p + q PROVE k \in 1 .. p \/ \E i \in 1 .. q : k = p + i
    <2>1. ~(k <= p) => k - p \in 1 .. q /\ k = p + (k - p)
        BY <1>2
    <2> QED
        BY <1>2, <2>1
<1>7. \A i \in 1 .. p : i \in 1 .. p + q
    BY <1>2
<1>8. Range(staged) = {staged[i] : i \in 1 .. q}
    BY <1>1 DEF Range
<1> HIDE DEF w, p, q
<1>9. In(w) = In(pending) \cup Range(staged)
    <2>1. ASSUME NEW n \in In(w) PROVE n \in In(pending) \cup Range(staged)
        <3>1. PICK k \in 1 .. p + q : w[k].sequence = n
            BY <1>3 DEF In
        <3>2. CASE k \in 1 .. p
            BY <1>4, <3>1, <3>2 DEF In, p
        <3>3. CASE \E i \in 1 .. q : k = p + i
            BY <1>5, <1>8, <3>1, <3>3
        <3> QED
            BY <1>6, <3>2, <3>3
    <2>2. \A n \in In(pending) : n \in In(w)
        BY <1>3, <1>4, <1>7 DEF In, p
    <2>3. \A n \in Range(staged) : n \in In(w)
        BY <1>3, <1>5, <1>8 DEF In
    <2> QED
        BY <2>1, <2>2, <2>3
<1>10. SequencesOf(w, Critical) = SequencesOf(pending, Critical)
    <2>1. \A n \in SequencesOf(w, Critical) : n \in SequencesOf(pending, Critical)
        BY <1>3, <1>4, <1>5, <1>6 DEF SequencesOf, p, Critical
    <2>2. \A n \in SequencesOf(pending, Critical) : n \in SequencesOf(w, Critical)
        BY <1>3, <1>4, <1>7 DEF SequencesOf, p
    <2> QED
        BY <2>1, <2>2
<1>11. SequencesOf(w, Events) = SequencesOf(pending, Events) \cup Range(staged)
    <2>1. ASSUME NEW n \in SequencesOf(w, Events)
          PROVE  n \in SequencesOf(pending, Events) \cup Range(staged)
        <3>1. PICK k \in 1 .. p + q : w[k].kind \in Events /\ w[k].sequence = n
            BY <1>3 DEF SequencesOf
        <3>2. CASE k \in 1 .. p
            BY <1>4, <3>1, <3>2 DEF SequencesOf, p
        <3>3. CASE \E i \in 1 .. q : k = p + i
            BY <1>5, <1>8, <3>1, <3>3
        <3> QED
            BY <1>6, <3>2, <3>3
    <2>2. \A n \in SequencesOf(pending, Events) : n \in SequencesOf(w, Events)
        BY <1>3, <1>4, <1>7 DEF SequencesOf, p
    <2>3. \A n \in Range(staged) : n \in SequencesOf(w, Events)
        BY <1>3, <1>5, <1>8 DEF SequencesOf, Events
    <2> QED
        BY <2>1, <2>2, <2>3
<1>12. Ascends(w)
    <2>1. ASSUME NEW a \in 1 .. p + q, NEW b \in 1 .. p + q, a < b
          PROVE  w[a].sequence < w[b].sequence
        <3>1. CASE a \in 1 .. p /\ b \in 1 .. p
            BY <1>4, <2>1, <3>1 DEF Ordered, Ascends, p
        <3>2. CASE a \in 1 .. p /\ \E i \in 1 .. q : b = p + i
            <4>1. PICK i \in 1 .. q : b = p + i
                BY <3>2
            <4>2. w[a].sequence \in In(pending) /\ w[b].sequence \in Range(staged)
                BY <1>4, <1>5, <1>8, <3>2, <4>1 DEF In, p
            <4> QED
                BY <4>2 DEF Ordered
        <3>3. CASE (\E i \in 1 .. q : a = p + i) /\ (\E i \in 1 .. q : b = p + i)
            <4>1. PICK i \in 1 .. q : a = p + i
                BY <3>3
            <4>2. PICK j \in 1 .. q : b = p + j
                BY <3>3
            <4>3. i < j
                BY <1>2, <2>1, <4>1, <4>2
            <4>4. staged[i] < staged[j]
                BY <4>3 DEF Ordered, Grows, q
            <4> QED
                BY <1>5, <4>1, <4>2, <4>4
        <3>4. CASE (\E i \in 1 .. q : a = p + i) /\ b \in 1 .. p
            BY <1>2, <2>1, <3>4
        <3> QED
            BY <1>6, <3>1, <3>2, <3>3, <3>4
    <2> QED
        BY <1>3, <2>1 DEF Ascends
<1> QED
    BY <1>3, <1>9, <1>10, <1>11, <1>12 DEF w
-------------------------------------------------------------------------------
(* What calls and returns do to the work the calls hold.                     *)

Sequence(f) == IF Carries(f) THEN {f.sequence} \ {0} ELSE {}
Barred(f) == IF f.kind = "input" /\ f.stage = "prior" THEN {f.sequence} ELSE {}

LEMMA HeldPush ==
    ASSUME NEW s \in Seq(Frames), NEW f \in Frames
    PROVE  /\ Held(Append(s, f)) = Held(s) \cup Sequence(f)
           /\ HeldOnce(Append(s, f)) <=> HeldOnce(s) /\ \A n \in Sequence(f) : n \notin Held(s)
           /\ Waits(Append(s, f)) = Waits(s) \cup Barred(f)
<1> DEFINE t == Append(s, f)
           n == Len(s) + 1
<1>1. /\ Len(s) \in Nat /\ t \in Seq(Frames) /\ Len(t) = n
      /\ \A i \in 1 .. Len(s) : t[i] = s[i]
      /\ t[n] = f
    BY AppendOf
<1>i. \A i \in 1 .. n : i = n \/ i \in 1 .. Len(s)
    BY <1>1
<1>n. n \in 1 .. n /\ \A i \in 1 .. Len(s) : i \in 1 .. n /\ i # n
    BY <1>1
<1> HIDE DEF t, n
<1>2. Held(t) = Held(s) \cup Sequence(f)
    <2>1. \A x \in Held(t) : x \in Held(s) \cup Sequence(f)
        BY <1>1, <1>i DEF Held, Sequence
    <2>2. \A x \in Held(s) : x \in Held(t)
        BY <1>1, <1>n DEF Held
    <2>3. \A x \in Sequence(f) : x \in Held(t)
        BY <1>1, <1>n DEF Held, Sequence
    <2> QED
        BY <2>1, <2>2, <2>3
<1>3. Waits(t) = Waits(s) \cup Barred(f)
    <2>1. \A x \in Waits(t) : x \in Waits(s) \cup Barred(f)
        BY <1>1, <1>i DEF Waits, Barred
    <2>2. \A x \in Waits(s) : x \in Waits(t)
        BY <1>1, <1>n DEF Waits
    <2>3. \A x \in Barred(f) : x \in Waits(t)
        BY <1>1, <1>n DEF Waits, Barred
    <2> QED
        BY <2>1, <2>2, <2>3
<1>4. ASSUME HeldOnce(t) PROVE HeldOnce(s) /\ \A x \in Sequence(f) : x \notin Held(s)
    <2>1. \A i, j \in 1 .. n : Carries(t[i]) /\ Carries(t[j]) /\ t[i].sequence = t[j].sequence =>
              i = j \/ t[i].sequence = 0
        BY <1>1, <1>4 DEF HeldOnce
    <2>2. HeldOnce(s)
        BY <1>1, <1>n, <2>1 DEF HeldOnce
    <2>3. ASSUME NEW x \in Sequence(f), x \in Held(s) PROVE FALSE
        <3>1. Carries(f) /\ f.sequence = x /\ x # 0
            BY DEF Sequence
        <3>2. PICK i \in 1 .. Len(s) : Carries(s[i]) /\ s[i].sequence = x
            BY <2>3 DEF Held
        <3> QED
            BY <1>1, <1>n, <2>1, <3>1, <3>2
    <2> QED
        BY <2>2, <2>3
<1>5. ASSUME HeldOnce(s), \A x \in Sequence(f) : x \notin Held(s) PROVE HeldOnce(t)
    <2>1. ASSUME NEW i \in 1 .. n, NEW j \in 1 .. n, Carries(t[i]), Carries(t[j]),
                 t[i].sequence = t[j].sequence, t[i].sequence # 0
          PROVE  i = j
        <3>1. CASE i \in 1 .. Len(s) /\ j \in 1 .. Len(s)
            BY <1>1, <1>5, <2>1, <3>1 DEF HeldOnce
        <3>2. CASE i \in 1 .. Len(s) /\ j = n
            <4>1. s[i].sequence \in Held(s) /\ s[i].sequence \in Sequence(f)
                BY <1>1, <2>1, <3>2 DEF Held, Sequence
            <4> QED
                BY <1>5, <4>1
        <3>3. CASE i = n /\ j \in 1 .. Len(s)
            <4>1. s[j].sequence \in Held(s) /\ s[j].sequence \in Sequence(f)
                BY <1>1, <2>1, <3>3 DEF Held, Sequence
            <4> QED
                BY <1>5, <4>1
        <3> QED
            BY <1>i, <3>1, <3>2, <3>3
    <2> QED
        BY <1>1, <2>1 DEF HeldOnce
<1> QED
    BY <1>2, <1>3, <1>4, <1>5 DEF t

LEMMA HeldPop ==
    ASSUME NEW s \in Seq(Frames), s # <<>>, NEW f, f = s[Len(s)]
    PROVE  /\ Held(s) = Held(Front(s)) \cup Sequence(f)
           /\ HeldOnce(s) <=> HeldOnce(Front(s)) /\ \A n \in Sequence(f) : n \notin Held(Front(s))
           /\ Waits(s) = Waits(Front(s)) \cup Barred(f)
<1>1. /\ Len(s) \in Nat \ {0} /\ Front(s) \in Seq(Frames) /\ Len(Front(s)) = Len(s) - 1
      /\ \A i \in 1 .. Len(s) - 1 : Front(s)[i] = s[i]
      /\ f \in Frames
    BY FrontOf
<1>2. PICK t \in Seq(Frames) : t = Front(s)
    BY <1>1
<1>3. /\ Append(t, f) \in Seq(Frames) /\ Len(Append(t, f)) = Len(t) + 1
      /\ \A i \in 1 .. Len(t) : Append(t, f)[i] = t[i]
      /\ Append(t, f)[Len(t) + 1] = f
    BY <1>1, <1>2, AppendOf
<1>4. PICK u \in Seq(Frames) : u = Append(t, f)
    BY <1>3
<1>5. Len(u) = Len(s)
    BY <1>1, <1>2, <1>3, <1>4
<1>6. \A i \in 1 .. Len(s) : u[i] = s[i]
    BY <1>1, <1>2, <1>3, <1>4
<1>7. u = s
    BY <1>4, <1>5, <1>6
<1>8. /\ Held(Append(t, f)) = Held(t) \cup Sequence(f)
      /\ HeldOnce(Append(t, f)) <=> HeldOnce(t) /\ \A n \in Sequence(f) : n \notin Held(t)
      /\ Waits(Append(t, f)) = Waits(t) \cup Barred(f)
    BY <1>1, HeldPush
<1>9. Append(t, f) = s
    BY <1>4, <1>7
<1> QED
    BY <1>2, <1>8, <1>9

\* A call or return that takes over no work.
Quiet(s, t) == Held(t) = Held(s) /\ (HeldOnce(s) => HeldOnce(t)) /\ Waits(t) = Waits(s)
Empty(f) == Sequence(f) = {} /\ Barred(f) = {}

LEMMA Empties ==
    ASSUME NEW f, \/ f.kind \in {"critical", "lease", "drain", "work", "released", "converge"}
                  \/ f.kind = "borrow" /\ f.sequence = 0
                  \/ f.kind = "input" /\ f.stage # "prior"
    PROVE  Empty(f)
BY DEF Empty, Sequence, Barred, Carries

LEMMA QuietPush ==
    ASSUME NEW s \in Seq(Frames), NEW f \in Frames, Empty(f) PROVE Quiet(s, Append(s, f))
<1>1. /\ Held(Append(s, f)) = Held(s) \cup Sequence(f)
      /\ HeldOnce(Append(s, f)) <=> HeldOnce(s) /\ \A n \in Sequence(f) : n \notin Held(s)
      /\ Waits(Append(s, f)) = Waits(s) \cup Barred(f)
    BY HeldPush
<1>2. Sequence(f) = {} /\ Barred(f) = {}
    BY DEF Empty
<1>3. \A n \in Sequence(f) : n \notin Held(s)
    BY <1>2
<1> QED
    BY <1>1, <1>2, <1>3 DEF Quiet

LEMMA QuietPop ==
    ASSUME NEW s \in Seq(Frames), s # <<>>, Empty(s[Len(s)]) PROVE Quiet(s, Front(s))
<1> DEFINE f == s[Len(s)]
<1>1. /\ Held(s) = Held(Front(s)) \cup Sequence(f)
      /\ HeldOnce(s) <=> HeldOnce(Front(s)) /\ \A n \in Sequence(f) : n \notin Held(Front(s))
      /\ Waits(s) = Waits(Front(s)) \cup Barred(f)
    BY HeldPop
<1>2. Sequence(f) = {} /\ Barred(f) = {}
    BY DEF Empty
<1> QED
    BY <1>1, <1>2 DEF Quiet

LEMMA QuietSwap ==
    ASSUME NEW s \in Seq(Frames), s # <<>>, Empty(s[Len(s)]), NEW f \in Frames, Empty(f)
    PROVE  Quiet(s, Append(Front(s), f)) /\ Append(Front(s), f) \in Seq(Frames)
<1>1. Quiet(s, Front(s)) /\ Front(s) \in Seq(Frames)
    BY QuietPop, FrontOf
<1>2. Quiet(Front(s), Append(Front(s), f)) /\ Append(Front(s), f) \in Seq(Frames)
    BY <1>1, QuietPush, AppendOf
<1> QED
    BY <1>1, <1>2 DEF Quiet
-------------------------------------------------------------------------------
(* The accounts as sets: P is queued, G staged and H held, W waits at a      *)
(* barrier, C are the completions and E the events in the queue.             *)

Books(P, G, H, W, C, E, next, open, last, fence, end) ==
    /\ \A m \in P, n \in G : m < n
    /\ \A n \in P \cup G \cup H : n < next
    /\ \A n \in H : n \notin P /\ n \notin G
    /\ \A n \in Reservable : open[n] = "pending" <=> n \in P \cup G \cup H
    /\ C # {} => fence
    /\ \A m, n \in C : m = n
    /\ end => P = {} /\ G = {}
    /\ last < next
    /\ \A n \in E \cup G : n > last
    /\ \A w \in W : w > last /\ \A n \in G : n > w

LEMMA NoWork ==
    /\ \A w \in Seq(Envelopes) : In(w) = {} <=> w = <<>>
    /\ \A s \in Seq(Reservable) : Range(s) = {} <=> s = <<>>
    /\ In(<<>>) = {} /\ Range(<<>>) = {} /\ Ascends(<<>>) /\ Grows(<<>>)
    /\ \A K : SequencesOf(<<>>, K) = {}
<1>1. ASSUME NEW w \in Seq(Envelopes), w # <<>> PROVE In(w) # {}
    <2>1. 1 \in 1 .. Len(w)
        BY <1>1
    <2>2. w[1].sequence \in In(w)
        BY <2>1 DEF In
    <2> QED
        BY <2>2
<1>2. ASSUME NEW s \in Seq(Reservable), s # <<>> PROVE Range(s) # {}
    <2>1. 1 \in DOMAIN s
        BY <1>2
    <2>2. s[1] \in Range(s)
        BY <2>1 DEF Range
    <2> QED
        BY <2>2
<1>3. Len(<<>>) = 0 /\ DOMAIN <<>> = {} /\ \A i \in 1 .. Len(<<>>) : FALSE
    OBVIOUS
<1>4. /\ In(<<>>) = {} /\ Range(<<>>) = {} /\ Ascends(<<>>) /\ Grows(<<>>)
      /\ \A K : SequencesOf(<<>>, K) = {}
    BY <1>3 DEF In, Range, Ascends, Grows, SequencesOf
<1> QED
    BY <1>1, <1>2, <1>4

LEMMA SetTypes ==
    ASSUME QueueTyped, stack \in Seq(Frames)
    PROVE  /\ In(pending) \subseteq Reservable /\ Range(staged) \subseteq Reservable
           /\ Held(stack) \subseteq Nat \ {0} /\ Waits(stack) \subseteq Nat
           /\ \A w \in Waits(stack) : w # 0 => w \in Held(stack)
           /\ SequencesOf(pending, Critical) \subseteq In(pending)
           /\ SequencesOf(pending, Events) \subseteq In(pending)
           /\ Reservable \subseteq Nat \ {0} /\ next_sequence \in Nat \ {0} /\ handled \in Nat
<1>1. In(pending) \subseteq Reservable
    BY EnvelopesIn DEF QueueTyped, In
<1>2. Range(staged) \subseteq Reservable
    <2>1. staged \in Seq(Reservable) /\ DOMAIN staged = 1 .. Len(staged)
        BY DEF QueueTyped
    <2>2. \A i \in 1 .. Len(staged) : staged[i] \in Reservable
        BY <2>1
    <2> QED
        BY <2>1, <2>2 DEF Range
<1>3. \A i \in 1 .. Len(stack) : stack[i] \in Frames
    OBVIOUS
<1>4. \A f \in Frames : f.sequence \in Nat
    BY IngressConstants DEF Frames
<1>5. \A i \in 1 .. Len(stack) : stack[i].sequence \in Nat
    BY <1>3, <1>4
<1>6. Held(stack) \subseteq Nat \ {0} /\ Waits(stack) \subseteq Nat
    BY <1>5 DEF Held, Waits
<1>7. \A w \in Waits(stack) : w # 0 => w \in Held(stack)
    BY DEF Waits, Held, Carries
<1>8. \A K : SequencesOf(pending, K) \subseteq In(pending)
    BY DEF SequencesOf, In
<1>9. Reservable \subseteq Nat \ {0} /\ next_sequence \in Nat \ {0} /\ handled \in Nat
    BY IngressConstants DEF Reservable, QueueTyped
<1> QED
    BY <1>1, <1>2, <1>6, <1>7, <1>8, <1>9

LEMMA Audit ==
    ASSUME QueueTyped, Accounts
    PROVE  Books(In(pending), Range(staged), Held(stack), Waits(stack),
                 SequencesOf(pending, Critical), SequencesOf(pending, Events), next_sequence,
                 settled, handled, fenced, terminated)
BY NoWork DEF Accounts, Ordered, Accounted, CompletionFenced, HandledFirst, Books, QueueTyped

LEMMA AuditLater ==
    ASSUME QueueTyped', Ascends(pending'), Grows(staged'), HeldOnce(stack'),
           NEW P, NEW G, NEW H, NEW W, NEW C, NEW E,
           P = In(pending'), G = Range(staged'), H = Held(stack'), W = Waits(stack'),
           C = SequencesOf(pending', Critical), E = SequencesOf(pending', Events),
           Books(P, G, H, W, C, E, next_sequence', settled', handled', fenced', terminated')
    PROVE  Accounts'
<1>1. Ordered' /\ Accounted' /\ HandledFirst'
    BY DEF Ordered, Accounted, HandledFirst, Books
<1>2. CompletionFenced'
    <2>1. pending' \in Seq(Envelopes) /\ staged' \in Seq(Reservable)
        BY DEF QueueTyped
    <2>2. terminated' => pending' = <<>> /\ staged' = <<>>
        BY <2>1, NoWork DEF Books
    <2> QED
        BY <2>2 DEF CompletionFenced, Books
<1> QED
    BY <1>1, <1>2 DEF Accounts

\* The books after the staged callbacks were imported.
LEMMA ImportBooks ==
    ASSUME QueueTyped, Accounts, stack \in Seq(Frames)
    PROVE  /\ Imported \in Seq(Envelopes) /\ Ascends(Imported)
           /\ SequencesOf(Imported, Critical) = SequencesOf(pending, Critical)
           /\ Books(In(Imported), {}, Held(stack), Waits(stack), SequencesOf(Imported, Critical),
                    SequencesOf(Imported, Events), next_sequence, ImportSettled, handled, fenced,
                    terminated)
           /\ Refuses("event") => Imported = pending
<1> DEFINE P == In(pending)
           G == Range(staged)
           H == Held(stack)
           E == SequencesOf(pending, Events)
           C == SequencesOf(pending, Critical)
<1>1. Books(P, G, H, Waits(stack), C, E, next_sequence, settled, handled, fenced, terminated)
    BY Audit
<1>2. P \subseteq Reservable /\ G \subseteq Reservable /\ Reservable \subseteq Nat
    BY SetTypes
<1>3. \A n \in Reservable : Settled(G, "closed")[n] = IF n \in G THEN "closed" ELSE settled[n]
    BY DEF Settled
<1>4. CASE Refuses("event")
    <2>1. Imported = pending /\ ImportSettled = Settled(G, "closed")
        BY <1>4 DEF Imported, ImportSettled
    <2> HIDE DEF P, G, H, E, C
    <2>2. Books(P, {}, H, Waits(stack), C, E, next_sequence, Settled(G, "closed"), handled,
                fenced, terminated)
        <3>1. \A n \in G : n \notin P
            BY <1>1, <1>2 DEF Books
        <3> QED
            BY <1>1, <1>3, <3>1 DEF Books
    <2> QED
        BY <2>1, <2>2 DEF P, G, H, E, C, Accounts, Ordered, QueueTyped
<1>5. CASE ~Refuses("event")
    <2>1. Imported = pending \o StagedWork /\ ImportSettled = settled /\ ~terminated
        BY <1>5 DEF Imported, ImportSettled, Refuses
    <2>2. /\ Imported \in Seq(Envelopes) /\ Ascends(Imported)
          /\ In(Imported) = P \cup G /\ SequencesOf(Imported, Critical) = C
          /\ SequencesOf(Imported, Events) = E \cup G
        BY <2>1, JoinWork DEF Accounts
    <2> HIDE DEF P, G, H, E, C
    <2>3. Books(P \cup G, {}, H, Waits(stack), C, E \cup G, next_sequence, settled, handled,
                fenced, terminated)
        BY <1>1, <2>1 DEF Books
    <2> QED
        BY <1>5, <2>1, <2>2, <2>3 DEF C, H
<1> QED
    BY <1>4, <1>5

\* Where the App is idle, an input at its barrier is the call on top.
LEMMA BarredTop ==
    ASSUME Nesting, AppIdle, NEW w \in Waits(stack)
    PROVE  stack # <<>> /\ Top.kind = "input" /\ Top.stage = "prior" /\ w = Top.sequence
<1>1. PICK i \in 1 .. Len(stack) :
          stack[i].kind = "input" /\ stack[i].stage = "prior" /\ stack[i].sequence = w
    BY DEF Waits
<1>2. stack # <<>> /\ Len(stack) \in Nat /\ Top = stack[Len(stack)]
    BY <1>1, TopFrame DEF Nesting, IngressTypeOK
<1>3. ~(i < Len(stack))
    <2>1. SUFFICES ASSUME i < Len(stack) PROVE FALSE
        OBVIOUS
    <2>2. stack[i + 1].kind = "deliver" /\ i + 1 \in 1 .. Len(stack)
        BY <1>1, <1>2, <2>1 DEF Nesting, Nest, NestedIn
    <2> QED
        BY <2>2 DEF AppIdle, Holding
<1> QED
    BY <1>1, <1>2, <1>3
-------------------------------------------------------------------------------
(* Calls that take over no work and settle none.                             *)

LEMMA DrainBelow ==
    ASSUME Nesting, stack # <<>>, Top.kind = "drain" PROVE Quiet(Below, AfterDrain)
<1>1. Below \in Seq(Frames)
    BY TopFrame
<1>3. \/ AfterDrain = Below
      \/ \E g \in Frames : /\ Below # <<>> /\ Below[Len(Below)].kind = "converge"
                           /\ g.kind = "converge" /\ AfterDrain = Append(Front(Below), g)
    BY AfterDrainNest
<1>4. ASSUME NEW g \in Frames, Below # <<>>, Below[Len(Below)].kind = "converge",
             g.kind = "converge", AfterDrain = Append(Front(Below), g)
      PROVE  Quiet(Below, AfterDrain)
    <2>1. Empty(Below[Len(Below)]) /\ Empty(g)
        BY <1>4, Empties
    <2> QED
        BY <1>1, <1>4, <2>1, QuietSwap
<1>5. AfterDrain = Below => Quiet(Below, AfterDrain)
    BY DEF Quiet
<1> QED
    BY <1>3, <1>4, <1>5

LEMMA QuietDrain ==
    ASSUME Nesting, stack # <<>>, Top.kind = "drain" PROVE Quiet(stack, AfterDrain)
<1>1. /\ Top = stack[Len(stack)] /\ Below = Front(stack) /\ stack \in Seq(Frames)
    BY TopFrame DEF Nesting, IngressTypeOK
<1>2. Quiet(stack, Below)
    <2>1. Empty(Top)
        BY Empties
    <2> QED
        BY <1>1, <2>1, QuietPop
<1> QED
    BY <1>2, DrainBelow DEF Quiet

LEMMA QuietSteps ==
    ASSUME Nesting,
           \/ Borrow \/ RunWake \/ RunStaleWake \/ RunRecovery \/ RunConvergence
           \/ BorrowReleased \/ ConvergePass \/ ConvergeCritical \/ CriticalEnds \/ ConvergeEnds
           \/ StartWork \/ FinishWork \/ FinishDrain \/ DrainBlocks \/ InputEnds \/ LeaseEnds
           \/ Panic \/ Send \/ UNCHANGED ingressVars
    PROVE  /\ Quiet(stack, stack')
           /\ UNCHANGED <<next_sequence, staged, pending, fenced, terminated, settled, handled>>
<1>s. stack \in Seq(Frames) /\ IngressTypeOK
    BY DEF Nesting, IngressTypeOK
<1>top. ASSUME stack # <<>>
        PROVE  /\ Top \in Frames /\ Top = stack[Len(stack)] /\ Below = Front(stack)
               /\ Below \in Seq(Frames)
    BY <1>s, <1>top, TopFrame
<1>z. 0 \in 0 .. MaxSequence + Budget /\ Budget \in 0 .. MaxSequence + Budget
    BY IngressConstants
<1>push. ASSUME NEW f \in Frames, Empty(f), stack' = Append(stack, f) PROVE Quiet(stack, stack')
    BY <1>s, <1>push, QuietPush
<1>pop. ASSUME stack # <<>>, Empty(Top), stack' = Below PROVE Quiet(stack, stack')
    BY <1>s, <1>pop, <1>top, QuietPop
<1>swap. ASSUME stack # <<>>, Empty(Top), NEW f \in Frames, Empty(f)
         PROVE  Quiet(stack, Replace(f)) /\ Replace(f) \in Seq(Frames)
    BY <1>s, <1>swap, <1>top, QuietSwap DEF Replace
<1>two. ASSUME stack # <<>>, Empty(Top), NEW f \in Frames, Empty(f), NEW g \in Frames, Empty(g),
               stack' = Replace(f) \o <<g>>
        PROVE  Quiet(stack, stack')
    <2>1. PICK t \in Seq(Frames) : t = Replace(f) /\ Quiet(stack, t)
        BY <1>two, <1>swap
    <2>2. stack' = Append(t, g)
        BY <1>two, <2>1, PushTwo
    <2>3. Quiet(t, stack')
        BY <1>two, <2>1, <2>2, QuietPush
    <2> QED
        BY <2>1, <2>3 DEF Quiet
<1>f. /\ Frame("borrow", "run", 0, FALSE) \in Frames
      /\ Frame("work", "live", 0, FALSE) \in Frames
      /\ Frame("work", "stale", 0, FALSE) \in Frames
      /\ Frame("work", "none", 0, FALSE) \in Frames
      /\ Frame("released", "run", 0, FALSE) \in Frames
      /\ Frame("critical", "run", 0, FALSE) \in Frames
      /\ Frame("drain", "run", 0, FALSE) \in Frames
      /\ Frame("drain", "run", 0, TRUE) \in Frames
      /\ Frame("converge", "first", Budget, retained) \in Frames
    BY <1>s, <1>z DEF Frame, Frames, IngressTypeOK
<1>e. /\ Empty(Frame("borrow", "run", 0, FALSE))
      /\ Empty(Frame("work", "live", 0, FALSE))
      /\ Empty(Frame("work", "stale", 0, FALSE))
      /\ Empty(Frame("work", "none", 0, FALSE))
      /\ Empty(Frame("released", "run", 0, FALSE))
      /\ Empty(Frame("critical", "run", 0, FALSE))
      /\ Empty(Frame("drain", "run", 0, FALSE))
      /\ Empty(Frame("drain", "run", 0, TRUE))
      /\ Empty(Frame("converge", "first", Budget, retained))
    BY DEF Frame, Empty, Sequence, Barred, Carries
<1>q. UNCHANGED <<next_sequence, staged, pending, fenced, terminated, settled, handled>>
    <2>1. CASE Borrow \/ RunWake \/ RunStaleWake \/ RunRecovery \/ RunConvergence
        BY <2>1 DEF Borrow, RunWake, RunStaleWake, RunRecovery, RunConvergence, sequencerVars,
           queueVars, fenceVars, historyVars
    <2>2. CASE BorrowReleased \/ ConvergePass \/ ConvergeCritical \/ CriticalEnds \/ ConvergeEnds
        BY <2>2 DEF BorrowReleased, ConvergePass, ConvergeCritical, CriticalEnds, ConvergeEnds,
           sequencerVars, queueVars, fenceVars, historyVars
    <2>3. CASE StartWork \/ FinishWork \/ FinishDrain \/ InputEnds \/ LeaseEnds
        BY <2>3 DEF StartWork, FinishWork, FinishDrain, InputEnds, LeaseEnds,
           sequencerVars, queueVars, fenceVars, historyVars
    <2>4. CASE DrainBlocks \/ Panic \/ Send \/ UNCHANGED ingressVars
        BY <2>4 DEF DrainBlocks, PutBack, Panic, Send, ingressVars, sequencerVars, queueVars,
           fenceVars, historyVars
    <2> QED
        BY <2>1, <2>2, <2>3, <2>4
<1>1. ASSUME Borrow \/ RunWake \/ RunStaleWake \/ RunRecovery \/ RunConvergence
      PROVE  Quiet(stack, stack')
    <2>1. \/ stack' = Append(stack, Frame("borrow", "run", 0, FALSE))
          \/ stack' = Append(stack, Frame("work", "live", 0, FALSE))
          \/ stack' = Append(stack, Frame("work", "stale", 0, FALSE))
          \/ stack' = Append(stack, Frame("released", "run", 0, FALSE))
        BY <1>1 DEF Borrow, RunWake, RunStaleWake, RunRecovery, RunConvergence, PushFrame
    <2> QED
        BY <2>1, <1>f, <1>e, <1>push
<1>2. ASSUME BorrowReleased PROVE Quiet(stack, stack')
    <2>1. /\ stack # <<>> /\ Top.kind = "released"
          /\ stack' = Below \/ stack' = Replace(Frame("converge", "first", Budget, retained))
        BY <1>2 DEF BorrowReleased, TopIs
    <2>2. Empty(Top)
        BY <2>1, Empties
    <2> QED
        BY <2>1, <2>2, <1>f, <1>e, <1>pop, <1>swap
<1>3. ASSUME ConvergePass PROVE Quiet(stack, stack')
    <2>1. /\ stack # <<>> /\ Top.kind = "converge"
          /\ \/ stack' = Replace(NextStage)
             \/ stack' = Replace(NextStage) \o <<Frame("drain", "run", 0, TRUE)>>
        BY <1>3 DEF ConvergePass, TopIs
    <2>2. NextStage \in Frames /\ NextStage.kind = "converge"
        BY <2>1, NextStageTyped
    <2>3. Empty(Top) /\ Empty(NextStage)
        BY <2>1, <2>2, Empties
    <2> QED
        BY <2>1, <2>2, <2>3, <1>f, <1>e, <1>swap, <1>two
<1>4. ASSUME ConvergeCritical PROVE Quiet(stack, stack')
    <2> DEFINE g == [Top EXCEPT !.stage = "second"]
    <2>1. /\ stack # <<>> /\ Top.kind = "converge"
          /\ \/ stack' = Replace(g)
             \/ stack' = Replace(g) \o <<Frame("critical", "run", 0, FALSE)>>
        BY <1>4 DEF ConvergeCritical, TopIs
    <2>2. g \in Frames /\ g.kind = "converge"
        BY <1>top, <2>1, TopGoesOn
    <2> HIDE DEF g
    <2>3. Empty(Top) /\ Empty(g)
        BY <2>1, <2>2, Empties
    <2> QED
        BY <2>1, <2>2, <2>3, <1>f, <1>e, <1>swap, <1>two
<1>5. ASSUME CriticalEnds \/ ConvergeEnds PROVE Quiet(stack, stack')
    <2>1. stack # <<>> /\ Top.kind \in {"critical", "converge"} /\ stack' = Below
        BY <1>5 DEF CriticalEnds, ConvergeEnds, TopIs
    <2>2. Empty(Top)
        BY <2>1, Empties
    <2> QED
        BY <2>1, <2>2, <1>pop
<1>6. ASSUME StartWork PROVE Quiet(stack, stack')
    <2> DEFINE g == [Top EXCEPT !.stage = "post"]
    <2>1. stack # <<>> /\ Top.kind = "work"
        BY <1>6 DEF StartWork, TopIs
    <2>2. \/ stack' = Below \/ stack' = Replace(g)
          \/ stack' = Replace(g) \o <<Frame("drain", "run", 0, FALSE)>>
        BY <1>6 DEF StartWork
    <2>3. g \in Frames /\ g.kind = "work"
        BY <1>top, <2>1, TopGoesOn
    <2> HIDE DEF g
    <2>4. Empty(Top) /\ Empty(g)
        BY <2>1, <2>3, Empties
    <2> QED
        BY <2>1, <2>2, <2>3, <2>4, <1>f, <1>e, <1>pop, <1>swap, <1>two
<1>7. ASSUME FinishWork \/ LeaseEnds PROVE Quiet(stack, stack')
    <2>1. /\ stack # <<>> /\ Top.kind \in {"work", "lease"}
          /\ stack' = Below \/ stack' = Replace(Frame("released", "run", 0, FALSE))
        BY <1>7 DEF FinishWork, LeaseEnds, TopIs
    <2>2. Empty(Top)
        BY <2>1, Empties
    <2> QED
        BY <2>1, <2>2, <1>f, <1>e, <1>pop, <1>swap
<1>8. ASSUME InputEnds PROVE Quiet(stack, stack')
    <2>1. /\ stack # <<>> /\ Top.kind = "input" /\ Top.stage = "after"
          /\ stack' = Below \/ stack' = Replace(Frame("work", "none", 0, FALSE))
        BY <1>8 DEF InputEnds, TopIs
    <2>2. Empty(Top)
        BY <2>1, Empties
    <2> QED
        BY <2>1, <2>2, <1>f, <1>e, <1>pop, <1>swap
<1>9. ASSUME FinishDrain \/ DrainBlocks PROVE Quiet(stack, stack')
    <2>1. stack # <<>> /\ Top.kind = "drain" /\ stack' = AfterDrain
        BY <1>9 DEF FinishDrain, DrainBlocks, Looping, TopIs
    <2> QED
        BY <2>1, QuietDrain
<1>10. ASSUME Panic \/ Send \/ UNCHANGED ingressVars PROVE Quiet(stack, stack')
    BY <1>10 DEF Panic, Send, ingressVars, stackVars, Quiet
<1> QED
    BY <1>q, <1>1, <1>2, <1>3, <1>4, <1>5, <1>6, <1>7, <1>8, <1>9, <1>10
-------------------------------------------------------------------------------
(* The accounts stay right.                                                  *)

\* What the returned call held is held no longer.
LEMMA PopHeld ==
    ASSUME Nesting, HeldOnce(stack), stack # <<>>, NEW t, Quiet(Below, t)
    PROVE  /\ Held(stack) = Held(t) \cup Sequence(Top) /\ HeldOnce(t)
           /\ \A n \in Sequence(Top) : n \notin Held(t)
           /\ Waits(stack) = Waits(t) \cup Barred(Top)
<1>1. stack \in Seq(Frames) /\ Top = stack[Len(stack)] /\ Below = Front(stack)
    BY TopFrame DEF Nesting, IngressTypeOK
<1>2. /\ Held(stack) = Held(Below) \cup Sequence(Top)
      /\ HeldOnce(Below) /\ \A n \in Sequence(Top) : n \notin Held(Below)
      /\ Waits(stack) = Waits(Below) \cup Barred(Top)
    BY <1>1, HeldPop
<1> QED
    BY <1>2 DEF Quiet

\* Work is settled when the call that held it returns.
LEMMA SettleSteps ==
    ASSUME Nesting, Accounts, QueueTyped',
           UNCHANGED <<next_sequence, staged, pending, fenced, terminated, handled>>,
           stack # <<>>, NEW t, Quiet(Below, t), stack' = t, NEW d, d # "pending",
           \A n \in Reservable : settled'[n] = IF n \in Sequence(Top) THEN d ELSE settled[n]
    PROVE  Accounts'
<1> DEFINE P == In(pending)
           G == Range(staged)
           H == Held(stack')
           W == Waits(stack')
           C == SequencesOf(pending, Critical)
           E == SequencesOf(pending, Events)
           S == Sequence(Top)
<1>1. QueueTyped /\ HeldOnce(stack)
    BY FitsParts DEF Accounts, Accounted
<1>2. /\ Held(stack) = H \cup S /\ HeldOnce(stack') /\ \A n \in S : n \notin H
      /\ Waits(stack) = W \cup Barred(Top)
    BY <1>1, PopHeld
<1>3. Books(P, G, Held(stack), Waits(stack), C, E, next_sequence, settled, handled, fenced,
            terminated)
    BY <1>1, Audit
<1> HIDE DEF P, G, H, W, C, E, S
<1>4. Books(P, G, H, W, C, E, next_sequence', settled', handled', fenced', terminated')
    BY <1>2, <1>3 DEF Books, S
<1>5. Ascends(pending') /\ Grows(staged')
    BY DEF Accounts, Ordered
<1> QED
    BY <1>2, <1>4, <1>5, AuditLater DEF P, G, H, W, C, E

\* A call takes work from the queue, and starts its handler or not.
LEMMA TakeSteps ==
    ASSUME Nesting, Accounts, QueueTyped', NEW n \in In(pending), NEW f \in Frames,
           f.kind \in {"deliver", "command"}, f.sequence = n, stack' = Append(stack, f),
           Ascends(pending'), In(pending') = In(pending) \ {n},
           \A K : SequencesOf(pending', K) = SequencesOf(pending, K) \ {n},
           UNCHANGED <<next_sequence, staged, fenced, terminated, settled>>,
           \/ handled' = handled
           \/ /\ handled' = n
              /\ \A m \in SequencesOf(pending', Events) : m > n
              /\ \A w \in Waits(stack) : w > n
    PROVE  Accounts'
<1> DEFINE P == In(pending)
           G == Range(staged)
           H == Held(stack)
           W == Waits(stack)
           C == SequencesOf(pending, Critical)
           E == SequencesOf(pending, Events)
<1>1. QueueTyped /\ HeldOnce(stack) /\ stack \in Seq(Frames)
    BY FitsParts DEF Accounts, Accounted, Nesting, IngressTypeOK
<1>2. Books(P, G, H, W, C, E, next_sequence, settled, handled, fenced, terminated)
    BY <1>1, Audit
<1>3. n \in Reservable /\ n # 0 /\ Reservable \subseteq Nat /\ G \subseteq Nat
    BY <1>1, SetTypes
<1>4. Sequence(f) = {n} /\ Barred(f) = {}
    BY <1>3 DEF Sequence, Barred, Carries
<1>5. n \notin H
    BY <1>2 DEF Books
<1>6. Held(stack') = H \cup {n} /\ HeldOnce(stack') /\ Waits(stack') = W
    <2>1. /\ Held(Append(stack, f)) = H \cup Sequence(f)
          /\ HeldOnce(Append(stack, f)) <=> HeldOnce(stack) /\ \A m \in Sequence(f) : m \notin H
          /\ Waits(Append(stack, f)) = W \cup Barred(f)
        BY <1>1, HeldPush
    <2>2. \A m \in Sequence(f) : m \notin H
        BY <1>4, <1>5
    <2> HIDE DEF H, W
    <2> QED
        BY <1>1, <1>4, <2>1, <2>2
<1>7. SequencesOf(pending', Critical) = C \ {n} /\ SequencesOf(pending', Events) = E \ {n}
    OBVIOUS
<1>8. Grows(staged')
    BY DEF Accounts, Ordered
<1>9. \A m \in G : m > n
    BY <1>2, <1>3 DEF Books
<1>h. \/ handled' = handled
      \/ handled' = n /\ (\A m \in E \ {n} : m > n) /\ \A w \in W : w > n
    BY <1>7
<1> HIDE DEF P, G, H, W, C, E
<1>a. n \in P
    BY DEF P
<1>10. Books(P \ {n}, G, H \cup {n}, W, C \ {n}, E \ {n}, next_sequence', settled', handled',
             fenced', terminated')
    <2>1. /\ \A x \in P \ {n}, y \in G : x < y
          /\ \A x \in (P \ {n}) \cup G \cup (H \cup {n}) : x < next_sequence
          /\ \A x \in H \cup {n} : x \notin P \ {n} /\ x \notin G
          /\ \A x \in Reservable : settled[x] = "pending" <=> x \in (P \ {n}) \cup G \cup (H \cup {n})
        BY <1>2, <1>3, <1>9, <1>a DEF Books
    <2>2. /\ C \ {n} # {} => fenced
          /\ \A x, y \in C \ {n} : x = y
          /\ terminated => P \ {n} = {} /\ G = {}
        BY <1>2 DEF Books
    <2>3. handled' < next_sequence
        BY <1>2, <1>a, <1>h DEF Books
    <2>4. \A x \in (E \ {n}) \cup G : x > handled'
        BY <1>2, <1>9, <1>h DEF Books
    <2>5. \A w \in W : w > handled' /\ \A x \in G : x > w
        BY <1>2, <1>h DEF Books
    <2> QED
        BY <2>1, <2>2, <2>3, <2>4, <2>5 DEF Books
<1> QED
    BY <1>6, <1>7, <1>8, <1>10, AuditLater DEF P, G, H, W

\* A new sequence is accepted behind what was imported, or closed.
LEMMA AcceptSteps ==
    ASSUME Nesting, Accounts, QueueTyped',
           NEW kind \in {"event", "frame", "command", "completion"}, Accept(kind),
           kind = "completion" => fenced /\ SequencesOf(pending, Critical) = {},
           UNCHANGED <<fenced, terminated, handled, stack>>
    PROVE  Accounts'
<1> DEFINE w == Imported
           P == In(w)
           H == Held(stack)
           W == Waits(stack)
           C == SequencesOf(w, Critical)
           E == SequencesOf(w, Events)
           n == next_sequence
           e == [sequence |-> n, kind |-> kind]
<1>1. QueueTyped /\ HeldOnce(stack) /\ stack \in Seq(Frames)
    BY FitsParts DEF Accounts, Accounted, Nesting, IngressTypeOK
<1>2. /\ w \in Seq(Envelopes) /\ Ascends(w) /\ C = SequencesOf(pending, Critical)
      /\ Books(P, {}, H, W, C, E, n, ImportSettled, handled, fenced, terminated)
      /\ Refuses("event") => w = pending
    BY <1>1, ImportBooks
<1>3. n \in Reservable /\ n' = n + 1 /\ staged' = <<>> /\ n \in Nat /\ handled \in Nat
    BY <1>1, SetTypes DEF Accept, Reserved
<1>4. ImportSettled \in [Reservable -> Dispositions]
    BY <1>1, ReservedTyped
<1>5. Range(staged') = {} /\ Grows(staged')
    BY <1>3, NoWork
<1>6. P \subseteq Nat /\ H \subseteq Nat /\ W \subseteq Nat /\ E \subseteq P
      /\ C \subseteq P /\ \A x \in W : x # 0 => x \in H
    <2>1. /\ H \subseteq Nat /\ W \subseteq Nat /\ Reservable \subseteq Nat
          /\ \A x \in W : x # 0 => x \in H
        BY <1>1, SetTypes
    <2>2. P \subseteq Reservable
        BY <1>2, EnvelopesIn DEF In
    <2>3. E \subseteq P /\ C \subseteq P
        BY DEF SequencesOf, In
    <2> QED
        BY <2>1, <2>2, <2>3
<1>7. CASE Refuses(kind)
    <2>1. pending' = w /\ settled' = [ImportSettled EXCEPT ![n] = "closed"]
        BY <1>7 DEF Accept, Reserved
    <2>2. \A m \in Reservable : settled'[m] = IF m = n THEN "closed" ELSE ImportSettled[m]
        BY <1>3, <1>4, <2>1
    <2> HIDE DEF w, P, H, W, C, E, n, e
    <2>3. Books(P, {}, H, W, C, E, n', settled', handled', fenced', terminated')
        BY <1>2, <1>3, <1>6, <2>2 DEF Books
    <2> QED
        BY <1>1, <1>2, <1>5, <2>1, <2>3, AuditLater DEF P, H, W, C, E, n
<1>8. CASE ~Refuses(kind)
    <2> DEFINE drop == Coalesces(w, kind)
               base == IF drop THEN Front(w) ELSE w
               X == IF drop THEN {Last(w).sequence} ELSE {}
    <2>0. e \in Envelopes /\ e.sequence = n /\ e.kind = kind
        BY <1>3 DEF Envelopes
    <2>1. /\ pending' = Append(base, e)
          /\ settled' = [m \in Reservable |->
                            IF m = n THEN "pending"
                            ELSE IF drop /\ m = Last(w).sequence THEN "coalesced"
                            ELSE ImportSettled[m]]
        BY <1>8 DEF Accept, Reserved, Enqueued
    <2>2. \A m \in Reservable :
              settled'[m] = IF m = n THEN "pending"
                            ELSE IF m \in X THEN "coalesced" ELSE ImportSettled[m]
        BY <2>1
    <2>t. ~terminated
        BY <1>8 DEF Refuses
    <2> HIDE DEF w, P, H, W, C, E, n, e
    <2>3. drop => w # <<>>
        BY DEF Coalesces
    <2>4. /\ base \in Seq(Envelopes) /\ In(base) = P \ X /\ Ascends(base) /\ X \subseteq P
          /\ SequencesOf(base, Critical) = C \ X /\ SequencesOf(base, Events) = E \ X
        <3>1. CASE drop
            BY <1>2, <2>3, <3>1, FrontOf, FrontWork DEF P, C, E
        <3>2. CASE ~drop
            BY <1>2, <3>2 DEF P, C, E
        <3> QED
            BY <3>1, <3>2
    <2> HIDE DEF base, X, drop
    <2>5. \A x \in P \ X : x < n
        BY <1>2 DEF Books
    <2>6. /\ In(pending') = (P \ X) \cup {n} /\ Ascends(pending')
          /\ SequencesOf(pending', Critical) =
                (C \ X) \cup (IF kind \in Critical THEN {n} ELSE {})
          /\ SequencesOf(pending', Events) =
                (E \ X) \cup (IF kind \in Events THEN {n} ELSE {})
        BY <2>0, <2>1, <2>4, <2>5, AddWork
    <2> DEFINE C1 == (C \ X) \cup (IF kind \in Critical THEN {n} ELSE {})
               E1 == (E \ X) \cup (IF kind \in Events THEN {n} ELSE {})
    <2>7. (C1 # {} => fenced) /\ \A x, y \in C1 : x = y
        <3>1. CASE kind = "completion"
            BY <1>2, <3>1 DEF Critical, C
        <3>2. CASE kind # "completion"
            BY <1>2, <3>2 DEF Critical, Books
        <3> QED
            BY <3>1, <3>2
    <2>8. Books((P \ X) \cup {n}, {}, H, W, C1, E1, n', settled', handled', fenced', terminated')
        <3>1. /\ \A x \in ((P \ X) \cup {n}) \cup {} \cup H : x < n'
              /\ \A x \in H : x \notin (P \ X) \cup {n}
            BY <1>2, <1>3, <1>6 DEF Books
        <3>2. \A x \in Reservable : settled'[x] = "pending" <=> x \in ((P \ X) \cup {n}) \cup {} \cup H
            BY <1>2, <2>2, <2>4 DEF Books
        <3>3. handled' < n' /\ \A x \in E1 \cup {} : x > handled'
            BY <1>2, <1>3, <1>6 DEF Books
        <3>4. \A x \in W : x > handled'
            BY <1>2 DEF Books
        <3> QED
            BY <2>7, <2>t, <3>1, <3>2, <3>3, <3>4 DEF Books
    <2> QED
        BY <1>1, <1>5, <2>6, <2>8, AuditLater DEF H, W, n
<1> QED
    BY <1>7, <1>8
\* An input or a close request gets the sequence behind what was imported.
LEMMA BeginSteps ==
    ASSUME Nesting, Accounts, QueueTyped', next_sequence \in Reservable,
           next_sequence' = next_sequence + 1, staged' = <<>>, pending' = Imported,
           UNCHANGED <<fenced, terminated>>, NEW t \in Seq(Frames), Quiet(stack, t),
           \/ /\ stack' = t /\ handled' = handled
              /\ settled' = [ImportSettled EXCEPT ![next_sequence] = "rejected"]
           \/ /\ settled' = [ImportSettled EXCEPT ![next_sequence] = "pending"]
              /\ \E f \in Frames : /\ Sequence(f) = {next_sequence} /\ stack' = Append(t, f)
                                   /\ \/ handled' = handled /\ Barred(f) = {next_sequence}
                                      \/ /\ handled' = next_sequence /\ Barred(f) = {}
                                         /\ Waits(stack) = {} /\ Imported = <<>>
    PROVE  Accounts'
<1> DEFINE P == In(Imported)
           H == Held(stack)
           W == Waits(stack)
           C == SequencesOf(Imported, Critical)
           E == SequencesOf(Imported, Events)
           n == next_sequence
<1>1. QueueTyped /\ HeldOnce(stack) /\ stack \in Seq(Frames)
    BY FitsParts DEF Accounts, Accounted, Nesting, IngressTypeOK
<1>2. /\ Imported \in Seq(Envelopes) /\ Ascends(Imported)
      /\ Books(P, {}, H, W, C, E, n, ImportSettled, handled, fenced, terminated)
    BY <1>1, ImportBooks
<1>3. n \in Nat /\ handled \in Nat /\ n # 0
    BY <1>1, SetTypes
<1>4. ImportSettled \in [Reservable -> Dispositions]
    BY <1>1, ReservedTyped
<1>5. Range(staged') = {} /\ Grows(staged')
    BY NoWork
<1>6. P \subseteq Nat /\ H \subseteq Nat /\ W \subseteq Nat /\ E \subseteq P
      /\ \A x \in W : x # 0 => x \in H
    <2>1. /\ H \subseteq Nat /\ W \subseteq Nat /\ Reservable \subseteq Nat
          /\ \A x \in W : x # 0 => x \in H
        BY <1>1, SetTypes
    <2>2. P \subseteq Reservable
        BY <1>2, EnvelopesIn DEF In
    <2>3. E \subseteq P
        BY DEF SequencesOf, In
    <2> QED
        BY <2>1, <2>2, <2>3
<1>7. Held(t) = H /\ HeldOnce(t) /\ Waits(t) = W
    BY <1>1 DEF Quiet
<1>8. CASE /\ stack' = t /\ handled' = handled
           /\ settled' = [ImportSettled EXCEPT ![next_sequence] = "rejected"]
    <2>1. \A m \in Reservable : settled'[m] = IF m = n THEN "rejected" ELSE ImportSettled[m]
        BY <1>4, <1>8
    <2>2. Held(stack') = H /\ HeldOnce(stack') /\ Waits(stack') = W
        BY <1>7, <1>8
    <2> HIDE DEF P, H, W, C, E, n
    <2>3. Books(P, {}, H, W, C, E, n', settled', handled', fenced', terminated')
        BY <1>2, <1>3, <1>6, <1>8, <2>1 DEF Books, n
    <2> QED
        BY <1>2, <1>5, <2>2, <2>3, AuditLater DEF P, C, E, n
<1>9. ASSUME settled' = [ImportSettled EXCEPT ![next_sequence] = "pending"],
             NEW f \in Frames, Sequence(f) = {next_sequence}, stack' = Append(t, f),
             \/ handled' = handled /\ Barred(f) = {next_sequence}
             \/ /\ handled' = next_sequence /\ Barred(f) = {}
                /\ Waits(stack) = {} /\ Imported = <<>>
      PROVE  Accounts'
    <2>1. \A m \in Reservable : settled'[m] = IF m = n THEN "pending" ELSE ImportSettled[m]
        BY <1>4, <1>9
    <2>2. n \notin H
        BY <1>2, <1>3, <1>6 DEF Books
    <2>3. /\ Held(Append(t, f)) = Held(t) \cup Sequence(f)
          /\ HeldOnce(Append(t, f)) <=> HeldOnce(t) /\ \A m \in Sequence(f) : m \notin Held(t)
          /\ Waits(Append(t, f)) = Waits(t) \cup Barred(f)
        BY HeldPush
    <2> HIDE DEF P, H, W, C, E
    <2>4. \A m \in Sequence(f) : m \notin Held(t)
        BY <1>7, <1>9, <2>2
    <2>5. /\ Held(stack') = H \cup {n} /\ HeldOnce(stack')
          /\ Waits(stack') = W \cup Barred(f)
        BY <1>7, <1>9, <2>3, <2>4
    <2>6. CASE handled' = handled /\ Barred(f) = {next_sequence}
        <3> HIDE DEF n
        <3>1. Books(P, {}, H \cup {n}, W \cup {n}, C, E, n', settled', handled', fenced', terminated')
            BY <1>2, <1>3, <1>6, <2>1, <2>2, <2>6 DEF Books, n
        <3>2. Waits(stack') = W \cup {n}
            BY <2>5, <2>6 DEF n
        <3> QED
            BY <1>2, <1>5, <2>5, <3>1, <3>2, AuditLater DEF P, C, E, n
    <2>7. CASE /\ handled' = next_sequence /\ Barred(f) = {}
               /\ Waits(stack) = {} /\ Imported = <<>>
        <3>1. W = {} /\ P = {} /\ E = {} /\ C = {} /\ Waits(stack') = {}
            BY <2>5, <2>7, NoWork DEF P, E, W, C
        <3> HIDE DEF n
        <3>2. Books({}, {}, H \cup {n}, {}, {}, {}, n', settled', handled', fenced', terminated')
            <4>1. \A x \in Reservable : settled'[x] = "pending" <=> x \in {} \cup {} \cup (H \cup {n})
                BY <1>2, <2>1, <3>1 DEF Books
            <4>2. \A x \in {} \cup {} \cup (H \cup {n}) : x < n'
                <5>1. \A x \in H : x < n /\ x \in Nat
                    BY <1>2, <1>6 DEF Books
                <5>2. n' = n + 1 /\ n \in Nat
                    BY <1>3 DEF n
                <5>3. \A x \in H : x < n'
                    BY <5>1, <5>2
                <5>4. n < n'
                    BY <5>2
                <5> QED
                    BY <5>3, <5>4
            <4>3. handled' < n'
                BY <1>3, <2>7 DEF n
            <4> QED
                BY <4>1, <4>2, <4>3 DEF Books
        <3> QED
            BY <1>2, <1>5, <2>5, <3>1, <3>2, AuditLater DEF P, C, E, n
    <2> QED
        BY <1>9, <2>6, <2>7
<1> QED
    BY <1>8, <1>9

LEMMA StageSteps == Nesting /\ Accounts /\ QueueTyped' /\ Stage => Accounts'
<1> SUFFICES ASSUME Nesting, Accounts, QueueTyped', Stage PROVE Accounts'
    OBVIOUS
<1> DEFINE P == In(pending)
           G == Range(staged)
           H == Held(stack)
           W == Waits(stack)
           C == SequencesOf(pending, Critical)
           E == SequencesOf(pending, Events)
           n == next_sequence
<1>1. QueueTyped /\ HeldOnce(stack) /\ stack \in Seq(Frames)
    BY FitsParts DEF Accounts, Accounted, Nesting, IngressTypeOK
<1>2. Books(P, G, H, W, C, E, n, settled, handled, fenced, terminated)
    BY <1>1, Audit
<1>3. /\ n \in Reservable /\ staged' = Append(staged, n) /\ next_sequence' = n + 1 /\ ~terminated
      /\ settled' = [settled EXCEPT ![n] = "pending"]
      /\ UNCHANGED <<pending, stack, handled, fenced, terminated>>
    BY DEF Stage, queueVars, stackVars, fenceVars
<1>4. /\ n \in Nat /\ handled \in Nat /\ P \subseteq Nat /\ G \subseteq Nat /\ H \subseteq Nat
      /\ W \subseteq Nat /\ \A x \in W : x # 0 => x \in H
    BY <1>1, SetTypes
<1>5. \A m \in Reservable : settled'[m] = IF m = n THEN "pending" ELSE settled[m]
    BY <1>1, <1>3 DEF QueueTyped
<1>6. staged \in Seq(Reservable) /\ Grows(staged)
    BY <1>1 DEF QueueTyped, Accounts, Ordered
<1>7. /\ Len(staged) \in Nat /\ staged' \in Seq(Reservable) /\ Len(staged') = Len(staged) + 1
      /\ \A i \in 1 .. Len(staged) : staged'[i] = staged[i]
      /\ staged'[Len(staged) + 1] = n
    BY <1>3, <1>6, AppendOf
<1>8. G = {staged[i] : i \in 1 .. Len(staged)} /\ Range(staged') = {staged'[i] : i \in 1 .. Len(staged')}
    BY <1>6, <1>7 DEF Range
<1>i. \A i \in 1 .. Len(staged') : i = Len(staged) + 1 \/ i \in 1 .. Len(staged)
    BY <1>7
<1>j. Len(staged) + 1 \in 1 .. Len(staged') /\ \A i \in 1 .. Len(staged) : i \in 1 .. Len(staged')
    BY <1>7
<1> HIDE DEF P, G, H, W, C, E, n
<1>9. Range(staged') = G \cup {n}
    <2>1. \A x \in Range(staged') : x \in G \cup {n}
        BY <1>7, <1>8, <1>i
    <2>2. \A x \in G : x \in Range(staged')
        BY <1>7, <1>8, <1>j
    <2>3. n \in Range(staged')
        BY <1>7, <1>8, <1>j
    <2> QED
        BY <2>1, <2>2, <2>3
<1>10. Grows(staged')
    <2>1. ASSUME NEW i \in 1 .. Len(staged'), NEW j \in 1 .. Len(staged'), i < j
          PROVE  staged'[i] < staged'[j]
        <3>1. i \in 1 .. Len(staged) /\ staged'[i] = staged[i] /\ staged[i] \in G
            BY <1>7, <1>8, <1>i, <2>1
        <3>2. CASE j \in 1 .. Len(staged)
            BY <1>6, <1>7, <2>1, <3>1, <3>2 DEF Grows
        <3>3. CASE j = Len(staged) + 1
            BY <1>2, <1>7, <3>1, <3>3 DEF Books
        <3> QED
            BY <1>i, <3>2, <3>3
    <2> QED
        BY <2>1 DEF Grows
<1>11. Books(P, G \cup {n}, H, W, C, E, n + 1, settled', handled', fenced', terminated')
    <2>1. /\ \A x \in P, y \in G \cup {n} : x < y
          /\ \A x \in P \cup (G \cup {n}) \cup H : x < n + 1
        BY <1>2, <1>4 DEF Books
    <2>2. /\ \A x \in H : x \notin P /\ x \notin G \cup {n}
          /\ \A x \in Reservable : settled'[x] = "pending" <=> x \in P \cup (G \cup {n}) \cup H
        BY <1>2, <1>4, <1>5 DEF Books
    <2>3. \A w \in W : w > handled /\ w # 0 /\ w \in H /\ w < n
        BY <1>2, <1>4 DEF Books
    <2>4. /\ C # {} => fenced
          /\ (\A x, y \in C : x = y) /\ handled < n + 1
          /\ \A x \in E \cup (G \cup {n}) : x > handled
        BY <1>2, <1>4 DEF Books
    <2>5. \A w \in W : w > handled /\ \A x \in G \cup {n} : x > w
        BY <1>2, <1>4, <2>3 DEF Books
    <2> QED
        BY <1>3, <2>1, <2>2, <2>4, <2>5 DEF Books
<1>12. /\ P = In(pending') /\ H = Held(stack') /\ W = Waits(stack') /\ HeldOnce(stack')
       /\ C = SequencesOf(pending', Critical) /\ E = SequencesOf(pending', Events)
       /\ Ascends(pending')
    BY <1>1, <1>3 DEF P, H, W, C, E, Accounts, Ordered
<1> QED
    BY <1>3, <1>9, <1>10, <1>11, <1>12, AuditLater

\* Nothing that an account is kept of changes.
LEMMA QuietAccounts ==
    ASSUME Nesting, Accounts, QueueTyped', Quiet(stack, stack'),
           UNCHANGED <<next_sequence, staged, pending, fenced, terminated, settled, handled>>
    PROVE  Accounts'
<1>1. QueueTyped /\ HeldOnce(stack)
    BY FitsParts DEF Accounts, Accounted
<1>2. Books(In(pending), Range(staged), Held(stack), Waits(stack),
            SequencesOf(pending, Critical), SequencesOf(pending, Events), next_sequence,
            settled, handled, fenced, terminated)
    BY <1>1, Audit
<1>3. Held(stack') = Held(stack) /\ HeldOnce(stack') /\ Waits(stack') = Waits(stack)
    BY <1>1 DEF Quiet
<1>4. Ascends(pending') /\ Grows(staged')
    BY DEF Accounts, Ordered
<1> QED
    BY <1>2, <1>3, <1>4, AuditLater

LEMMA ImportSteps == Nesting /\ Accounts /\ QueueTyped' /\ Import => Accounts'
<1> SUFFICES ASSUME Nesting, Accounts, QueueTyped', Import PROVE Accounts'
    OBVIOUS
<1>1. QueueTyped /\ HeldOnce(stack) /\ stack \in Seq(Frames)
    BY FitsParts DEF Accounts, Accounted, Nesting, IngressTypeOK
<1>2. UNCHANGED <<next_sequence, fenced, terminated, stack, handled>>
    BY DEF Import, fenceVars, stackVars
<1>3. CASE terminated
    <2>1. UNCHANGED <<staged, pending, settled>>
        BY <1>3 DEF Import
    <2>2. Quiet(stack, stack')
        BY <1>2 DEF Quiet
    <2> QED
        BY <1>2, <2>1, <2>2, QuietAccounts
<1>4. CASE ~terminated
    <2>1. staged' = <<>> /\ pending' = Imported /\ settled' = ImportSettled
        BY <1>4 DEF Import
    <2>2. /\ Ascends(Imported)
          /\ Books(In(Imported), {}, Held(stack), Waits(stack), SequencesOf(Imported, Critical),
                   SequencesOf(Imported, Events), next_sequence, ImportSettled, handled, fenced,
                   terminated)
        BY <1>1, ImportBooks
    <2>3. Range(staged') = {} /\ Grows(staged')
        BY <2>1, NoWork
    <2>4. Ascends(pending') /\ HeldOnce(stack')
        BY <1>1, <1>2, <2>1, <2>2
    <2> QED
        BY <1>2, <2>1, <2>2, <2>3, <2>4, AuditLater
<1> QED
    BY <1>3, <1>4

LEMMA FenceSteps == Nesting /\ Accounts /\ QueueTyped' /\ BeginShutdown => Accounts'
<1> SUFFICES ASSUME Nesting, Accounts, QueueTyped', BeginShutdown PROVE Accounts'
    OBVIOUS
<1> DEFINE P == In(pending)
           G == Range(staged)
           H == Held(stack)
           W == Waits(stack)
           C == SequencesOf(pending, Critical)
           E == SequencesOf(pending, Events)
<1>1. QueueTyped /\ HeldOnce(stack) /\ stack \in Seq(Frames)
    BY FitsParts DEF Accounts, Accounted, Nesting, IngressTypeOK
<1>2. Books(P, G, H, W, C, E, next_sequence, settled, handled, fenced, terminated)
    BY <1>1, Audit
<1>3. UNCHANGED <<next_sequence, staged, terminated, stack, handled>> /\ fenced' = TRUE
    BY DEF BeginShutdown, sequencerVars, stackVars
<1>4. pending' = <<>> /\ settled' = Settled(P, "closed")
    BY <1>1, FenceEmpties DEF BeginShutdown, Accounts
<1>5. \A m \in Reservable : settled'[m] = IF m \in P THEN "closed" ELSE settled[m]
    BY <1>4 DEF Settled
<1>6. P \subseteq Nat /\ G \subseteq Nat
    BY <1>1, SetTypes
<1>7. /\ In(pending') = {} /\ SequencesOf(pending', Critical) = {}
      /\ SequencesOf(pending', Events) = {} /\ Ascends(pending')
    BY <1>4, NoWork
<1>8. /\ G = Range(staged') /\ H = Held(stack') /\ W = Waits(stack') /\ HeldOnce(stack')
      /\ Grows(staged')
    BY <1>1, <1>3 DEF Accounts, Ordered
<1> HIDE DEF P, G, H, W, C, E
<1>9. Books({}, G, H, W, {}, {}, next_sequence', settled', handled', fenced', terminated')
    <2>1. \A n \in P : n \notin G
        BY <1>2, <1>6 DEF Books
    <2> QED
        BY <1>2, <1>3, <1>5, <2>1 DEF Books
<1> QED
    BY <1>7, <1>8, <1>9, AuditLater

LEMMA CompletionSteps == Nesting /\ Accounts /\ QueueTyped' /\ DrainCompletion => Accounts'
<1> SUFFICES ASSUME Nesting, Accounts, QueueTyped', DrainCompletion PROVE Accounts'
    OBVIOUS
<1> DEFINE P == In(pending)
           G == Range(staged)
           H == Held(stack)
           W == Waits(stack)
           C == SequencesOf(pending, Critical)
           E == SequencesOf(pending, Events)
           n == FirstPending.sequence
<1>1. QueueTyped /\ HeldOnce(stack) /\ stack \in Seq(Frames)
    BY FitsParts DEF Accounts, Accounted, Nesting, IngressTypeOK
<1>2. Books(P, G, H, W, C, E, next_sequence, settled, handled, fenced, terminated)
    BY <1>1, Audit
<1>3. UNCHANGED <<next_sequence, stack, handled>> /\ pending # <<>>
    BY DEF DrainCompletion, stackVars, Pops
<1>4. pending \in Seq(Envelopes) /\ Ascends(pending) /\ Grows(staged)
    BY <1>1 DEF QueueTyped, Accounts, Ordered
<1>5. /\ In(Tail(pending)) = P \ {n} /\ Ascends(Tail(pending)) /\ n \in P
      /\ \A K : SequencesOf(Tail(pending), K) = SequencesOf(pending, K) \ {n}
    BY <1>3, <1>4, TailWork DEF FirstPending
<1>6. n \in C
    <2>1. Head(pending) = pending[1] /\ 1 \in 1 .. Len(pending)
        BY <1>3, <1>4, EnvelopeTail
    <2>2. FirstPending.kind = "completion"
        BY DEF DrainCompletion
    <2> QED
        BY <2>1, <2>2 DEF SequencesOf, Critical, FirstPending
<1>7. P \subseteq Nat /\ G \subseteq Nat
    BY <1>1, SetTypes
<1>8. H = Held(stack') /\ W = Waits(stack') /\ HeldOnce(stack')
    BY <1>1, <1>3
<1>9. CASE /\ Terminate
           /\ settled' = [m \in Reservable |->
                             IF m = n THEN "delivered"
                             ELSE IF m \in In(pending) \cup Range(staged) THEN "closed"
                             ELSE settled[m]]
           /\ UNCHANGED fenced
    <2>1. terminated' = TRUE /\ pending' = <<>> /\ staged' = <<>>
        BY <1>9 DEF Terminate
    <2>2. /\ In(pending') = {} /\ SequencesOf(pending', Critical) = {}
          /\ SequencesOf(pending', Events) = {} /\ Ascends(pending')
          /\ Range(staged') = {} /\ Grows(staged')
        BY <2>1, NoWork
    <2>3. \A m \in Reservable : settled'[m] = IF m = n THEN "delivered"
                                              ELSE IF m \in P \cup G THEN "closed" ELSE settled[m]
        BY <1>9
    <2> HIDE DEF P, G, H, W, C, E, n
    <2>4. Books({}, {}, H, W, {}, {}, next_sequence', settled', handled', fenced', terminated')
        BY <1>2, <1>3, <1>5, <2>3 DEF Books
    <2> QED
        BY <1>8, <2>2, <2>4, AuditLater
<1>10. CASE /\ fenced' = FALSE /\ pending' = Tail(pending)
            /\ settled' = Settled({FirstPending.sequence}, "delivered")
            /\ UNCHANGED <<terminated, staged>>
    <2>1. \A m \in Reservable : settled'[m] = IF m = n THEN "delivered" ELSE settled[m]
        BY <1>10 DEF Settled
    <2>2. /\ In(pending') = P \ {n} /\ SequencesOf(pending', Critical) = C \ {n}
          /\ SequencesOf(pending', Events) = E \ {n} /\ Ascends(pending')
          /\ Range(staged') = G /\ Grows(staged')
        BY <1>4, <1>5, <1>10
    <2> HIDE DEF P, G, H, W, C, E, n
    <2>3. C \ {n} = {}
        BY <1>2, <1>6 DEF Books
    <2>4. n \notin G /\ n \notin H
        BY <1>2, <1>5, <1>7 DEF Books
    <2>5. Books(P \ {n}, G, H, W, C \ {n}, E \ {n}, next_sequence', settled', handled', fenced',
                terminated')
        BY <1>2, <1>3, <1>10, <2>1, <2>3, <2>4 DEF Books
    <2> QED
        BY <1>8, <2>2, <2>5, AuditLater
<1> QED
    BY <1>9, <1>10 DEF DrainCompletion
\* The handler of an input that has nothing older ahead of it starts.
LEMMA HandledSteps == Nesting /\ Accounts /\ QueueTyped' /\ InputHandled => Accounts'
<1> SUFFICES ASSUME Nesting, Accounts, QueueTyped', InputHandled PROVE Accounts'
    OBVIOUS
<1> DEFINE P == In(pending)
           G == Range(staged)
           H == Held(stack)
           W == Waits(stack)
           C == SequencesOf(pending, Critical)
           E == SequencesOf(pending, Events)
           n == Top.sequence
           g == [Top EXCEPT !.stage = "after"]
           f == Frame("deliver", "run", Top.sequence, FALSE)
<1>1. QueueTyped /\ HeldOnce(stack) /\ stack \in Seq(Frames)
    BY FitsParts DEF Accounts, Accounted, Nesting, IngressTypeOK
<1>2. Books(P, G, H, W, C, E, next_sequence, settled, handled, fenced, terminated)
    BY <1>1, Audit
<1>3. /\ stack # <<>> /\ Top.kind = "input" /\ Top.stage = "prior" /\ AppIdle
      /\ PriorEvents = {} /\ handled' = n /\ stack' = Append(Append(Below, g), f)
      /\ UNCHANGED <<next_sequence, staged, pending, fenced, terminated, settled>>
    BY DEF InputHandled, AtBarrier, TopIs, Ahead, sequencerVars, queueVars, fenceVars, Replace
<1>4. /\ Top \in Frames /\ Top = stack[Len(stack)] /\ Below = Front(stack)
      /\ Below \in Seq(Frames)
    BY <1>3, TopFrame
<1>5. g \in Frames /\ g.kind = "input" /\ g.stage = "after"
    BY <1>3, <1>4, TopGoesOn
<1>6. f \in Frames /\ f.kind = "deliver" /\ f.sequence = n
    BY <1>3, <1>4 DEF Frame, Frames
<1>7. /\ Held(stack) = Held(Below) \cup Sequence(Top) /\ HeldOnce(Below)
      /\ \A m \in Sequence(Top) : m \notin Held(Below)
      /\ Waits(stack) = Waits(Below) \cup Barred(Top)
    BY <1>1, <1>4, <1>3, HeldPop
<1>8. Barred(Top) = {n} /\ Sequence(Top) = {n} \ {0} /\ Sequence(f) = {n} \ {0} /\ Barred(f) = {}
    <2> HIDE DEF f
    <2> QED
        BY <1>3, <1>6 DEF Barred, Sequence, Carries
<1>9. n \in W
    BY <1>7, <1>8
<1>types. /\ P \subseteq Nat /\ G \subseteq Nat /\ H \subseteq Nat \ {0} /\ W \subseteq Nat
          /\ (\A w \in W : w # 0 => w \in H) /\ handled \in Nat /\ E \subseteq P
    BY <1>1, SetTypes
<1> HIDE DEF g, f
<1>10. PICK t \in Seq(Frames) : t = Append(Below, g) /\ Quiet(Below, t)
    <2>1. Empty(g)
        BY <1>5, Empties
    <2> QED
        BY <1>4, <1>5, <2>1, QuietPush, AppendOf
<1>11. /\ Held(Append(t, f)) = Held(t) \cup Sequence(f)
       /\ HeldOnce(Append(t, f)) <=> HeldOnce(t) /\ \A m \in Sequence(f) : m \notin Held(t)
       /\ Waits(Append(t, f)) = Waits(t) \cup Barred(f)
    BY <1>6, HeldPush
<1>12. Held(t) = Held(Below) /\ HeldOnce(t) /\ Waits(t) = Waits(Below)
    BY <1>7, <1>10 DEF Quiet
<1>13. \A m \in Sequence(f) : m \notin Held(t)
    BY <1>7, <1>8, <1>12
<1>14. Held(stack') = H /\ HeldOnce(stack') /\ Waits(stack') = Waits(Below)
    BY <1>3, <1>7, <1>8, <1>10, <1>11, <1>12, <1>13
<1>15. ASSUME NEW m \in E PROVE m > n
    <2>1. PICK i \in 1 .. Len(pending) : pending[i].kind \in Events /\ pending[i].sequence = m
        BY <1>15 DEF SequencesOf
    <2>2. m \in Nat /\ n \in Nat /\ m # n
        <3>1. m \in P /\ n \in Nat /\ m \in Nat
            BY <1>9, <1>15, <1>types
        <3>2. n # 0
            BY <1>2, <1>9, <1>types DEF Books
        <3>3. n \in H
            BY <1>9, <3>2, <1>types
        <3> QED
            BY <1>2, <3>1, <3>3 DEF Books
    <2>3. ASSUME m < n PROVE FALSE
        <3>1. \A j \in 1 .. i : pending[j].sequence < n
            <4>1. ASSUME NEW j \in 1 .. i PROVE pending[j].sequence < n
                <5>1. j \in 1 .. Len(pending) /\ (j = i \/ j < i)
                    OBVIOUS
                <5>2. pending[j].sequence \in P
                    BY <5>1 DEF In
                <5>3. CASE j = i
                    BY <2>1, <2>3, <5>3
                <5>4. CASE j < i
                    <6>1. pending[j].sequence < pending[i].sequence
                        BY <5>1, <5>4 DEF Accounts, Ordered, Ascends
                    <6>2. pending[j].sequence \in Nat
                        BY <5>2, <1>types
                    <6> QED
                        BY <2>1, <2>2, <2>3, <6>1, <6>2
                <5> QED
                    BY <5>1, <5>3, <5>4
            <4> QED
                BY <4>1
        <3>2. i \in PriorEvents
            BY <2>1, <3>1 DEF PriorEvents
        <3> QED
            BY <1>3, <3>2
    <2> QED
        BY <2>2, <2>3
<1>16. W = {n}
    <2>1. \A w \in W : w = n
        BY <1>3, BarredTop
    <2> QED
        BY <1>9, <2>1
<1>17. Waits(Below) \subseteq W
    BY <1>7
<1>18. \A w \in Waits(Below) : FALSE
    <2>1. ASSUME NEW w \in Waits(Below) PROVE FALSE
        <3>1. PICK i \in 1 .. Len(Below) : Below[i].kind = "input" /\ Below[i].stage = "prior"
            BY <2>1 DEF Waits
        <3>2. /\ Len(stack) \in Nat \ {0} /\ Len(Below) = Len(stack) - 1
              /\ \A j \in 1 .. Len(stack) - 1 : Below[j] = stack[j]
            BY <1>1, <1>3, <1>4, FrontOf
        <3>3. i \in 1 .. Len(stack) /\ i < Len(stack) /\ stack[i] = Below[i] /\ i + 1 \in 1 .. Len(stack)
            BY <3>2
        <3>4. stack[i + 1].kind = "deliver"
            BY <3>1, <3>3 DEF Nesting, Nest, NestedIn
        <3> QED
            BY <1>3, <3>3, <3>4 DEF AppIdle, Holding
    <2> QED
        BY <2>1
<1> HIDE DEF P, G, H, W, C, E, n
<1>19. n > handled /\ (\A m \in G : m > n) /\ n < next_sequence /\ n \in Nat
    <2>1. n > handled /\ \A m \in G : m > n
        BY <1>2, <1>9 DEF Books
    <2>2. n \in Nat /\ n # 0
        BY <1>9, <1>types, <2>1
    <2>3. n \in H
        BY <1>9, <2>2, <1>types
    <2> QED
        BY <1>2, <2>1, <2>2, <2>3 DEF Books
<1>20. Books(P, G, H, {}, C, E, next_sequence', settled', handled', fenced', terminated')
    BY <1>2, <1>3, <1>15, <1>19 DEF Books
<1>21. /\ P = In(pending') /\ G = Range(staged') /\ C = SequencesOf(pending', Critical)
       /\ E = SequencesOf(pending', Events) /\ Ascends(pending') /\ Grows(staged')
    BY <1>3 DEF P, G, C, E, Accounts, Ordered
<1>22. Waits(stack') = {}
    BY <1>14, <1>18
<1> QED
    BY <1>14, <1>20, <1>21, <1>22, AuditLater

LEMMA AccountSteps == Nesting /\ Accounts /\ [IngressNext]_ingressVars => Accounts'
<1> SUFFICES ASSUME Nesting, Accounts, [IngressNext]_ingressVars PROVE Accounts'
    OBVIOUS
<1>q. QueueTyped' /\ QueueTyped /\ HeldOnce(stack) /\ stack \in Seq(Frames)
    BY QueueSteps, FitsParts DEF Accounts, Accounted, Nesting, IngressTypeOK
<1>top. ASSUME stack # <<>>
        PROVE  /\ Top \in Frames /\ Top = stack[Len(stack)] /\ Below = Front(stack)
               /\ Below \in Seq(Frames)
    BY <1>top, TopFrame
<1>z. /\ 0 \in 0 .. MaxSequence + Budget
      /\ \A n \in Reservable : n \in 0 .. MaxSequence + Budget /\ n # 0
    BY IngressConstants DEF Reservable
<1>r. Reserved.work = Imported /\ Reserved.staged = <<>> /\ Reserved.settled = ImportSettled
    BY DEF Reserved
<1>p. /\ pending \in Seq(Envelopes) /\ Ascends(pending)
      /\ \A i \in 1 .. Len(pending) : pending[i].sequence \in Reservable
    BY <1>q, EnvelopesIn DEF QueueTyped, Accounts, Ordered
<1>one. ASSUME stack # <<>>, Top.kind \in {"borrow", "deliver", "command", "input"},
               Top.kind = "input" => Top.stage = "prior"
        PROVE  \A d : \A n \in Reservable :
                   Settled({Top.sequence}, d)[n] = IF n \in Sequence(Top) THEN d ELSE settled[n]
    BY <1>one, <1>z DEF Settled, Sequence, Carries
<1>none. ASSUME stack # <<>>, \/ Top.kind \in {"lease", "work", "drain", "converge", "critical"}
                              \/ Top.kind = "input" /\ Top.stage # "prior"
         PROVE  \A d : \A n \in Reservable :
                    Settled({}, d)[n] = IF n \in Sequence(Top) THEN d ELSE settled[n]
    BY <1>none DEF Settled, Sequence, Carries
<1>i. Quiet(Below, Below)
    BY DEF Quiet
<1>1. ASSUME NEW kind \in Kinds, Enqueue(kind) PROVE Accounts'
    <2>1. kind \in {"event", "frame", "command", "completion"}
        BY IngressConstants
    <2>2. Accept(kind) /\ UNCHANGED <<fenced, terminated, handled, stack>>
        BY <1>1 DEF Enqueue, fenceVars, stackVars
    <2>3. kind = "completion" => fenced /\ SequencesOf(pending, Critical) = {}
        BY <1>1 DEF Enqueue, SequencesOf, Critical
    <2> QED
        BY <1>q, <2>1, <2>2, <2>3, AcceptSteps
<1>2. ASSUME ShouldClose PROVE Accounts'
    <2>1. CASE AppIdle /\ DeliversInline(Reserved.work)
        <3> DEFINE w == Frame("work", "none", 0, FALSE)
                   b == Frame("borrow", "run", next_sequence, FALSE)
        <3>1. /\ next_sequence \in Reservable /\ next_sequence' = next_sequence + 1
              /\ staged' = <<>> /\ pending' = Imported /\ Imported = <<>>
              /\ settled' = [ImportSettled EXCEPT ![next_sequence] = "pending"]
              /\ handled' = next_sequence /\ stack' = stack \o <<w, b>>
              /\ UNCHANGED <<fenced, terminated>>
            BY <1>2, <1>r, <2>1 DEF ShouldClose, DeliversInline, fenceVars
        <3>2. w \in Frames /\ b \in Frames /\ w.kind = "work" /\ b.kind = "borrow"
              /\ b.sequence = next_sequence
            BY <1>z, <3>1 DEF Frame, Frames
        <3> HIDE DEF w, b
        <3>3. PICK t \in Seq(Frames) : t = Append(stack, w)
            BY <1>q, <3>2, AppendOf
        <3>4. stack' = Append(t, b)
            BY <1>q, <3>1, <3>2, <3>3, PushTwo
        <3>5. Quiet(stack, t)
            BY <1>q, <3>2, <3>3, QuietPush, Empties
        <3>6. Sequence(b) = {next_sequence} /\ Barred(b) = {}
            BY <1>z, <3>1, <3>2 DEF Sequence, Barred, Carries
        <3>7. Waits(stack) = {}
            <4>1. \A x \in Waits(stack) : stack # <<>> /\ Top.kind = "input"
                BY <2>1, BarredTop
            <4>2. stack # <<>> => Top.kind # "input"
                BY <1>2, NestableOpen DEF ShouldClose
            <4> QED
                BY <4>1, <4>2
        <3> QED
            BY <1>q, <3>1, <3>2, <3>4, <3>5, <3>6, <3>7, BeginSteps
    <2>2. CASE ~(AppIdle /\ DeliversInline(Reserved.work))
        <3>1. Accept("event") /\ UNCHANGED <<fenced, terminated, handled, stack>>
            BY <1>2, <2>2 DEF ShouldClose, fenceVars
        <3> QED
            BY <1>q, <3>1, AcceptSteps
    <2> QED
        BY <2>1, <2>2
<1>3. ASSUME InputBegins PROVE Accounts'
    <2> DEFINE l == Frame("lease", "run", 0, FALSE)
               f == Frame("input", "prior", next_sequence, Barrier = "root")
    <2>1. /\ next_sequence \in Reservable /\ next_sequence' = next_sequence + 1
          /\ staged' = <<>> /\ pending' = Imported /\ handled' = handled
          /\ settled' = [ImportSettled EXCEPT
                            ![next_sequence] = IF Barrier = "refused" THEN "rejected" ELSE "pending"]
          /\ stack' = IF Barrier = "refused" THEN Append(stack, l) ELSE Append(Append(stack, l), f)
          /\ UNCHANGED <<fenced, terminated>>
        BY <1>3, <1>r DEF InputBegins, PushFrame, fenceVars
    <2>2. /\ l \in Frames /\ l.kind = "lease" /\ f \in Frames /\ f.kind = "input"
          /\ f.stage = "prior" /\ f.sequence = next_sequence
        BY <1>z, <2>1 DEF Frame, Frames
    <2> HIDE DEF l, f
    <2>3. PICK t \in Seq(Frames) : t = Append(stack, l)
        BY <1>q, <2>2, AppendOf
    <2>4. Quiet(stack, t)
        BY <1>q, <2>2, <2>3, QuietPush, Empties
    <2>5. Sequence(f) = {next_sequence} /\ Barred(f) = {next_sequence}
        BY <1>z, <2>1, <2>2 DEF Sequence, Barred, Carries
    <2>6. CASE Barrier = "refused"
        <3>1. stack' = t /\ settled' = [ImportSettled EXCEPT ![next_sequence] = "rejected"]
            BY <2>1, <2>3, <2>6
        <3> QED
            BY <1>q, <2>1, <2>4, <3>1, BeginSteps
    <2>7. CASE Barrier # "refused"
        <3>1. /\ stack' = Append(t, f)
              /\ settled' = [ImportSettled EXCEPT ![next_sequence] = "pending"]
            BY <2>1, <2>3, <2>7
        <3> QED
            BY <1>q, <2>1, <2>2, <2>4, <2>5, <3>1, BeginSteps
    <2> QED
        BY <2>6, <2>7
<1>4. ASSUME BorrowEnds PROVE Accounts'
    <2> DEFINE r == Frame("released", "run", 0, FALSE)
    <2>1. /\ stack # <<>> /\ Top.kind = "borrow" /\ stack' = Append(Below, r)
          /\ settled' = Settled({Top.sequence}, "delivered")
          /\ UNCHANGED <<next_sequence, staged, pending, fenced, terminated, handled>>
        BY <1>4 DEF BorrowEnds, TopIs, Replace, sequencerVars, queueVars, fenceVars
    <2>2. r \in Frames /\ Empty(r)
        BY <1>z DEF Frame, Frames, Empty, Sequence, Barred, Carries
    <2> HIDE DEF r
    <2>3. Quiet(Below, stack')
        BY <1>top, <2>1, <2>2, QuietPush
    <2>4. \A n \in Reservable : settled'[n] = IF n \in Sequence(Top) THEN "delivered" ELSE settled[n]
        BY <1>one, <2>1
    <2> QED
        BY <1>q, <2>1, <2>3, <2>4, SettleSteps
<1>5. ASSUME DeliverEnds \/ CommandEnds PROVE Accounts'
    <2>1. /\ stack # <<>> /\ Top.kind \in {"deliver", "command"} /\ stack' = Below
          /\ settled' = Settled({Top.sequence}, "delivered")
          /\ UNCHANGED <<next_sequence, staged, pending, fenced, terminated, handled>>
        BY <1>5 DEF DeliverEnds, CommandEnds, TopIs, sequencerVars, queueVars, fenceVars
    <2>2. \A n \in Reservable : settled'[n] = IF n \in Sequence(Top) THEN "delivered" ELSE settled[n]
        BY <1>one, <2>1
    <2> QED
        BY <1>q, <1>i, <2>1, <2>2, SettleSteps
<1>6. ASSUME InputRejected PROVE Accounts'
    <2>1. /\ stack # <<>> /\ Top.kind = "input" /\ Top.stage = "prior" /\ stack' = Below
          /\ settled' = Settled({Top.sequence}, "rejected")
          /\ UNCHANGED <<next_sequence, staged, pending, fenced, terminated, handled>>
        BY <1>6 DEF InputRejected, AtBarrier, TopIs, sequencerVars, fenceVars
    <2>2. \A n \in Reservable : settled'[n] = IF n \in Sequence(Top) THEN "rejected" ELSE settled[n]
        BY <1>one, <2>1
    <2> QED
        BY <1>q, <1>i, <2>1, <2>2, SettleSteps
<1>7. ASSUME UnwindCode PROVE Accounts'
    <2>1. /\ stack # <<>> /\ Top.kind \in {"borrow", "lease", "deliver", "work"} /\ stack' = Below
          /\ settled' = Settled(IF Top.kind \in {"borrow", "deliver"} THEN {Top.sequence} ELSE {},
                                "failed")
          /\ UNCHANGED <<next_sequence, staged, pending, fenced, terminated, handled>>
        BY <1>7 DEF UnwindCode, Unwinds, sequencerVars, queueVars, fenceVars
    <2>2. \A n \in Reservable : settled'[n] = IF n \in Sequence(Top) THEN "failed" ELSE settled[n]
        <3>1. CASE Top.kind \in {"borrow", "deliver"}
            BY <1>one, <2>1, <3>1
        <3>2. CASE Top.kind \notin {"borrow", "deliver"}
            BY <1>none, <2>1, <3>2
        <3> QED
            BY <3>1, <3>2
    <2> QED
        BY <1>q, <1>i, <2>1, <2>2, SettleSteps
<1>8. ASSUME UnwindQueue PROVE Accounts'
    <2>1. /\ stack # <<>> /\ Top.kind \in {"input", "drain"}
          /\ stack' = IF Top.kind = "drain" THEN AfterDrain ELSE Below
          /\ settled' = Settled(IF Top.kind = "input" /\ Top.stage = "prior" THEN {Top.sequence}
                                ELSE {}, "failed")
          /\ UNCHANGED <<next_sequence, staged, pending, fenced, terminated, handled>>
        BY <1>8 DEF UnwindQueue, Unwinds, sequencerVars, fenceVars
    <2>2. \A n \in Reservable : settled'[n] = IF n \in Sequence(Top) THEN "failed" ELSE settled[n]
        <3>1. CASE Top.kind = "input" /\ Top.stage = "prior"
            BY <1>one, <2>1, <3>1
        <3>2. CASE ~(Top.kind = "input" /\ Top.stage = "prior")
            BY <1>none, <2>1, <3>2
        <3> QED
            BY <3>1, <3>2
    <2>3. Quiet(Below, stack')
        <3>1. CASE Top.kind = "drain"
            BY <2>1, <3>1, DrainBelow
        <3>2. CASE Top.kind # "drain"
            BY <2>1, <3>2, <1>i
        <3> QED
            BY <3>1, <3>2
    <2> QED
        BY <1>q, <2>1, <2>2, <2>3, SettleSteps
<1>9. ASSUME Catch PROVE Accounts'
    <2>1. UNCHANGED <<next_sequence, staged, pending, fenced, terminated, handled>>
        BY <1>9 DEF Catch, sequencerVars, fenceVars
    <2>2. \/ /\ stack # <<>> /\ Top.kind = "command"
             /\ settled' = Settled({Top.sequence}, "failed")
             /\ stack' = [Below EXCEPT ![Len(Below)].stage = "return"]
          \/ /\ stack # <<>> /\ Top.kind = "critical" /\ settled' = settled
             /\ stack' = [Below EXCEPT ![Len(Below)].flag = TRUE]
          \/ /\ stack # <<>> /\ Top.kind = "converge" /\ settled' = settled
             /\ stack' = Append(Below, [Top EXCEPT !.flag = TRUE])
          \/ UNCHANGED <<stack, settled>>
        BY <1>9 DEF Catch, Unwinds, Replace
    <2>3. CASE /\ stack # <<>> /\ Top.kind = "command"
               /\ settled' = Settled({Top.sequence}, "failed")
               /\ stack' = [Below EXCEPT ![Len(Below)].stage = "return"]
        <3>1. /\ Below \in Seq(Frames) /\ Below # <<>> /\ Below[Len(Below)].kind = "drain"
            BY <1>top, <2>3, TopFrame DEF CanSit, Last
        <3> DEFINE g == [Below[Len(Below)] EXCEPT !.stage = "return"]
        <3>2. stack' = Append(Front(Below), g) /\ g \in Frames /\ g.kind = "drain"
            BY <2>3, <3>1, TouchLast
        <3> HIDE DEF g
        <3>3. Empty(g) /\ Empty(Below[Len(Below)])
            BY <3>1, <3>2, Empties
        <3>4. Quiet(Below, stack')
            BY <3>1, <3>2, <3>3, QuietSwap
        <3>5. \A n \in Reservable : settled'[n] = IF n \in Sequence(Top) THEN "failed" ELSE settled[n]
            BY <1>one, <2>3
        <3> QED
            BY <1>q, <2>1, <2>3, <3>4, <3>5, SettleSteps
    <2>4. CASE /\ stack # <<>> /\ Top.kind = "critical" /\ settled' = settled
               /\ stack' = [Below EXCEPT ![Len(Below)].flag = TRUE]
        <3>1. /\ Below \in Seq(Frames) /\ Below # <<>> /\ Below[Len(Below)].kind = "converge"
            BY <1>top, <2>4, TopFrame DEF CanSit, Last
        <3> DEFINE g == [Below[Len(Below)] EXCEPT !.flag = TRUE]
        <3>2. stack' = Append(Front(Below), g) /\ g \in Frames /\ g.kind = "converge"
            BY <2>4, <3>1, TouchLast
        <3> HIDE DEF g
        <3>3. Empty(g) /\ Empty(Below[Len(Below)]) /\ Empty(Top)
            BY <2>4, <3>1, <3>2, Empties
        <3>4. Quiet(Below, stack')
            BY <3>1, <3>2, <3>3, QuietSwap
        <3>5. \A n \in Reservable : settled'[n] = IF n \in Sequence(Top) THEN "failed" ELSE settled[n]
            BY <2>4, <3>3 DEF Empty
        <3> QED
            BY <1>q, <2>1, <2>4, <3>4, <3>5, SettleSteps
    <2>5. CASE /\ stack # <<>> /\ Top.kind = "converge" /\ settled' = settled
               /\ stack' = Append(Below, [Top EXCEPT !.flag = TRUE])
        <3> DEFINE g == [Top EXCEPT !.flag = TRUE]
        <3>1. g \in Frames /\ g.kind = "converge" /\ stack' = Append(Below, g)
            BY <1>top, <2>5 DEF Frames
        <3> HIDE DEF g
        <3>2. Empty(g) /\ Empty(Top)
            BY <2>5, <3>1, Empties
        <3>3. Quiet(Below, stack')
            BY <1>top, <2>5, <3>1, <3>2, QuietPush
        <3>4. \A n \in Reservable : settled'[n] = IF n \in Sequence(Top) THEN "failed" ELSE settled[n]
            BY <2>5, <3>2 DEF Empty
        <3> QED
            BY <1>q, <2>1, <2>5, <3>3, <3>4, SettleSteps
    <2>6. CASE UNCHANGED <<stack, settled>>
        BY <1>q, <2>1, <2>6, QuietAccounts DEF Quiet
    <2> QED
        BY <2>2, <2>3, <2>4, <2>5, <2>6
<1>10. ASSUME DrainEvent \/ DrainCommand PROVE Accounts'
    <2> DEFINE n == FirstPending.sequence
               f == IF DrainEvent THEN Frame("deliver", "run", n, FALSE)
                    ELSE Frame("command", "run", n, FALSE)
    <2>1. /\ pending # <<>> /\ pending' = Tail(pending) /\ stack # <<>> /\ Top.kind = "drain"
          /\ AppIdle /\ stack' = Append(stack, f)
          /\ (handled' = handled \/ handled' = n)
          /\ UNCHANGED <<next_sequence, staged, fenced, terminated, settled>>
        <3>1. CASE DrainEvent
            BY <3>1 DEF DrainEvent, Pops, Looping, TopIs, PushFrame, sequencerVars, fenceVars
        <3>2. CASE ~DrainEvent
            BY <1>10, <3>2 DEF DrainCommand, Pops, Looping, TopIs, PushFrame, sequencerVars,
               fenceVars, historyVars
        <3> QED
            BY <3>1, <3>2
    <2>2. /\ In(pending') = In(pending) \ {n} /\ Ascends(pending')
          /\ \A K : SequencesOf(pending', K) = SequencesOf(pending, K) \ {n}
          /\ n \in In(pending) /\ \A m \in In(pending') : m > n
        BY <1>p, <2>1, TailWork DEF FirstPending
    <2>3. f \in Frames /\ f.kind \in {"deliver", "command"} /\ f.sequence = n
        <3>1. n \in 0 .. MaxSequence + Budget
            BY <1>p, <1>z, <2>1, EnvelopesIn DEF FirstPending
        <3> QED
            BY <3>1 DEF Frame, Frames
    <2>4. \A m \in SequencesOf(pending', Events) : m > n
        BY <2>2 DEF SequencesOf, In
    <2>5. \A w \in Waits(stack) : w > n
        BY <2>1, BarredTop
    <2> HIDE DEF f, n
    <2> QED
        BY <1>q, <2>1, <2>2, <2>3, <2>4, <2>5, TakeSteps
<1>11. ASSUME InputPrior PROVE Accounts'
    <2>1. /\ stack # <<>> /\ Top.kind = "input" /\ Top.stage = "prior" /\ AppIdle
          /\ UNCHANGED <<next_sequence, staged, fenced, terminated, settled>>
        BY <1>11 DEF InputPrior, AtBarrier, TopIs, sequencerVars, fenceVars
    <2> DEFINE i == CHOOSE j \in PriorEvents : \A k \in PriorEvents : j <= k
               n == pending[i].sequence
               f == Frame("deliver", "run", n, FALSE)
    <2>2. /\ pending' = RemoveAt(pending, i) /\ handled' = n /\ stack' = Append(stack, f)
        BY <1>11 DEF InputPrior, PushFrame
    <2>3. i \in PriorEvents /\ \A k \in PriorEvents : i <= k
        BY <1>11, FirstPrior DEF InputPrior
    <2> HIDE DEF i
    <2>4. /\ i \in 1 .. Len(pending) /\ pending[i].kind \in Events
          /\ \A j \in 1 .. i : pending[j].sequence < Top.sequence
        BY <2>3 DEF PriorEvents
    <2>5. /\ In(pending') = In(pending) \ {n} /\ Ascends(pending')
          /\ \A K : SequencesOf(pending', K) = SequencesOf(pending, K) \ {n}
          /\ n \in In(pending)
        BY <1>p, <2>2, <2>4, RemoveWork
    <2>6. f \in Frames /\ f.kind = "deliver" /\ f.sequence = n
        BY <1>p, <1>z, <2>4 DEF Frame, Frames
    <2>7. n < Top.sequence
        BY <2>4
    <2>8. \A w \in Waits(stack) : w > n
        <3>1. \A w \in Waits(stack) : w = Top.sequence
            BY <2>1, BarredTop
        <3>2. n \in Nat /\ Top.sequence \in Nat
            BY <1>p, <1>top, <2>1, <2>4, IngressConstants DEF Reservable, Frames
        <3> QED
            BY <2>7, <3>1, <3>2
    <2>9. ASSUME NEW m \in SequencesOf(pending, Events), m # n PROVE m > n
        <3>1. PICK j \in 1 .. Len(pending) : pending[j].kind \in Events /\ pending[j].sequence = m
            BY <2>9 DEF SequencesOf
        <3>2. j # i /\ (j < i \/ i < j)
            BY <2>4, <2>9, <3>1
        <3>3. CASE i < j
            <4>1. pending[i].sequence < pending[j].sequence
                BY <1>p, <2>4, <3>3 DEF Ascends
            <4>2. n \in Nat /\ m \in Nat
                BY <1>p, <2>4, <3>1, IngressConstants DEF Reservable
            <4> QED
                BY <3>1, <4>1, <4>2
        <3>4. CASE j < i
            <4>1. \A k \in 1 .. j : pending[k].sequence < Top.sequence
                <5>1. \A k \in 1 .. j : k \in 1 .. i
                    BY <2>4, <3>4
                <5> QED
                    BY <2>4, <5>1
            <4>2. j \in PriorEvents
                BY <3>1, <4>1 DEF PriorEvents
            <4> QED
                BY <2>3, <2>4, <3>4, <4>2
        <3> QED
            BY <3>2, <3>3, <3>4
    <2> HIDE DEF f, n
    <2>10. \A m \in SequencesOf(pending', Events) : m > n
        BY <2>5, <2>9
    <2> QED
        BY <1>q, <2>1, <2>2, <2>5, <2>6, <2>8, <2>10, TakeSteps
<1>12. ASSUME \/ Borrow \/ RunWake \/ RunStaleWake \/ RunRecovery \/ RunConvergence
              \/ BorrowReleased \/ ConvergePass \/ ConvergeCritical \/ CriticalEnds \/ ConvergeEnds
              \/ StartWork \/ FinishWork \/ FinishDrain \/ DrainBlocks \/ InputEnds \/ LeaseEnds
              \/ Panic \/ Send \/ UNCHANGED ingressVars
       PROVE  Accounts'
    <2>1. /\ Quiet(stack, stack')
          /\ UNCHANGED <<next_sequence, staged, pending, fenced, terminated, settled, handled>>
        BY <1>12, QuietSteps
    <2> QED
        BY <1>q, <2>1, QuietAccounts
<1>13. ASSUME Stage \/ Import \/ BeginShutdown \/ DrainCompletion \/ InputHandled
       PROVE Accounts'
    BY <1>q, <1>13, StageSteps, ImportSteps, FenceSteps, CompletionSteps, HandledSteps
<1> QED
    BY <1>1, <1>2, <1>3, <1>4, <1>5, <1>6, <1>7, <1>8, <1>9, <1>10, <1>11, <1>12, <1>13
       DEF IngressNext, Tasks, Running
-------------------------------------------------------------------------------
(* Calls that will converge, or schedule what will.                          *)

Releasing == {"borrow", "lease", "released"}

LEMMA ReleasesPush ==
    ASSUME NEW s \in Seq(Frames), NEW f \in Frames, Releases(s) \/ f.kind \in Releasing
    PROVE  Append(s, f) \in Seq(Frames) /\ Releases(Append(s, f))
<1>1. PICK t \in Seq(Frames) : /\ t = Append(s, f) /\ Len(s) \in Nat /\ Len(t) = Len(s) + 1
                               /\ \A i \in 1 .. Len(s) : t[i] = s[i]
                               /\ t[Len(s) + 1] = f
    <2> DEFINE t == Append(s, f)
    <2>1. /\ Len(s) \in Nat /\ t \in Seq(Frames) /\ Len(t) = Len(s) + 1
          /\ \A i \in 1 .. Len(s) : t[i] = s[i]
          /\ t[Len(s) + 1] = f
        BY AppendOf
    <2> HIDE DEF t
    <2>2. t = Append(s, f)
        BY DEF t
    <2> QED
        BY <2>1, <2>2
<1>2. CASE f.kind \in Releasing
    <2>1. Len(s) + 1 \in 1 .. Len(t)
        BY <1>1
    <2>2. On(t, f.kind)
        BY <1>1, <2>1 DEF On
    <2> QED
        BY <1>1, <1>2, <2>2 DEF Releases, Releasing
<1>3. CASE Releases(s)
    <2>1. PICK i \in 1 .. Len(s) : s[i].kind \in Releasing
        BY <1>3 DEF Releases, Releasing, On
    <2>2. i \in 1 .. Len(t) /\ t[i].kind \in Releasing
        BY <1>1, <2>1
    <2>3. On(t, t[i].kind)
        BY <2>2 DEF On
    <2> QED
        BY <1>1, <2>2, <2>3 DEF Releases, Releasing
<1> QED
    BY <1>2, <1>3 DEF Releasing

LEMMA ReleasesPop ==
    ASSUME NEW s \in Seq(Frames), s # <<>>, Releases(s), s[Len(s)].kind \notin Releasing
    PROVE  Releases(Front(s))
<1>1. PICK i \in 1 .. Len(s) : s[i].kind \in Releasing
    BY DEF Releases, Releasing, On
<1>2. PICK t \in Seq(Frames) : /\ t = Front(s) /\ Len(s) \in Nat \ {0} /\ Len(t) = Len(s) - 1
                               /\ \A j \in 1 .. Len(s) - 1 : t[j] = s[j]
    BY FrontOf
<1>3. i # Len(s)
    BY <1>1
<1>4. i \in 1 .. Len(t) /\ i \in 1 .. Len(s) - 1
    BY <1>1, <1>2, <1>3
<1>5. t[i].kind \in Releasing
    BY <1>1, <1>2, <1>4
<1>6. On(t, t[i].kind)
    BY <1>4 DEF On
<1> QED
    BY <1>2, <1>5, <1>6 DEF Releases, Releasing

\* A lease that is not the last leaves another one open.
LEMMA LeaseBelow ==
    ASSUME NEW s \in Seq(Frames), s # <<>>, NEW i \in 1 .. Len(s) - 1, s[i].kind \in Releasing
    PROVE  Releases(Front(s))
<1>1. PICK t \in Seq(Frames) : /\ t = Front(s) /\ Len(s) \in Nat \ {0} /\ Len(t) = Len(s) - 1
                               /\ \A j \in 1 .. Len(s) - 1 : t[j] = s[j]
    BY FrontOf
<1>2. i \in 1 .. Len(t) /\ t[i].kind \in Releasing
    BY <1>1
<1>3. On(t, t[i].kind)
    BY <1>2 DEF On
<1> QED
    BY <1>1, <1>2, <1>3 DEF Releases, Releasing
\* Such a call ends in another, in a recovery, or in the convergence itself.
LEMMA ReleaseSteps ==
    ASSUME Nesting, [IngressNext]_ingressVars, ~BorrowReleased, ~terminated', ~terminated,
           unwind_recovery_scheduled \/ Releases(stack)
    PROVE  unwind_recovery_scheduled' \/ Releases(stack')
<1> DEFINE Goal == unwind_recovery_scheduled' \/ Releases(stack')
<1>s. stack \in Seq(Frames) /\ IngressTypeOK
    BY DEF Nesting, IngressTypeOK
<1>top. ASSUME stack # <<>>
        PROVE  /\ Top \in Frames /\ Top = stack[Len(stack)] /\ Below = Front(stack)
               /\ Below \in Seq(Frames)
    BY <1>s, <1>top, TopFrame
<1>f. /\ Frame("borrow", "run", 0, FALSE) \in Frames
      /\ Frame("work", "live", 0, FALSE) \in Frames
      /\ Frame("work", "stale", 0, FALSE) \in Frames
      /\ Frame("work", "none", 0, FALSE) \in Frames
      /\ Frame("released", "run", 0, FALSE) \in Frames
      /\ Frame("critical", "run", 0, FALSE) \in Frames
      /\ Frame("drain", "run", 0, FALSE) \in Frames
      /\ Frame("drain", "run", 0, TRUE) \in Frames
      /\ Frame("lease", "run", 0, FALSE) \in Frames
      /\ Frame("borrow", "run", 0, FALSE).kind = "borrow"
      /\ Frame("released", "run", 0, FALSE).kind = "released"
      /\ Frame("lease", "run", 0, FALSE).kind = "lease"
    BY IngressConstants DEF Frame, Frames
<1>r. "borrow" \in Releasing /\ "lease" \in Releasing /\ "released" \in Releasing
    BY DEF Releasing
<1>same. ASSUME UNCHANGED <<stack, unwind_recovery_scheduled>> PROVE Goal
    BY <1>same
<1>push. ASSUME NEW f \in Frames, stack' = Append(stack, f), UNCHANGED unwind_recovery_scheduled
         PROVE  Goal
    BY <1>s, <1>push, ReleasesPush
<1>new. ASSUME NEW f \in Frames, f.kind \in Releasing, stack' = Append(stack, f) PROVE Goal
    BY <1>s, <1>new, ReleasesPush
<1>pop. ASSUME stack # <<>>, Top.kind \notin Releasing, stack' = Below,
               UNCHANGED unwind_recovery_scheduled
        PROVE  Goal
    BY <1>s, <1>pop, <1>top, ReleasesPop
<1>swap. ASSUME stack # <<>>, Top.kind \notin Releasing, NEW f \in Frames,
                UNCHANGED unwind_recovery_scheduled
         PROVE  /\ Replace(f) \in Seq(Frames)
                /\ unwind_recovery_scheduled' \/ Releases(Replace(f))
    <2>1. Append(Below, f) \in Seq(Frames)
        BY <1>swap, <1>top, AppendOf
    <2>2. CASE Releases(stack)
        <3>1. Releases(Below)
            BY <1>s, <1>top, <1>swap, <2>2, ReleasesPop
        <3> QED
            BY <1>top, <1>swap, <2>1, <3>1, ReleasesPush DEF Replace
    <2> QED
        BY <1>swap, <2>1, <2>2 DEF Replace
<1>two. ASSUME stack # <<>>, Top.kind \notin Releasing, NEW f \in Frames, NEW g \in Frames,
               UNCHANGED unwind_recovery_scheduled, stack' = Replace(f) \o <<g>>
        PROVE  Goal
    <2>1. PICK t \in Seq(Frames) : t = Replace(f) /\ (unwind_recovery_scheduled' \/ Releases(t))
        BY <1>two, <1>swap
    <2>2. stack' = Append(t, g)
        BY <1>two, <2>1, PushTwo
    <2> QED
        BY <1>two, <2>1, <2>2, ReleasesPush
<1>end. ASSUME stack # <<>>, stack' = Replace(Frame("released", "run", 0, FALSE)) PROVE Goal
    BY <1>end, <1>top, <1>f, <1>r, ReleasesPush DEF Replace
<1> HIDE DEF Goal
<1>1. ASSUME \/ \E kind \in Kinds : Enqueue(kind)
             \/ Stage \/ Send \/ Import \/ BeginShutdown \/ Panic \/ DrainCompletion
             \/ UNCHANGED ingressVars
      PROVE  Goal
    <2>1. UNCHANGED <<stack, unwind_recovery_scheduled>>
        <3>1. CASE \E kind \in Kinds : Enqueue(kind)
            BY <3>1 DEF Enqueue, stackVars, releaseVars
        <3>2. CASE Stage \/ Send \/ Import \/ BeginShutdown \/ Panic \/ UNCHANGED ingressVars
            BY <3>2 DEF Stage, Send, Import, BeginShutdown, Panic, ingressVars, stackVars,
               releaseVars
        <3>3. CASE DrainCompletion
            BY <3>3 DEF DrainCompletion, Terminate, stackVars
        <3> QED
            BY <1>1, <3>1, <3>2, <3>3
    <2> QED
        BY <2>1, <1>same
<1>2. ASSUME Borrow \/ RunRecovery \/ RunConvergence PROVE Goal
    <2>1. \/ stack' = Append(stack, Frame("borrow", "run", 0, FALSE))
          \/ stack' = Append(stack, Frame("released", "run", 0, FALSE))
        BY <1>2 DEF Borrow, RunRecovery, RunConvergence, PushFrame
    <2> QED
        BY <2>1, <1>f, <1>r, <1>new
<1>3. ASSUME RunWake \/ RunStaleWake PROVE Goal
    <2>1. \/ stack' = Append(stack, Frame("work", "live", 0, FALSE))
          \/ stack' = Append(stack, Frame("work", "stale", 0, FALSE))
        BY <1>3 DEF RunWake, RunStaleWake, PushFrame
    <2>2. UNCHANGED unwind_recovery_scheduled
        BY <1>3 DEF RunWake, RunStaleWake, releaseVars
    <2> QED
        BY <2>1, <2>2, <1>f, <1>push
<1>4. ASSUME ShouldClose PROVE Goal
    <2>1. CASE AppIdle /\ DeliversInline(Reserved.work)
        <3> DEFINE w == Frame("work", "none", 0, FALSE)
                   b == Frame("borrow", "run", next_sequence, FALSE)
        <3>1. stack' = stack \o <<w, b>> /\ next_sequence \in Reservable
            BY <1>4, <2>1 DEF ShouldClose
        <3>2. w \in Frames /\ b \in Frames /\ b.kind \in Releasing
            BY <3>1, <1>r, IngressConstants DEF Frame, Frames, Reservable
        <3> HIDE DEF w, b
        <3>3. PICK t \in Seq(Frames) : t = Append(stack, w)
            BY <1>s, <3>2, AppendOf
        <3>4. stack' = Append(t, b)
            BY <1>s, <3>1, <3>2, <3>3, PushTwo
        <3> QED
            BY <3>2, <3>4, ReleasesPush DEF Goal
    <2>2. CASE ~(AppIdle /\ DeliversInline(Reserved.work))
        BY <1>4, <2>2, <1>same DEF ShouldClose, releaseVars
    <2> QED
        BY <2>1, <2>2
<1>5. ASSUME InputBegins PROVE Goal
    <2> DEFINE l == Frame("lease", "run", 0, FALSE)
               f == Frame("input", "prior", next_sequence, Barrier = "root")
    <2>1. /\ next_sequence \in Reservable
          /\ stack' = IF Barrier = "refused" THEN Append(stack, l)
                      ELSE Append(Append(stack, l), f)
        BY <1>5 DEF InputBegins, PushFrame
    <2>2. l \in Frames /\ f \in Frames /\ l.kind \in Releasing
        BY <2>1, <1>r, IngressConstants DEF Frame, Frames, Reservable
    <2> HIDE DEF l, f
    <2>3. PICK t \in Seq(Frames) : t = Append(stack, l) /\ Releases(t)
        BY <1>s, <2>2, ReleasesPush
    <2>4. stack' = t \/ stack' = Append(t, f)
        BY <2>1, <2>3
    <2> QED
        BY <2>2, <2>3, <2>4, ReleasesPush DEF Goal
<1>6. ASSUME BorrowEnds PROVE Goal
    BY <1>6, <1>end DEF BorrowEnds, TopIs
<1>7. ASSUME LeaseEnds PROVE Goal
    <2>1. stack # <<>>
        BY <1>7 DEF LeaseEnds, TopIs
    <2>2. CASE LastLease
        BY <1>7, <2>1, <2>2, <1>end DEF LeaseEnds
    <2>3. CASE ~LastLease
        <3>1. PICK i \in 1 .. Len(stack) - 1 : stack[i].kind = "lease"
            BY <2>3 DEF LastLease
        <3>2. stack' = Front(stack)
            BY <1>7, <2>1, <2>3, <1>top DEF LeaseEnds
        <3> QED
            BY <1>s, <2>1, <3>1, <3>2, <1>r, LeaseBelow DEF Goal
    <2> QED
        BY <2>2, <2>3
<1>8. ASSUME \/ DeliverEnds \/ CommandEnds \/ CriticalEnds \/ InputRejected \/ ConvergeEnds
             \/ FinishWork \/ InputEnds
      PROVE  Goal
    <2>1. stack # <<>> /\ UNCHANGED unwind_recovery_scheduled
        <3>1. CASE DeliverEnds \/ CommandEnds \/ CriticalEnds
            BY <3>1 DEF DeliverEnds, CommandEnds, CriticalEnds, TopIs, releaseVars
        <3>2. CASE InputRejected \/ ConvergeEnds
            BY <3>2 DEF InputRejected, AtBarrier, ConvergeEnds, TopIs, releaseVars
        <3>3. CASE FinishWork \/ InputEnds
            BY <3>3 DEF FinishWork, InputEnds, TopIs, releaseVars
        <3> QED
            BY <1>8, <3>1, <3>2, <3>3
    <2>2. Top.kind \notin Releasing
        BY <1>8 DEF DeliverEnds, CommandEnds, CriticalEnds, InputRejected, AtBarrier,
           ConvergeEnds, FinishWork, InputEnds, TopIs, Releasing
    <2>3. \/ stack' = Below
          \/ stack' = Replace(Frame("released", "run", 0, FALSE))
          \/ stack' = Replace(Frame("work", "none", 0, FALSE))
        <3>1. CASE DeliverEnds \/ CommandEnds \/ CriticalEnds \/ InputRejected \/ ConvergeEnds
            BY <3>1 DEF DeliverEnds, CommandEnds, CriticalEnds, InputRejected, ConvergeEnds
        <3>2. CASE FinishWork \/ InputEnds
            BY <3>2 DEF FinishWork, InputEnds
        <3> QED
            BY <1>8, <3>1, <3>2
    <2> QED
        BY <2>1, <2>2, <2>3, <1>pop, <1>end, <1>swap, <1>f DEF Goal
<1>9. ASSUME ConvergePass PROVE Goal
    <2>1. /\ stack # <<>> /\ Top.kind \notin Releasing /\ UNCHANGED unwind_recovery_scheduled
          /\ \/ stack' = Replace(NextStage)
             \/ stack' = Replace(NextStage) \o <<Frame("drain", "run", 0, TRUE)>>
        BY <1>9 DEF ConvergePass, TopIs, Releasing
    <2>2. NextStage \in Frames
        BY <2>1, NextStageTyped
    <2> QED
        BY <2>1, <2>2, <1>f, <1>swap, <1>two DEF Goal
<1>10. ASSUME ConvergeCritical PROVE Goal
    <2> DEFINE g == [Top EXCEPT !.stage = "second"]
    <2>1. /\ stack # <<>> /\ Top.kind \notin Releasing /\ UNCHANGED unwind_recovery_scheduled
          /\ \/ stack' = Replace(g)
             \/ stack' = Replace(g) \o <<Frame("critical", "run", 0, FALSE)>>
        BY <1>10 DEF ConvergeCritical, TopIs, Releasing
    <2>2. g \in Frames
        BY <1>top, <2>1, TopGoesOn
    <2> HIDE DEF g
    <2> QED
        BY <2>1, <2>2, <1>f, <1>swap, <1>two DEF Goal
<1>11. ASSUME StartWork PROVE Goal
    <2> DEFINE g == [Top EXCEPT !.stage = "post"]
    <2>1. /\ stack # <<>> /\ Top.kind \notin Releasing /\ UNCHANGED unwind_recovery_scheduled
          /\ \/ stack' = Below \/ stack' = Replace(g)
             \/ stack' = Replace(g) \o <<Frame("drain", "run", 0, FALSE)>>
        BY <1>11 DEF StartWork, TopIs, Releasing
    <2>2. g \in Frames
        BY <1>top, <2>1, TopGoesOn
    <2> HIDE DEF g
    <2> QED
        BY <2>1, <2>2, <1>f, <1>pop, <1>swap, <1>two DEF Goal
<1>12. ASSUME stack # <<>>, Top.kind = "drain", stack' = AfterDrain,
              UNCHANGED unwind_recovery_scheduled
       PROVE  Goal
    <2>1. \A k : On(AfterDrain, k) <=> On(Below, k)
        BY <1>12, AfterDrainNest
    <2>2. Releases(stack) => Releases(Below)
        BY <1>s, <1>top, <1>12, ReleasesPop DEF Releasing
    <2> QED
        BY <1>12, <2>1, <2>2 DEF Releases, Goal
<1>13. ASSUME FinishDrain \/ DrainBlocks PROVE Goal
    BY <1>12, <1>13 DEF FinishDrain, DrainBlocks, Looping, TopIs, releaseVars
<1>14. ASSUME DrainEvent \/ DrainCommand PROVE Goal
    <2> DEFINE n == FirstPending.sequence
    <2>1. /\ pending # <<>> /\ UNCHANGED unwind_recovery_scheduled
          /\ \/ stack' = Append(stack, Frame("deliver", "run", n, FALSE))
             \/ stack' = Append(stack, Frame("command", "run", n, FALSE))
        BY <1>14 DEF DrainEvent, DrainCommand, Pops, PushFrame, releaseVars
    <2>2. n \in Reservable
        BY <1>s, <2>1, EnvelopesIn DEF IngressTypeOK, FirstPending
    <2>3. /\ Frame("deliver", "run", n, FALSE) \in Frames
          /\ Frame("command", "run", n, FALSE) \in Frames
        BY <2>2, IngressConstants DEF Frame, Frames, Reservable
    <2> HIDE DEF n
    <2> QED
        BY <2>1, <2>3, <1>push
<1>15. ASSUME InputPrior PROVE Goal
    <2> DEFINE i == CHOOSE j \in PriorEvents : \A k \in PriorEvents : j <= k
               n == pending[i].sequence
    <2>1. /\ UNCHANGED unwind_recovery_scheduled
          /\ stack' = Append(stack, Frame("deliver", "run", n, FALSE))
        BY <1>15 DEF InputPrior, PushFrame, releaseVars
    <2>2. i \in 1 .. Len(pending)
        BY <1>15, FirstPrior DEF InputPrior, PriorEvents
    <2> HIDE DEF i
    <2>3. n \in Reservable
        BY <1>s, <2>2, EnvelopesIn DEF IngressTypeOK
    <2>4. Frame("deliver", "run", n, FALSE) \in Frames
        BY <2>3, IngressConstants DEF Frame, Frames, Reservable
    <2> HIDE DEF n
    <2> QED
        BY <2>1, <2>4, <1>push
<1>16. ASSUME InputHandled PROVE Goal
    <2> DEFINE g == [Top EXCEPT !.stage = "after"]
               f == Frame("deliver", "run", Top.sequence, FALSE)
    <2>1. /\ stack # <<>> /\ Top.kind = "input" /\ UNCHANGED unwind_recovery_scheduled
          /\ stack' = Append(Replace(g), f)
        BY <1>16 DEF InputHandled, AtBarrier, TopIs, releaseVars
    <2>2. g \in Frames
        BY <1>top, <2>1, TopGoesOn
    <2>3. f \in Frames
        BY <1>top, <2>1 DEF Frame, Frames
    <2> HIDE DEF g, f
    <2>4. Replace(g) \in Seq(Frames) /\ (unwind_recovery_scheduled' \/ Releases(Replace(g)))
        BY <2>1, <2>2, <1>swap DEF Releasing
    <2> QED
        BY <2>1, <2>3, <2>4, ReleasesPush DEF Goal
<1>17. ASSUME UnwindCode PROVE Goal
    <2>1. /\ stack # <<>> /\ Top.kind \in {"borrow", "lease", "deliver", "work"} /\ stack' = Below
          /\ unwind_recovery_scheduled' =
               (\/ unwind_recovery_scheduled
                \/ Recovers /\ (Top.kind = "borrow" \/ (Top.kind = "lease" /\ LastLease)))
        BY <1>17 DEF UnwindCode, Unwinds
    <2>2. CASE Top.kind = "borrow" \/ (Top.kind = "lease" /\ LastLease)
        BY <2>1, <2>2 DEF Recovers, Goal
    <2>3. CASE Top.kind = "lease" /\ ~LastLease
        <3>1. PICK i \in 1 .. Len(stack) - 1 : stack[i].kind = "lease"
            BY <2>3 DEF LastLease
        <3> QED
            BY <1>s, <1>top, <2>1, <3>1, <1>r, LeaseBelow DEF Goal
    <2>4. CASE Top.kind \in {"deliver", "work"}
        <3>1. Releases(stack) => Releases(Below)
            BY <1>s, <1>top, <2>1, <2>4, ReleasesPop DEF Releasing
        <3> QED
            BY <2>1, <3>1 DEF Goal
    <2> QED
        BY <2>1, <2>2, <2>3, <2>4
<1>18. ASSUME UnwindQueue PROVE Goal
    <2>1. /\ stack # <<>> /\ Top.kind \in {"input", "drain"} /\ UNCHANGED unwind_recovery_scheduled
          /\ stack' = IF Top.kind = "drain" THEN AfterDrain ELSE Below
        BY <1>18 DEF UnwindQueue, Unwinds, releaseVars
    <2>2. CASE Top.kind = "drain"
        BY <1>12, <2>1, <2>2
    <2>3. CASE Top.kind = "input"
        BY <1>pop, <2>1, <2>3 DEF Releasing
    <2> QED
        BY <2>1, <2>2, <2>3
<1>19. ASSUME Catch PROVE Goal
    <2>1. UNCHANGED unwind_recovery_scheduled
        BY <1>19 DEF Catch
    <2>2. \/ /\ stack # <<>> /\ Top.kind = "command"
             /\ stack' = [Below EXCEPT ![Len(Below)].stage = "return"]
          \/ /\ stack # <<>> /\ Top.kind = "critical"
             /\ stack' = [Below EXCEPT ![Len(Below)].flag = TRUE]
          \/ /\ stack # <<>> /\ Top.kind = "converge"
             /\ stack' = Replace([Top EXCEPT !.flag = TRUE])
          \/ UNCHANGED stack
        BY <1>19 DEF Catch, Unwinds
    <2>3. CASE /\ stack # <<>> /\ Top.kind \in {"command", "critical"}
               /\ \/ stack' = [Below EXCEPT ![Len(Below)].stage = "return"]
                  \/ stack' = [Below EXCEPT ![Len(Below)].flag = TRUE]
        <3>1. /\ Below \in Seq(Frames) /\ Below # <<>>
              /\ Below[Len(Below)].kind \notin Releasing
            BY <1>top, <2>3, TopFrame DEF CanSit, Last, Releasing
        <3>2. PICK g \in Frames : stack' = Append(Front(Below), g)
            BY <2>3, <3>1, TouchLast
        <3>3. Front(Below) \in Seq(Frames)
            BY <3>1, FrontOf
        <3>4. Releases(stack) => Releases(Below)
            BY <1>s, <1>top, <2>3, ReleasesPop DEF Releasing
        <3>5. Releases(Below) => Releases(Front(Below))
            BY <3>1, ReleasesPop
        <3> QED
            BY <2>1, <3>2, <3>3, <3>4, <3>5, ReleasesPush DEF Goal
    <2>4. CASE stack # <<>> /\ Top.kind = "converge" /\ stack' = Replace([Top EXCEPT !.flag = TRUE])
        <3>1. [Top EXCEPT !.flag = TRUE] \in Frames
            BY <1>top, <2>4 DEF Frames
        <3> QED
            BY <2>1, <2>4, <3>1, <1>swap DEF Releasing, Goal
    <2>5. CASE UNCHANGED stack
        BY <2>1, <2>5, <1>same
    <2> QED
        BY <2>2, <2>3, <2>4, <2>5
<1> QED
    BY <1>1, <1>2, <1>3, <1>4, <1>5, <1>6, <1>7, <1>8, <1>9, <1>10, <1>11, <1>13, <1>14, <1>15,
       <1>16, <1>17, <1>18, <1>19 DEF IngressNext, Tasks, Running, Goal
\* A drain that finds the App borrowed runs below an update, and in no convergence.
LEMMA DrainAboveBorrow ==
    ASSUME Nesting, stack # <<>>, Top.kind = "drain", ~AppIdle
    PROVE  Releases(Below) /\ ~On(stack, "converge")
<1>1. /\ stack \in Seq(Frames) /\ Nest(stack) /\ Top = stack[Len(stack)] /\ Len(stack) \in Nat \ {0}
      /\ Below = Front(stack)
    BY TopFrame DEF Nesting, IngressTypeOK
<1>2. PICK i \in 1 .. Len(stack) : stack[i].kind \in Holding
    BY DEF AppIdle
<1>3. i \in 1 .. Len(stack) - 1
    BY <1>1, <1>2 DEF Holding
<1>4. ~On(Below, "deliver") /\ ~On(Below, "input")
    <2>1. Owns(Top)
        BY DEF Owns
    <2> QED
        BY <1>1, <2>1, PopNest
<1>5. stack[i].kind # "deliver"
    <2>1. Len(Below) = Len(stack) - 1 /\ \A j \in 1 .. Len(stack) - 1 : Below[j] = stack[j]
        BY <1>1, FrontOf
    <2> QED
        BY <1>3, <1>4, <2>1 DEF On
<1>6. \A j \in 1 .. Len(stack) - 1 : stack[j].kind = "converge" => j = Len(stack) - 1
    BY <1>1 DEF Nest, NestedIn
<1>7. stack[i].kind # "critical"
    <2>1. SUFFICES ASSUME stack[i].kind = "critical" PROVE FALSE
        OBVIOUS
    <2>2. i > 1 /\ stack[i - 1].kind = "converge"
        BY <1>1, <2>1 DEF Nest, NestedIn
    <2>3. i - 1 \in 1 .. Len(stack) - 1
        BY <1>1, <1>3, <2>2
    <2>4. i - 1 = Len(stack) - 1
        BY <1>6, <2>2, <2>3
    <2> QED
        BY <1>1, <1>3, <2>4
<1>8. stack[i].kind = "borrow"
    BY <1>2, <1>5, <1>7 DEF Holding
<1>9. Releases(Below)
    BY <1>1, <1>3, <1>8, LeaseBelow DEF Releasing
<1>10. ~On(stack, "converge")
    <2>1. SUFFICES ASSUME NEW j \in 1 .. Len(stack), stack[j].kind = "converge" PROVE FALSE
        BY DEF On
    <2>2. j \in 1 .. Len(stack) - 1
        BY <1>1, <2>1
    <2>3. j = Len(stack) - 1 /\ i # j
        BY <1>6, <1>8, <2>1, <2>2
    <2>4. i \in 1 .. j - 1
        BY <1>1, <1>3, <2>3
    <2>5. stack[i].kind \notin Holding
        BY <1>1, <2>1, <2>4 DEF Nest, NestedIn
    <2> QED
        BY <1>2, <2>5
<1> QED
    BY <1>9, <1>10

\* What holds the App while nobody has the queue is an update, or runs in a convergence.
LEMMA HolderOfIdleQueue ==
    ASSUME Nesting, phase \in {"idle", "blocked"}, ~converging, ~AppIdle
    PROVE  \E i \in 1 .. Len(stack) : stack[i].kind = "borrow"
<1>1. NestedIn(stack) /\ PhaseOf(stack, phase, converging) /\ Len(stack) \in Nat
    BY DEF Nesting, Nest, IngressTypeOK
<1>2. PICK i \in 1 .. Len(stack) : stack[i].kind \in Holding
    BY DEF AppIdle
<1>3. ~On(stack, "command") /\ ~Root(stack) /\ ~On(stack, "drain") /\ ~On(stack, "converge")
    BY <1>1 DEF PhaseOf
<1>4. stack[i].kind # "critical"
    BY <1>1, <1>3 DEF NestedIn, On
<1>5. stack[i].kind # "deliver"
    <2>1. SUFFICES ASSUME stack[i].kind = "deliver" PROVE FALSE
        OBVIOUS
    <2>2. i > 1 /\ stack[i - 1].kind \in {"drain", "input"}
        BY <1>1, <2>1 DEF NestedIn
    <2>3. i - 1 \in 1 .. Len(stack)
        BY <1>1, <2>2
    <2>4. stack[i - 1].kind = "input"
        BY <1>3, <2>2, <2>3 DEF On
    <2>5. ~stack[i - 1].flag
        BY <1>3, <2>3, <2>4 DEF Root
    <2>6. PICK j \in 1 .. (i - 1) - 1 : stack[j].kind = "command"
        BY <1>1, <2>3, <2>4, <2>5 DEF NestedIn
    <2>7. j \in 1 .. Len(stack)
        BY <1>1, <2>3, <2>6
    <2> QED
        BY <1>3, <2>6, <2>7 DEF On
<1> QED
    BY <1>2, <1>4, <1>5 DEF Holding

\* A request for a convergence is put off only for a call that will make it again.
LEMMA PutOff ==
    ASSUME Nesting, BorrowReleased, LeaseActive \/ ~AppIdle \/ converging,
           phase \in {"idle", "blocked"}
    PROVE  /\ Releases(stack') \/ converging'
           /\ UNCHANGED <<converging, phase>>
<1>1. /\ stack # <<>> /\ Top.kind = "released" /\ stack' = Below
      /\ UNCHANGED <<converging, phase>>
    BY DEF BorrowReleased, TopIs
<1>2. /\ stack \in Seq(Frames) /\ Top = stack[Len(stack)] /\ Len(stack) \in Nat \ {0}
      /\ Below = Front(stack)
    BY <1>1, TopFrame DEF Nesting, IngressTypeOK
<1>3. CASE ~converging
    <2>1. PICK i \in 1 .. Len(stack) : stack[i].kind \in {"lease", "borrow"}
        BY <1>3, HolderOfIdleQueue DEF LeaseActive, OnStack
    <2>2. i \in 1 .. Len(stack) - 1
        BY <1>1, <1>2, <2>1
    <2> QED
        BY <1>1, <1>2, <2>1, <2>2, LeaseBelow DEF Releasing
<1> QED
    BY <1>1, <1>3

\* Who blocks the queue, starts a convergence and ends the queue.
LEMMA BlockedSweep ==
    ASSUME [IngressNext]_ingressVars, ~DrainBlocks, phase' = "blocked"
    PROVE  /\ phase = "blocked"
           /\ BorrowReleased \/ converging' = converging \/ converging' = FALSE
           /\ DrainCompletion \/ terminated' = terminated
<1> DEFINE Goal == /\ phase = "blocked"
                   /\ BorrowReleased \/ converging' = converging \/ converging' = FALSE
                   /\ DrainCompletion \/ terminated' = terminated
<1>1. ASSUME NEW kind \in Kinds, Enqueue(kind) PROVE Goal
    BY <1>1 DEF Enqueue, releaseVars, fenceVars
<1>2. ASSUME Stage \/ Send \/ BeginShutdown \/ Import \/ UNCHANGED ingressVars PROVE Goal
    BY <1>2 DEF Stage, Send, BeginShutdown, Import, ingressVars, queueVars, releaseVars,
       fenceVars
<1>3. ASSUME Borrow \/ ShouldClose \/ InputBegins \/ Panic PROVE Goal
    BY <1>3 DEF Borrow, ShouldClose, InputBegins, Panic, queueVars, releaseVars, fenceVars
<1>4. ASSUME RunWake \/ RunStaleWake \/ RunRecovery \/ RunConvergence PROVE Goal
    BY <1>4 DEF RunWake, RunStaleWake, RunRecovery, RunConvergence, queueVars, releaseVars,
       fenceVars
<1>5. ASSUME BorrowEnds \/ BorrowReleased \/ ConvergePass \/ ConvergeCritical \/ CriticalEnds
             \/ ConvergeEnds
      PROVE  Goal
    BY <1>5 DEF BorrowEnds, BorrowReleased, ConvergePass, ConvergeCritical, CriticalEnds,
       ConvergeEnds, queueVars, releaseVars, fenceVars
<1>6. ASSUME StartWork \/ FinishWork \/ FinishDrain \/ DrainEvent \/ DeliverEnds PROVE Goal
    BY <1>6 DEF StartWork, FinishWork, FinishDrain, DrainEvent, DeliverEnds, queueVars,
       releaseVars, fenceVars
<1>7. ASSUME DrainCommand \/ CommandEnds \/ DrainCompletion \/ InputPrior \/ InputHandled
      PROVE Goal
    BY <1>7 DEF DrainCommand, CommandEnds, DrainCompletion, InputPrior, InputHandled, queueVars,
       releaseVars, fenceVars
<1>8. ASSUME InputRejected \/ InputEnds \/ LeaseEnds \/ UnwindCode \/ UnwindQueue \/ Catch
      PROVE Goal
    BY <1>8 DEF InputRejected, InputEnds, LeaseEnds, UnwindCode, UnwindQueue, Catch, queueVars,
       releaseVars, fenceVars
<1> QED
    BY <1>1, <1>2, <1>3, <1>4, <1>5, <1>6, <1>7, <1>8 DEF IngressNext, Tasks, Running

LEMMA BlockedSteps ==
    ASSUME Nesting, Nesting', BlockedOwed, CompletionFenced, [IngressNext]_ingressVars
    PROVE  BlockedOwed'
<1> SUFFICES ASSUME phase' = "blocked"
             PROVE  /\ ~terminated' /\ ~converging'
                    /\ unwind_recovery_scheduled' \/ Releases(stack')
    BY DEF BlockedOwed
<1>1. CASE DrainBlocks
    <2>1. /\ stack # <<>> /\ Top.kind = "drain" /\ pending # <<>> /\ ~AppIdle
          /\ stack' = AfterDrain /\ UNCHANGED <<converging, terminated>>
        BY <1>1 DEF DrainBlocks, Looping, Pops, TopIs, releaseVars, fenceVars
    <2>2. ~terminated
        BY <2>1 DEF CompletionFenced
    <2>3. Releases(Below) /\ ~On(stack, "converge")
        BY <2>1, DrainAboveBorrow
    <2>4. \A k : On(AfterDrain, k) <=> On(Below, k)
        BY <2>1, AfterDrainNest
    <2>5. ~converging
        BY <2>3 DEF Nesting, PhaseOf
    <2> QED
        BY <2>1, <2>2, <2>3, <2>4, <2>5 DEF Releases
<1>2. CASE ~DrainBlocks
    <2>1. /\ phase = "blocked"
          /\ BorrowReleased \/ converging' = converging \/ converging' = FALSE
          /\ DrainCompletion \/ terminated' = terminated
        BY <1>2, BlockedSweep
    <2>2. ~terminated /\ ~converging /\ (unwind_recovery_scheduled \/ Releases(stack))
        BY <2>1 DEF BlockedOwed
    <2>3. ~DrainCompletion
        <3>1. SUFFICES ASSUME DrainCompletion PROVE FALSE
            OBVIOUS
        <3>2. stack # <<>> /\ Top.kind = "drain"
            BY <3>1 DEF DrainCompletion, Looping, TopIs
        <3>3. On(stack, "drain")
            BY <3>2, TopFrame DEF On
        <3> QED
            BY <2>1, <3>3 DEF Nesting, PhaseOf
    <2>4. ~terminated'
        BY <2>1, <2>2, <2>3
    <2>5. CASE BorrowReleased
        <3>1. LeaseActive \/ ~AppIdle \/ converging
            BY <2>1, <2>5 DEF BorrowReleased
        <3> QED
            BY <2>1, <2>2, <2>4, <2>5, <3>1, PutOff
    <2>6. CASE ~BorrowReleased
        BY <2>1, <2>2, <2>4, <2>6, ReleaseSteps
    <2> QED
        BY <2>5, <2>6
<1> QED
    BY <1>1, <1>2

LEMMA StagedSteps == CompletionFenced /\ StagedOwed /\ [IngressNext]_ingressVars => StagedOwed'
<1> SUFFICES ASSUME CompletionFenced, StagedOwed, [IngressNext]_ingressVars PROVE StagedOwed'
    OBVIOUS
<1>same. ASSUME UNCHANGED <<staged, token, stager>> PROVE StagedOwed'
    BY <1>same DEF StagedOwed
<1>r. Reserved.staged = <<>>
    BY DEF Reserved
<1>1. ASSUME NEW kind \in Kinds, Enqueue(kind) PROVE StagedOwed'
    BY <1>1, <1>r DEF Enqueue, Accept, StagedOwed
<1>2. ASSUME Stage \/ Send PROVE StagedOwed'
    BY <1>2 DEF Stage, Send, StagedOwed
<1>3. ASSUME Import PROVE StagedOwed'
    BY <1>3 DEF Import, StagedOwed, CompletionFenced
<1>4. ASSUME ShouldClose \/ InputBegins PROVE StagedOwed'
    BY <1>4, <1>r DEF ShouldClose, Accept, InputBegins, StagedOwed
<1>5. ASSUME DrainCompletion PROVE StagedOwed'
    BY <1>5 DEF DrainCompletion, Terminate, StagedOwed
<1>6. ASSUME \/ BeginShutdown \/ Borrow \/ Panic \/ RunWake \/ RunStaleWake \/ RunRecovery
             \/ RunConvergence \/ UNCHANGED ingressVars
      PROVE  StagedOwed'
    BY <1>6, <1>same DEF BeginShutdown, Borrow, Panic, RunWake, RunStaleWake, RunRecovery,
       RunConvergence, ingressVars, sequencerVars
<1>7. ASSUME BorrowEnds \/ BorrowReleased \/ ConvergePass \/ ConvergeCritical \/ CriticalEnds
             \/ ConvergeEnds \/ StartWork \/ FinishWork \/ FinishDrain \/ DrainBlocks
      PROVE  StagedOwed'
    BY <1>7, <1>same DEF BorrowEnds, BorrowReleased, ConvergePass, ConvergeCritical,
       CriticalEnds, ConvergeEnds, StartWork, FinishWork, FinishDrain, DrainBlocks,
       sequencerVars
<1>8. ASSUME DrainEvent \/ DeliverEnds \/ DrainCommand \/ CommandEnds \/ InputPrior \/ InputHandled
             \/ InputRejected \/ InputEnds \/ LeaseEnds \/ UnwindCode \/ UnwindQueue \/ Catch
      PROVE  StagedOwed'
    BY <1>8, <1>same DEF DrainEvent, DeliverEnds, DrainCommand, CommandEnds, InputPrior,
       InputHandled, InputRejected, InputEnds, LeaseEnds, UnwindCode, UnwindQueue, Catch,
       sequencerVars
<1> QED
    BY <1>1, <1>2, <1>3, <1>4, <1>5, <1>6, <1>7, <1>8 DEF IngressNext, Tasks, Running
\* Work enters an idle queue with a wake.
LEMMA AcceptWakes ==
    ASSUME NEW kind, Accept(kind), phase = "idle", pending = <<>>, pending' # <<>>
    PROVE  scheduled_wake'
<1>1. CASE Refuses(kind)
    <2>1. Refuses("event")
        BY <1>1 DEF Refuses, Critical
    <2>2. pending' = pending
        BY <1>1, <2>1 DEF Accept, Reserved, Imported
    <2> QED
        BY <2>2
<1>2. CASE ~Refuses(kind)
    <2>1. scheduled_wake' = WakeFor(pending', phase) /\ ~terminated
        BY <1>2 DEF Accept, Refuses
    <2> QED
        BY <2>1 DEF WakeFor
<1> QED
    BY <1>1, <1>2

\* The end of the queue is for good.
LEMMA TerminatedStays == terminated /\ [IngressNext]_ingressVars => terminated'
<1> SUFFICES ASSUME terminated, [IngressNext]_ingressVars PROVE terminated'
    OBVIOUS
<1>1. ASSUME NEW kind \in Kinds, Enqueue(kind) PROVE terminated'
    BY <1>1 DEF Enqueue, fenceVars
<1>2. ASSUME Stage \/ Send \/ BeginShutdown \/ Import \/ UNCHANGED ingressVars PROVE terminated'
    BY <1>2 DEF Stage, Send, BeginShutdown, Import, ingressVars, fenceVars
<1>3. ASSUME Borrow \/ ShouldClose \/ InputBegins \/ Panic PROVE terminated'
    BY <1>3 DEF Borrow, ShouldClose, InputBegins, Panic, fenceVars
<1>4. ASSUME RunWake \/ RunStaleWake \/ RunRecovery \/ RunConvergence PROVE terminated'
    BY <1>4 DEF RunWake, RunStaleWake, RunRecovery, RunConvergence, fenceVars
<1>5. ASSUME BorrowEnds \/ BorrowReleased \/ ConvergePass \/ ConvergeCritical \/ CriticalEnds
             \/ ConvergeEnds
      PROVE  terminated'
    BY <1>5 DEF BorrowEnds, BorrowReleased, ConvergePass, ConvergeCritical, CriticalEnds,
       ConvergeEnds, fenceVars
<1>6. ASSUME StartWork \/ FinishWork \/ FinishDrain \/ DrainBlocks \/ DrainEvent \/ DeliverEnds
      PROVE  terminated'
    BY <1>6 DEF StartWork, FinishWork, FinishDrain, DrainBlocks, DrainEvent, DeliverEnds,
       fenceVars
<1>7. ASSUME DrainCommand \/ CommandEnds \/ DrainCompletion \/ InputPrior \/ InputHandled
      PROVE  terminated'
    BY <1>7 DEF DrainCommand, CommandEnds, DrainCompletion, Terminate, InputPrior, InputHandled,
       fenceVars
<1>8. ASSUME InputRejected \/ InputEnds \/ LeaseEnds \/ UnwindCode \/ UnwindQueue \/ Catch
      PROVE  terminated'
    BY <1>8 DEF InputRejected, InputEnds, LeaseEnds, UnwindCode, UnwindQueue, Catch, fenceVars
<1> QED
    BY <1>1, <1>2, <1>3, <1>4, <1>5, <1>6, <1>7, <1>8 DEF IngressNext, Tasks, Running

LEMMA WorkSteps ==
    ASSUME Nesting, WorkOwed, CompletionFenced, QueueTyped, CompletionFenced',
           [IngressNext]_ingressVars
    PROVE  WorkOwed'
<1> DEFINE Working == TopIs("work") /\ Top.stage = "none"
<1> SUFFICES ASSUME phase' = "idle", pending' # <<>> PROVE WorkOwed'
    BY DEF WorkOwed
<1>b. /\ scheduled_wake \in BOOLEAN /\ post_borrow_convergence_scheduled \in BOOLEAN
      /\ converging \in BOOLEAN
    BY DEF Nesting, IngressTypeOK
<1>t. ~terminated' /\ ~terminated
    BY TerminatedStays DEF CompletionFenced
<1>wake. ASSUME scheduled_wake' \/ converging' PROVE WorkOwed'
    BY <1>wake DEF WorkOwed
<1>for. ASSUME scheduled_wake' = WakeFor(pending', "idle") PROVE WorkOwed'
    BY <1>for, <1>t DEF WorkOwed, WakeFor
<1>drain. ASSUME stack # <<>>, Top.kind \in {"drain", "command"} PROVE phase # "idle"
    <2>1. On(stack, Top.kind)
        BY <1>drain, TopFrame DEF On
    <2> QED
        BY <1>drain, <2>1 DEF Nesting, PhaseOf
<1>1. ASSUME BorrowReleased PROVE WorkOwed'
    <2>1. CASE LeaseActive \/ ~AppIdle \/ converging
        <3>1. Releases(stack') \/ converging'
            <4>1. phase = "idle"
                BY <1>1, <2>1 DEF BorrowReleased
            <4> QED
                BY <1>1, <2>1, <4>1, PutOff
        <3> QED
            BY <3>1 DEF WorkOwed
    <2>2. CASE ~(LeaseActive \/ ~AppIdle \/ converging)
        BY <1>1, <2>2, <1>wake DEF BorrowReleased
    <2> QED
        BY <2>1, <2>2
<1>2. ASSUME ~BorrowReleased PROVE WorkOwed'
    <2>r. unwind_recovery_scheduled \/ Releases(stack) =>
              unwind_recovery_scheduled' \/ Releases(stack')
        BY <1>2, <1>t, ReleaseSteps
    <2>calm. ASSUME phase' = phase, pending # <<>>, scheduled_wake => scheduled_wake',
                    post_borrow_convergence_scheduled => post_borrow_convergence_scheduled',
                    converging => converging', Working => UNCHANGED <<stack, unwinding>>
             PROVE  WorkOwed'
        <3>1. CASE scheduled_wake \/ post_borrow_convergence_scheduled \/ converging
            BY <2>calm, <3>1 DEF WorkOwed
        <3>2. CASE unwind_recovery_scheduled \/ Releases(stack)
            BY <2>r, <3>2 DEF WorkOwed
        <3>3. CASE Working
            BY <2>calm, <3>3 DEF WorkOwed, TopIs, Top
        <3> QED
            BY <2>calm, <3>1, <3>2, <3>3 DEF WorkOwed
    <2> HIDE DEF Working
    <2>1. ASSUME NEW kind \in Kinds, Enqueue(kind) PROVE WorkOwed'
        <3>1. /\ Accept(kind)
              /\ UNCHANGED <<phase, post_borrow_convergence_scheduled, converging, stack, unwinding>>
            BY <2>1 DEF Enqueue, releaseVars, stackVars
        <3>2. CASE pending = <<>>
            BY <3>1, <3>2, <1>wake, AcceptWakes
        <3>3. scheduled_wake => scheduled_wake'
            BY <3>1 DEF Accept, WakeFor
        <3> QED
            BY <2>calm, <3>1, <3>2, <3>3
    <2>2. ASSUME Stage \/ Send \/ UNCHANGED ingressVars PROVE WorkOwed'
        BY <2>2, <2>calm DEF Stage, Send, ingressVars, queueVars, releaseVars, stackVars
    <2>3. ASSUME BeginShutdown PROVE WorkOwed'
        <3>1. pending' = <<>>
            BY <2>3, FenceEmpties DEF BeginShutdown
        <3> QED
            BY <3>1
    <2>4. ASSUME Import PROVE WorkOwed'
        <3>1. UNCHANGED <<phase, post_borrow_convergence_scheduled, converging, stack, unwinding>>
            BY <2>4 DEF Import, releaseVars, stackVars
        <3>2. scheduled_wake => scheduled_wake'
            BY <2>4 DEF Import, WakeFor
        <3>3. CASE pending # <<>>
            BY <2>calm, <3>1, <3>2, <3>3
        <3>4. CASE pending = <<>>
            <4>1. ~(staged = <<>> \/ fenced)
                <5>1. CASE fenced
                    BY <2>4, <3>4, <5>1, <1>t DEF Import, Imported, Refuses, Critical
                <5>2. CASE staged = <<>>
                    <6>1. StagedWork = <<>>
                        BY <5>2 DEF StagedWork
                    <6> QED
                        BY <2>4, <3>4, <6>1, <1>t DEF Import, Imported
                <5> QED
                    BY <5>1, <5>2
            <4>2. scheduled_wake' = WakeFor(pending', "idle")
                BY <2>4, <3>1, <4>1, <1>t DEF Import
            <4> QED
                BY <4>2, <1>for
        <3> QED
            BY <3>3, <3>4
    <2>5. ASSUME Borrow \/ RunWake \/ RunStaleWake PROVE WorkOwed'
        <3>1. ~Working /\ UNCHANGED <<pending, phase, scheduled_wake,
                                      post_borrow_convergence_scheduled, converging>>
            BY <2>5 DEF Borrow, RunWake, RunStaleWake, Nestable, Pumping, Holding, Working,
               TopIs, queueVars, releaseVars
        <3> QED
            BY <2>calm, <3>1
    <2>6. ASSUME RunRecovery \/ RunConvergence PROVE WorkOwed'
        <3>1. stack' = Append(stack, Frame("released", "run", 0, FALSE))
            BY <2>6 DEF RunRecovery, RunConvergence, PushFrame
        <3>2. /\ Frame("released", "run", 0, FALSE) \in Frames
              /\ Frame("released", "run", 0, FALSE).kind = "released"
            BY IngressConstants DEF Frame, Frames
        <3>3. stack \in Seq(Frames)
            BY DEF Nesting, IngressTypeOK
        <3>4. Releases(stack')
            BY <3>1, <3>2, <3>3, ReleasesPush DEF Releasing
        <3> QED
            BY <3>4 DEF WorkOwed
    <2>7. ASSUME ShouldClose PROVE WorkOwed'
        <3>1. /\ ~Working /\ UNCHANGED <<phase, post_borrow_convergence_scheduled, converging>>
            BY <2>7 DEF ShouldClose, Nestable, Pumping, Holding, Working, TopIs, releaseVars
        <3>2. CASE AppIdle /\ DeliversInline(Reserved.work)
            BY <2>7, <3>2 DEF ShouldClose, DeliversInline
        <3>3. CASE ~(AppIdle /\ DeliversInline(Reserved.work))
            <4>1. Accept("event")
                BY <2>7, <3>3 DEF ShouldClose
            <4>2. CASE pending = <<>>
                BY <3>1, <4>1, <4>2, <1>wake, AcceptWakes
            <4>3. scheduled_wake => scheduled_wake'
                BY <4>1 DEF Accept, WakeFor
            <4> QED
                BY <2>calm, <3>1, <4>2, <4>3
        <3> QED
            BY <3>2, <3>3
    <2>8. ASSUME InputBegins PROVE WorkOwed'
        BY <2>8 DEF InputBegins, Barrier
    <2>9. ASSUME Panic PROVE WorkOwed'
        <3>1. ~Working /\ UNCHANGED <<pending, phase, scheduled_wake,
                                      post_borrow_convergence_scheduled, converging>>
            BY <2>9 DEF Panic, Holding, Working, TopIs, queueVars, releaseVars
        <3> QED
            BY <2>calm, <3>1
    <2>10. ASSUME BorrowEnds \/ ConvergeCritical \/ CriticalEnds \/ DeliverEnds \/ LeaseEnds
                  \/ InputHandled
           PROVE  WorkOwed'
        <3>1. ~Working
            BY <2>10 DEF BorrowEnds, ConvergeCritical, CriticalEnds, DeliverEnds, LeaseEnds,
               InputHandled, AtBarrier, Working, TopIs
        <3>2. UNCHANGED <<pending, phase, scheduled_wake, post_borrow_convergence_scheduled,
                          converging>>
            BY <2>10 DEF BorrowEnds, ConvergeCritical, CriticalEnds, DeliverEnds, LeaseEnds,
               InputHandled, queueVars, releaseVars
        <3> QED
            BY <2>calm, <3>1, <3>2
    <2>11. ASSUME ConvergePass PROVE WorkOwed'
        <3>1. stack # <<>> /\ Top.kind = "converge" /\ UNCHANGED converging
            BY <2>11 DEF ConvergePass, TopIs
        <3>2. On(stack, "converge")
            BY <3>1, TopFrame DEF On
        <3>3. converging
            BY <3>2 DEF Nesting, PhaseOf
        <3> QED
            BY <3>1, <3>3, <1>wake
    <2>12. ASSUME ConvergeEnds PROVE WorkOwed'
        <3>1. CASE requested
            BY <2>12, <3>1 DEF ConvergeEnds, WorkOwed
        <3>2. CASE ~requested
            <4>1. scheduled_wake' = WakeFor(pending', "idle")
                BY <2>12, <3>2 DEF ConvergeEnds
            <4> QED
                BY <4>1, <1>for
        <3> QED
            BY <3>1, <3>2
    <2>13. ASSUME StartWork PROVE WorkOwed'
        <3>1. /\ stack # <<>> /\ Top.kind = "work"
              /\ UNCHANGED <<pending, post_borrow_convergence_scheduled, converging>>
            BY <2>13 DEF StartWork, TopIs
        <3>2. CASE converging
            BY <3>1, <3>2, <1>wake
        <3>3. CASE ~converging /\ LeaseActive
            <4>1. Releases(stack)
                BY <3>3 DEF LeaseActive, OnStack, Releases, On
            <4> QED
                BY <2>r, <4>1 DEF WorkOwed
        <3>4. CASE ~converging /\ ~LeaseActive
            <4>1. Top.stage = "stale" /\ phase' = phase
                BY <2>13, <3>1, <3>4, <1>t DEF StartWork
            <4>2. UNCHANGED <<scheduled_wake, stale>>
                BY <2>13, <3>1, <3>4, <4>1, <1>t DEF StartWork, Postpone
            <4>3. ~Working
                BY <4>1 DEF Working
            <4> QED
                BY <2>calm, <3>1, <4>1, <4>2, <4>3
        <3> QED
            BY <3>2, <3>3, <3>4
    <2>14. ASSUME FinishWork PROVE WorkOwed'
        <3>1. ~Working /\ UNCHANGED <<pending, phase, scheduled_wake,
                                      post_borrow_convergence_scheduled, converging>>
            BY <2>14 DEF FinishWork, Working, TopIs, queueVars, releaseVars
        <3> QED
            BY <2>calm, <3>1
    <2>15. ASSUME FinishDrain PROVE WorkOwed'
        BY <2>15, <1>for DEF FinishDrain
    <2>16. ASSUME DrainBlocks \/ DrainCommand \/ CommandEnds PROVE WorkOwed'
        BY <2>16 DEF DrainBlocks, DrainCommand, CommandEnds
    <2>17. ASSUME DrainEvent \/ DrainCompletion PROVE WorkOwed'
        <3>1. stack # <<>> /\ Top.kind = "drain" /\ phase' = phase
            BY <2>17 DEF DrainEvent, DrainCompletion, Looping, TopIs
        <3> QED
            BY <3>1, <1>drain
    <2>18. ASSUME InputPrior PROVE WorkOwed'
        <3>1. ~Working /\ UNCHANGED <<phase, scheduled_wake, post_borrow_convergence_scheduled,
                                      converging>>
            BY <2>18 DEF InputPrior, AtBarrier, Working, TopIs, releaseVars
        <3>2. pending # <<>>
            <4>1. PriorEvents # {}
                BY <2>18 DEF InputPrior
            <4> QED
                BY <4>1 DEF PriorEvents
        <3> QED
            BY <2>calm, <3>1, <3>2
    <2>19. ASSUME InputRejected PROVE WorkOwed'
        <3>1. CASE Top.flag
            BY <2>19, <3>1, <1>for DEF InputRejected
        <3>2. CASE ~Top.flag
            <4>1. ~Working /\ UNCHANGED <<pending, phase, scheduled_wake,
                                          post_borrow_convergence_scheduled, converging>>
                BY <2>19, <3>2 DEF InputRejected, AtBarrier, Working, TopIs, releaseVars
            <4> QED
                BY <2>calm, <4>1
        <3> QED
            BY <3>1, <3>2
    <2>20. ASSUME InputEnds PROVE WorkOwed'
        <3>1. CASE Top.flag
            <4> DEFINE w == Frame("work", "none", 0, FALSE)
            <4>1. stack # <<>> /\ stack' = Append(Below, w) /\ ~unwinding'
                BY <2>20, <3>1 DEF InputEnds, TopIs, Replace
            <4>2. w \in Frames /\ w.kind = "work" /\ w.stage = "none"
                BY IngressConstants DEF Frame, Frames
            <4> HIDE DEF w
            <4>3. Below \in Seq(Frames)
                BY <4>1, TopFrame
            <4>4. /\ stack' \in Seq(Frames) /\ Len(stack') = Len(Below) + 1 /\ stack' # <<>>
                  /\ stack'[Len(Below) + 1] = w
                BY <4>1, <4>2, <4>3, AppendOf
            <4>5. stack'[Len(stack')] = w
                BY <4>4
            <4> QED
                BY <4>1, <4>2, <4>4, <4>5 DEF WorkOwed, TopIs, Top
        <3>2. CASE ~Top.flag
            <4>1. ~Working /\ UNCHANGED <<pending, phase, scheduled_wake,
                                          post_borrow_convergence_scheduled, converging>>
                BY <2>20, <3>2 DEF InputEnds, Working, TopIs, releaseVars
            <4> QED
                BY <2>calm, <4>1
        <3> QED
            BY <3>1, <3>2
    <2>21. ASSUME UnwindCode PROVE WorkOwed'
        <3>1. ~Working /\ UNCHANGED <<pending, phase, scheduled_wake,
                                      post_borrow_convergence_scheduled, converging>>
            BY <2>21 DEF UnwindCode, Unwinds, Working, TopIs, queueVars
        <3> QED
            BY <2>calm, <3>1
    <2>22. ASSUME UnwindQueue PROVE WorkOwed'
        <3>1. CASE Top.kind = "drain" \/ Top.flag
            BY <2>22, <3>1, <1>for DEF UnwindQueue
        <3>2. CASE ~(Top.kind = "drain" \/ Top.flag)
            <4>1. ~Working /\ UNCHANGED <<pending, phase, scheduled_wake,
                                          post_borrow_convergence_scheduled, converging>>
                BY <2>22, <3>2 DEF UnwindQueue, Unwinds, Working, TopIs, releaseVars
            <4> QED
                BY <2>calm, <4>1
        <3> QED
            BY <3>1, <3>2
    <2>23. ASSUME Catch PROVE WorkOwed'
        <3>1. ~Working /\ UNCHANGED <<pending, scheduled_wake, post_borrow_convergence_scheduled,
                                      converging>>
            BY <2>23 DEF Catch, Working, TopIs
        <3>2. phase' = phase
            BY <2>23 DEF Catch
        <3> QED
            BY <2>calm, <3>1, <3>2
    <2> QED
        BY <2>1, <2>2, <2>3, <2>4, <2>5, <2>6, <2>7, <2>8, <2>9, <2>10, <2>11, <2>12, <2>13,
           <2>14, <2>15, <2>16, <2>17, <2>18, <2>19, <2>20, <2>21, <2>22, <2>23, <1>2 DEF
           IngressNext, Tasks, Running
<1> QED
    BY <1>1, <1>2

LEMMA OwedSteps == Nesting /\ Accounts /\ Owed /\ [IngressNext]_ingressVars => Owed'
<1> SUFFICES ASSUME Nesting, Accounts, Owed, [IngressNext]_ingressVars PROVE Owed'
    OBVIOUS
<1>1. Nesting' /\ QueueTyped
    BY NestingSteps, FitsParts DEF Accounts
<1>2. CompletionFenced /\ CompletionFenced'
    BY AccountSteps DEF Accounts
<1> QED
    BY <1>1, <1>2, BlockedSteps, WorkSteps, StagedSteps DEF Owed
-------------------------------------------------------------------------------
(* The inductive invariant.                                                  *)

IngressInv == Nesting /\ Accounts /\ Owed

LEMMA InitIngress == IngressInit => IngressInv
<1> SUFFICES ASSUME IngressInit PROVE IngressInv
    OBVIOUS
<1>1. /\ stack = <<>> /\ pending = <<>> /\ staged = <<>> /\ phase = "idle" /\ converging = FALSE
      /\ next_sequence = 1 /\ handled = 0 /\ fenced = FALSE /\ terminated = FALSE
      /\ \A n \in Reservable : settled[n] = "unused"
    BY DEF IngressInit
<1>2. IngressTypeOK
    <2>1. /\ 1 \in 1 .. MaxSequence + 1 /\ 0 \in 0 .. Budget /\ 0 \in 0 .. MaxSequence
          /\ 0 \in 0 .. MaxUnwinds /\ 0 \in 0 .. MaxBorrows /\ 0 \in Nat
        BY IngressConstants
    <2>2. settled \in [Reservable -> Dispositions]
        BY DEF IngressInit, Dispositions
    <2>3. <<>> \in Seq(Reservable) /\ <<>> \in Seq(Envelopes) /\ <<>> \in Seq(Frames)
        OBVIOUS
    <2>4. QueueTyped
        BY <1>1, <2>1, <2>2, <2>3 DEF IngressInit, QueueTyped, Dispositions
    <2>5. PhaseTyped
        BY <2>1 DEF IngressInit, PhaseTyped
    <2> QED
        BY <1>1, <2>3, <2>4, <2>5, TypedParts
<1>3. \A k : ~On(stack, k)
    BY <1>1 DEF On
<1>4. Nest(stack) /\ PhaseOf(stack, phase, converging)
    BY <1>1, <1>3 DEF Nest, NestedIn, OneAtATime, PhaseOf, Root
<1>5. In(pending) = {} /\ Range(staged) = {} /\ Held(stack) = {} /\ Waits(stack) = {}
    BY <1>1 DEF In, Range, Held, Waits
<1>6. \A K : SequencesOf(pending, K) = {}
    BY <1>1 DEF SequencesOf
<1>7. Ordered /\ Accounted
    BY <1>1, <1>5 DEF Ordered, Accounted, Ascends, Grows, HeldOnce
<1>8. CompletionFenced /\ HandledFirst
    BY <1>1, <1>5, <1>6 DEF CompletionFenced, HandledFirst
<1>9. Owed
    BY <1>1 DEF Owed, BlockedOwed, WorkOwed, StagedOwed
<1> QED
    BY <1>2, <1>4, <1>7, <1>8, <1>9 DEF IngressInv, Nesting, Accounts

LEMMA StepIngress == IngressInv /\ [IngressNext]_ingressVars => IngressInv'
<1> SUFFICES ASSUME IngressInv, [IngressNext]_ingressVars PROVE IngressInv'
    OBVIOUS
<1>1. Nesting /\ Accounts /\ Owed /\ CompletionFenced
    BY DEF IngressInv, Accounts
<1> QED
    BY <1>1, NestingSteps, AccountSteps, OwedSteps DEF IngressInv

LEMMA IngressInvariant == IngressSpec => []IngressInv
BY InitIngress, StepIngress, PTL DEF IngressSpec
-------------------------------------------------------------------------------
\* The ingress is well typed: the stack of calls, the budget of a drain and the phase stay
\* what native_event_ingress.rs declares, through every nesting and panic.
THEOREM IngressTypeCorrect == IngressSpec => []IngressTypeOK
<1>1. IngressInv => IngressTypeOK
    BY DEF IngressInv, Nesting
<1> QED
    BY IngressInvariant, <1>1, PTL

\* A set with no two elements has none or one.
LEMMA AtMostOne ==
    ASSUME NEW S, \A x, y \in S : x = y
    PROVE  Cardinality(S) = IF S = {} THEN 0 ELSE 1
<1>1. CASE S = {}
    BY <1>1, FS_EmptySet
<1>2. CASE S # {}
    <2>1. PICK x \in S : TRUE
        BY <1>2
    <2>2. S = {x}
        BY <2>1
    <2>3. Cardinality({x}) = 1
        BY FS_Singleton
    <2> QED
        BY <1>2, <2>2, <2>3
<1> QED
    BY <1>1, <1>2

\* However callbacks, drains, inputs and panics nest, an accepted envelope is queued, staged
\* or in the hands of one call until it is settled, one call has the queue, and the phase
\* names it (NativeWorkPhase and the leases of native_event_ingress.rs).
THEOREM WorkAlwaysAccounted == IngressSpec => []WorkAccounted
<1>1. IngressInv => WorkAccounted
    <2> SUFFICES ASSUME IngressInv PROVE WorkAccounted
        OBVIOUS
    <2>s. /\ pending \in Seq(Envelopes) /\ staged \in Seq(Reservable) /\ stack \in Seq(Frames)
          /\ settled \in [Reservable -> Dispositions] /\ Nest(stack)
          /\ PhaseOf(stack, phase, converging)
        BY DEF IngressInv, Nesting, IngressTypeOK, Dispositions
    <2>a. Ordered /\ Accounted
        BY DEF IngressInv, Accounts
    <2>1. ASSUME NEW n \in Reservable
          PROVE  (settled[n] = "pending") <=>
                 1 = Cardinality({i \in 1 .. Len(pending) : pending[i].sequence = n})
                       + Cardinality({i \in 1 .. Len(staged) : staged[i] = n})
                       + Cardinality({i \in 1 .. Len(stack) : stack[i].sequence = n /\
                                         (\/ stack[i].kind \in {"borrow", "deliver", "command"}
                                          \/ stack[i].kind = "input" /\ stack[i].stage = "prior")})
        <3> DEFINE A == {i \in 1 .. Len(pending) : pending[i].sequence = n}
                   B == {i \in 1 .. Len(staged) : staged[i] = n}
                   C == {i \in 1 .. Len(stack) : stack[i].sequence = n /\
                            (\/ stack[i].kind \in {"borrow", "deliver", "command"}
                             \/ stack[i].kind = "input" /\ stack[i].stage = "prior")}
        <3>0. n \in Nat /\ n # 0 /\ Reservable \subseteq Nat
            BY IngressConstants DEF Reservable
        <3>c. /\ \A i \in 1 .. Len(stack) : i \in C <=> Carries(stack[i]) /\ stack[i].sequence = n
              /\ C \subseteq 1 .. Len(stack)
            BY DEF Carries
        <3>1. \A x, y \in A : x = y
            <4> SUFFICES ASSUME NEW x \in A, NEW y \in A, x # y PROVE FALSE
                OBVIOUS
            <4>1. x < y \/ y < x
                OBVIOUS
            <4>2. n < n
                BY <4>1, <2>a DEF Ordered, Ascends
            <4> QED
                BY <3>0, <4>2
        <3>2. \A x, y \in B : x = y
            <4> SUFFICES ASSUME NEW x \in B, NEW y \in B, x # y PROVE FALSE
                OBVIOUS
            <4>1. x < y \/ y < x
                OBVIOUS
            <4>2. n < n
                BY <4>1, <2>a DEF Ordered, Grows
            <4> QED
                BY <3>0, <4>2
        <3>3. \A x, y \in C : x = y
            BY <3>0, <3>c, <2>a DEF Accounted, HeldOnce
        <3>4. A # {} <=> n \in In(pending)
            BY DEF In
        <3>5. B # {} <=> n \in Range(staged)
            BY <2>s DEF Range
        <3>6. C # {} <=> n \in Held(stack)
            <4> HIDE DEF C
            <4> QED
                BY <3>0, <3>c DEF Held
        <3> HIDE DEF A, B, C
        <3>7. settled[n] = "pending" <=> A # {} \/ B # {} \/ C # {}
            BY <2>a, <3>4, <3>5, <3>6 DEF Accounted
        <3>8. ~(A # {} /\ B # {}) /\ ~(C # {} /\ (A # {} \/ B # {}))
            <4>1. ASSUME n \in In(pending), n \in Range(staged) PROVE FALSE
                <5>1. n < n
                    BY <4>1, <2>a DEF Ordered
                <5> QED
                    BY <3>0, <5>1
            <4>2. n \in Held(stack) => n \notin In(pending) /\ n \notin Range(staged)
                BY <2>a DEF Accounted
            <4> QED
                BY <3>4, <3>5, <3>6, <4>1, <4>2
        <3>9. /\ Cardinality(A) = IF A = {} THEN 0 ELSE 1
              /\ Cardinality(B) = IF B = {} THEN 0 ELSE 1
              /\ Cardinality(C) = IF C = {} THEN 0 ELSE 1
            BY <3>1, <3>2, <3>3, AtMostOne
        <3>10. settled[n] = "pending" <=> 1 = Cardinality(A) + Cardinality(B) + Cardinality(C)
            BY <3>7, <3>8, <3>9
        <3> QED
            BY <3>10 DEF A, B, C
    <2>2. Cardinality({i \in 1 .. Len(stack) : stack[i].kind = "drain"})
             + Cardinality({i \in 1 .. Len(stack) : stack[i].kind = "input" /\ stack[i].flag})
             = IF phase \in {"draining", "command", "input"} THEN 1 ELSE 0
        <3> DEFINE A == {i \in 1 .. Len(stack) : stack[i].kind = "drain"}
                   B == {i \in 1 .. Len(stack) : stack[i].kind = "input" /\ stack[i].flag}
        <3>1. (\A x, y \in A : x = y) /\ (\A x, y \in B : x = y)
            BY <2>s DEF Nest, OneAtATime, Owns
        <3>2. A # {} => B = {}
            <4> SUFFICES ASSUME NEW x \in A, NEW y \in B PROVE FALSE
                OBVIOUS
            <4>1. x = y
                BY <2>s DEF Nest, OneAtATime, Owns
            <4> QED
                BY <4>1
        <3>3. A # {} <=> On(stack, "drain")
            BY DEF On
        <3>4. B # {} <=> Root(stack)
            BY DEF Root
        <3>5. On(stack, "command") => On(stack, "drain")
            <4> SUFFICES ASSUME NEW i \in 1 .. Len(stack), stack[i].kind = "command"
                         PROVE  On(stack, "drain")
                BY DEF On
            <4>1. i > 1 /\ stack[i - 1].kind = "drain"
                BY <2>s DEF Nest, NestedIn
            <4>2. i - 1 \in 1 .. Len(stack)
                BY <4>1
            <4> QED
                BY <4>1, <4>2 DEF On
        <3> HIDE DEF A, B
        <3>6. phase \in {"draining", "command", "input"} <=> A # {} \/ B # {}
            BY <2>s, <3>3, <3>4, <3>5 DEF PhaseOf
        <3>7. /\ Cardinality(A) = IF A = {} THEN 0 ELSE 1
              /\ Cardinality(B) = IF B = {} THEN 0 ELSE 1
            BY <3>1, AtMostOne
        <3>8. Cardinality(A) + Cardinality(B) =
                  IF phase \in {"draining", "command", "input"} THEN 1 ELSE 0
            BY <3>2, <3>6, <3>7
        <3> QED
            BY <3>8 DEF A, B
    <2>3. converging <=> OnStack("converge")
        BY <2>s DEF PhaseOf, On, OnStack
    <2> QED
        BY <2>1, <2>2, <2>3 DEF WorkAccounted
<1> QED
    BY IngressInvariant, <1>1, PTL

\* Once every call has returned, queued work has a wake, a recovery or a convergence on its
\* way to it and staged callbacks a token, whatever blocked, postponed or unwound the drains
\* before (block_on_app, postpone_drain, schedule_drain_after_unwind).
THEOREM WorkNeverStranded == IngressSpec => []NoStrandedWork
<1>1. IngressInv => NoStrandedWork
    <2> SUFFICES ASSUME IngressInv, stack = <<>>, ~unwinding
                 PROVE  /\ pending # <<>> => \/ phase = "idle" /\ scheduled_wake
                                             \/ unwind_recovery_scheduled
                                             \/ post_borrow_convergence_scheduled
                        /\ staged # <<>> => token \/ stager = "send"
                        /\ phase = "idle" \/ (phase = "blocked" /\ unwind_recovery_scheduled)
        BY DEF NoStrandedWork
    <2>1. \A k : ~On(stack, k)
        BY DEF On
    <2>2. ~Releases(stack) /\ ~Root(stack) /\ ~TopIs("work")
        BY <2>1 DEF Releases, Root, TopIs
    <2>3. ~converging /\ phase \in {"idle", "blocked"}
        BY <2>1, <2>2 DEF IngressInv, Nesting, PhaseOf, IngressTypeOK
    <2>4. BlockedOwed /\ WorkOwed /\ StagedOwed
        BY DEF IngressInv, Owed
    <2>5. phase = "blocked" => unwind_recovery_scheduled
        BY <2>2, <2>4 DEF BlockedOwed
    <2>6. phase = "idle" /\ pending # <<>> =>
              scheduled_wake \/ post_borrow_convergence_scheduled \/ unwind_recovery_scheduled
        BY <2>2, <2>3, <2>4 DEF WorkOwed
    <2> QED
        BY <2>3, <2>4, <2>5, <2>6 DEF StagedOwed
<1> QED
    BY IngressInvariant, <1>1, PTL

\* The handlers that start.
LEMMA HandlersSweep ==
    ASSUME [IngressNext]_ingressVars, handled' # handled
    PROVE  ShouldClose \/ DrainEvent \/ InputPrior \/ InputHandled
<1> DEFINE Goal == ShouldClose \/ DrainEvent \/ InputPrior \/ InputHandled
<1>1. ASSUME NEW kind \in Kinds, Enqueue(kind) PROVE Goal
    BY <1>1 DEF Enqueue
<1>2. ASSUME Stage \/ Send \/ BeginShutdown \/ Import \/ UNCHANGED ingressVars PROVE Goal
    BY <1>2 DEF Stage, Send, BeginShutdown, Import, ingressVars, historyVars
<1>3. ASSUME Borrow \/ InputBegins \/ Panic PROVE Goal
    BY <1>3 DEF Borrow, InputBegins, Panic, historyVars
<1>4. ASSUME RunWake \/ RunStaleWake \/ RunRecovery \/ RunConvergence PROVE Goal
    BY <1>4 DEF RunWake, RunStaleWake, RunRecovery, RunConvergence, historyVars
<1>5. ASSUME BorrowEnds \/ BorrowReleased \/ ConvergePass \/ ConvergeCritical \/ CriticalEnds
             \/ ConvergeEnds
      PROVE  Goal
    BY <1>5 DEF BorrowEnds, BorrowReleased, ConvergePass, ConvergeCritical, CriticalEnds,
       ConvergeEnds, historyVars
<1>6. ASSUME StartWork \/ FinishWork \/ FinishDrain \/ DrainBlocks \/ DeliverEnds PROVE Goal
    BY <1>6 DEF StartWork, FinishWork, FinishDrain, DrainBlocks, DeliverEnds, historyVars
<1>7. ASSUME DrainCommand \/ CommandEnds \/ DrainCompletion PROVE Goal
    BY <1>7 DEF DrainCommand, CommandEnds, DrainCompletion, historyVars
<1>8. ASSUME InputRejected \/ InputEnds \/ LeaseEnds \/ UnwindCode \/ UnwindQueue \/ Catch
      PROVE Goal
    BY <1>8 DEF InputRejected, InputEnds, LeaseEnds, UnwindCode, UnwindQueue, Catch, historyVars
<1> QED
    BY <1>1, <1>2, <1>3, <1>4, <1>5, <1>6, <1>7, <1>8 DEF IngressNext, Tasks, Running

\* Handlers start in the order of their sequences, whichever path takes the work: a drain, a
\* close request delivered inline, a root or nested input barrier (native_event_ingress.rs).
THEOREM HandlersAlwaysInOrder == IngressSpec => HandlersInOrder
<1>1. IngressInv /\ [IngressNext]_ingressVars =>
          [handled' # handled => handled' > handled]_ingressVars
    <2> SUFFICES ASSUME IngressInv, [IngressNext]_ingressVars, handled' # handled
                 PROVE  handled' > handled
        OBVIOUS
    <2>1. HandledFirst /\ pending \in Seq(Envelopes)
        BY DEF IngressInv, Accounts, Nesting, IngressTypeOK
    <2>n. handled \in Nat /\ next_sequence \in Nat /\ Reservable \subseteq Nat
        BY IngressConstants DEF IngressInv, Nesting, IngressTypeOK, Reservable
    <2>2. CASE ShouldClose
        <3>1. handled' = next_sequence
            BY <2>2 DEF ShouldClose
        <3> QED
            BY <2>1, <2>n, <3>1 DEF HandledFirst
    <2>3. CASE DrainEvent
        <3>1. pending # <<>> /\ handled' = pending[1].sequence /\ pending[1].kind \in Events
            BY <2>1, <2>3 DEF DrainEvent, Pops, FirstPending
        <3>2. 1 \in 1 .. Len(pending)
            BY <2>1, <3>1
        <3>3. handled' \in SequencesOf(pending, Events)
            BY <3>1, <3>2 DEF SequencesOf
        <3> QED
            BY <2>1, <3>3 DEF HandledFirst
    <2>4. CASE InputPrior
        <3> DEFINE i == CHOOSE j \in PriorEvents : \A k \in PriorEvents : j <= k
        <3>1. handled' = pending[i].sequence
            BY <2>4 DEF InputPrior
        <3>2. i \in PriorEvents
            BY <2>4, FirstPrior DEF InputPrior
        <3> HIDE DEF i
        <3>3. i \in 1 .. Len(pending) /\ pending[i].kind \in Events
            BY <3>2 DEF PriorEvents
        <3>4. handled' \in SequencesOf(pending, Events)
            BY <3>1, <3>3 DEF SequencesOf
        <3> QED
            BY <2>1, <3>4 DEF HandledFirst
    <2>5. CASE InputHandled
        <3>1. /\ stack # <<>> /\ Top.kind = "input" /\ Top.stage = "prior"
              /\ handled' = Top.sequence
            BY <2>5 DEF InputHandled, AtBarrier, TopIs
        <3>2. Len(stack) \in 1 .. Len(stack) /\ Top = stack[Len(stack)]
            BY <3>1, TopFrame DEF IngressInv
        <3>3. handled' \in Waits(stack)
            BY <3>1, <3>2 DEF Waits
        <3> QED
            BY <2>1, <3>3 DEF HandledFirst
    <2> QED
        BY <2>2, <2>3, <2>4, <2>5, HandlersSweep
<1> QED
    BY IngressInvariant, <1>1, PTL DEF IngressSpec, HandlersInOrder
===============================================================================

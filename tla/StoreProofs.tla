------------------------------ MODULE StoreProofs ------------------------------
(***************************************************************************)
(* Proofs about the stores of the application, each for any values of its  *)
(* constants.                                                              *)
(*                                                                         *)
(* EntityMap.  The reference counts of entity_map.rs, taken at the level   *)
(* of lock and atomic operations, implement EntityRefs: the count of an id *)
(* is the number of its handles, where the handle that a thread is about   *)
(* to give up still counts.                                                *)
(*                                                                         *)
(* FormStore and ResourceClient.  Answers come back late, and revisions of *)
(* a form saturate, so they cannot tell a late ticket from a current one;  *)
(* what carries the proofs is that a generation is given to one ticket     *)
(* only.                                                                   *)
(***************************************************************************)
EXTENDS EntityMap, FormStore, ResourceClient, FiniteSetTheorems, TLAPS
-----------------------------------------------------------------------------
(* The entity map.                                                           *)

\* The handle a thread has taken out of its own and not yet out of the count.
Dropping(t, id) == IF at[t].op = "drop" /\ at[t].id = id THEN 1 ELSE 0

\* How many handles of an id each thread has, and the set of them.
HeldBy(t, id) == owned[t][id] + Dropping(t, id)
Holding(id) == [t \in Threads |-> HeldBy(t, id)]
HandleSet(held) == {h \in Threads \X (Nat \ {0}) : h[2] <= held[h[1]]}
Handles(id) == HandleSet(Holding(id))

\* The count is exact, and only a counted id has handles.
CountExact ==
    \A id \in Ids :
        /\ IsFiniteSet(Handles(id)) /\ count[id] = Cardinality(Handles(id))
        /\ present[id] # "counted" => count[id] = 0

\* Who holds which guard: a clone or an upgrade reads, a drop has the upgradable guard,
\* and the collector has neither next to it.
GuardsHeld ==
    \A t \in Threads :
        /\ t \in readers <=> at[t].op \in {"clone", "upgrade"}
        /\ upgradable = t <=> at[t].op \in {"drop", "push"}
        /\ at[t].op = "take" => upgradable = NoThread

\* What an operation in progress may rely on until it ends.
OperationsFit ==
    \A t \in Threads :
        /\ at[t].op = "clone" => owned[t][at[t].id] > 0
        /\ at[t].op \in {"upgrade", "push"} => present[at[t].id] = "counted"
        /\ at[t].op = "push" => count[at[t].id] = 0

\* A counted id whose count is zero is on the list of dropped ids, or its last dropper
\* is about to put it there; what is on the list has no handles.
DroppedRecorded ==
    \A id \in Ids :
        /\ present[id] = "counted" /\ count[id] = 0 =>
              InDropped(id) \/ \E t \in Threads : at[t].op = "push" /\ at[t].id = id
        /\ InDropped(id) => present[id] = "counted" /\ count[id] = 0

MapInv == TypeOK /\ CountExact /\ GuardsHeld /\ OperationsFit /\ DroppedRecorded
-----------------------------------------------------------------------------
(* Counting handles.                                                         *)

LEMMA AddHandle ==
    ASSUME NEW held \in [Threads -> Nat], NEW t \in Threads, IsFiniteSet(HandleSet(held))
    PROVE  LET more == [held EXCEPT ![t] = @ + 1] IN
           /\ IsFiniteSet(HandleSet(more))
           /\ Cardinality(HandleSet(more)) = Cardinality(HandleSet(held)) + 1
<1> DEFINE more == [held EXCEPT ![t] = @ + 1]
           h == <<t, held[t] + 1>>
<1>1. HandleSet(more) = HandleSet(held) \cup {h}
  BY DEF HandleSet
<1>2. h \notin HandleSet(held)
  BY DEF HandleSet
<1> HIDE DEF h
<1>3. IsFiniteSet(HandleSet(held) \cup {h})
      /\ Cardinality(HandleSet(held) \cup {h}) = Cardinality(HandleSet(held)) + 1
  BY <1>2, FS_AddElement
<1>4. QED
  BY <1>1, <1>3

LEMMA RemoveHandle ==
    ASSUME NEW held \in [Threads -> Nat], NEW t \in Threads, IsFiniteSet(HandleSet(held)),
           held[t] > 0
    PROVE  LET fewer == [held EXCEPT ![t] = @ - 1] IN
           /\ IsFiniteSet(HandleSet(fewer))
           /\ Cardinality(HandleSet(fewer)) = Cardinality(HandleSet(held)) - 1
           /\ fewer \in [Threads -> Nat]
<1> DEFINE fewer == [held EXCEPT ![t] = @ - 1]
           h == <<t, held[t]>>
<1>1. HandleSet(fewer) = HandleSet(held) \ {h}
  BY DEF HandleSet
<1>2. h \in HandleSet(held)
  BY DEF HandleSet
<1>3. fewer \in [Threads -> Nat]
  OBVIOUS
<1> HIDE DEF h
<1>4. IsFiniteSet(HandleSet(fewer))
      /\ Cardinality(HandleSet(fewer)) = Cardinality(HandleSet(held)) - 1
  BY <1>1, <1>2, FS_RemoveElement
<1>5. QED
  BY <1>3, <1>4

LEMMA HoldingType ==
    ASSUME TypeOK, NEW id \in Ids
    PROVE  Holding(id) \in [Threads -> Nat] /\ \A t \in Threads : HeldBy(t, id) \in Nat
  BY DEF TypeOK, Holding, HeldBy, Dropping, Steps

\* An id with a handle anywhere is counted.
LEMMA HeldIsCounted ==
    ASSUME TypeOK, CountExact, NEW id \in Ids, NEW t \in Threads, HeldBy(t, id) > 0
    PROVE  count[id] > 0 /\ present[id] = "counted"
<1>1. <<t, 1>> \in Handles(id)
  BY HoldingType DEF Handles, HandleSet, Holding
<1>2. Cardinality(Handles(id)) # 0
  BY <1>1, FS_EmptySet DEF CountExact
<1>3. QED
  BY <1>2 DEF CountExact, TypeOK

\* A step that gives thread t n handles more and changes nobody else's.
Gets(t, id, n) ==
    \A u \in Threads : HeldBy(u, id)' = IF u = t THEN HeldBy(u, id) + n ELSE HeldBy(u, id)

\* Such a step, if it counts what it does.
LEMMA CountMoves ==
    ASSUME TypeOK, CountExact, NEW id \in Ids, NEW t \in Threads, NEW n \in {-1, 0, 1},
           Gets(t, id, n), count'[id] = count[id] + n, HeldBy(t, id) + n >= 0
    PROVE  IsFiniteSet(Handles(id)') /\ count'[id] = Cardinality(Handles(id)')
<1> DEFINE held == Holding(id)
           next == Holding(id)'
<1>1. held \in [Threads -> Nat] /\ IsFiniteSet(HandleSet(held))
      /\ count[id] = Cardinality(HandleSet(held)) /\ count[id] \in Nat
  BY HoldingType DEF CountExact, Handles, TypeOK
<1>2. Handles(id)' = HandleSet(next)
  BY DEF Handles, HandleSet
<1>3. next = [u \in Threads |-> IF u = t THEN held[u] + n ELSE held[u]]
  BY DEF Gets, Holding
<1>4. held[t] + n >= 0
  BY DEF Holding
<1> HIDE DEF held, next
<1>5. CASE n = 0
  <2>1. next = held
    BY <1>1, <1>3, <1>5
  <2>2. QED
    BY <1>1, <1>2, <1>5, <2>1
<1>6. CASE n = 1
  <2>1. next = [held EXCEPT ![t] = @ + 1]
    BY <1>1, <1>3, <1>6
  <2>2. IsFiniteSet(HandleSet(next)) /\ Cardinality(HandleSet(next)) = Cardinality(HandleSet(held)) + 1
    BY <1>1, <2>1, AddHandle
  <2>3. QED
    BY <1>1, <1>2, <1>6, <2>2
<1>7. CASE n = -1
  <2>a. next = [u \in Threads |-> IF u = t THEN held[u] - 1 ELSE held[u]]
    <3>1. \A u \in Threads : held[u] + n = held[u] - 1
      BY <1>1, <1>7
    <3>2. QED
      BY <1>3, <3>1
  <2>1. next = [held EXCEPT ![t] = @ - 1] /\ held[t] > 0
    <3>1. held[t] > 0
      BY <1>1, <1>4, <1>7
    <3>2. next = [held EXCEPT ![t] = @ - 1]
      BY <1>1, <2>a
    <3>3. QED
      BY <3>1, <3>2
  <2>2. IsFiniteSet(HandleSet(next)) /\ Cardinality(HandleSet(next)) = Cardinality(HandleSet(held)) - 1
    BY <1>1, <2>1, RemoveHandle
  <2>3. QED
    BY <1>1, <1>2, <1>7, <2>2
<1>8. QED
  BY <1>5, <1>6, <1>7

\* A handle that moves from one thread to another is counted already.
LEMMA CountSent ==
    ASSUME TypeOK, CountExact, NEW id \in Ids, NEW t \in Threads, NEW u \in Threads, t # u,
           HeldBy(t, id) > 0, count'[id] = count[id],
           \A v \in Threads : HeldBy(v, id)' = IF v = t THEN HeldBy(v, id) - 1
                                               ELSE IF v = u THEN HeldBy(v, id) + 1
                                               ELSE HeldBy(v, id)
    PROVE  IsFiniteSet(Handles(id)') /\ count'[id] = Cardinality(Handles(id)')
<1> DEFINE held == Holding(id)
           fewer == [held EXCEPT ![t] = @ - 1]
           next == Holding(id)'
<1>1. held \in [Threads -> Nat] /\ IsFiniteSet(HandleSet(held)) /\ held[t] > 0
      /\ count[id] = Cardinality(HandleSet(held)) /\ count[id] \in Nat
  BY HoldingType DEF CountExact, Handles, TypeOK, Holding
<1>2. Handles(id)' = HandleSet(next)
  BY DEF Handles, HandleSet
<1>3. next = [v \in Threads |-> IF v = t THEN held[v] - 1
                                ELSE IF v = u THEN held[v] + 1 ELSE held[v]]
  BY DEF Holding
<1> HIDE DEF held, next
<1>4. next = [fewer EXCEPT ![u] = @ + 1]
  BY <1>1, <1>3
<1>5. IsFiniteSet(HandleSet(fewer)) /\ fewer \in [Threads -> Nat]
      /\ Cardinality(HandleSet(fewer)) = Cardinality(HandleSet(held)) - 1
  BY <1>1, RemoveHandle
<1> HIDE DEF fewer
<1>6. IsFiniteSet(HandleSet(next)) /\ Cardinality(HandleSet(next)) = Cardinality(HandleSet(fewer)) + 1
  BY <1>4, <1>5, AddHandle
<1>7. QED
  BY <1>1, <1>2, <1>5, <1>6
-----------------------------------------------------------------------------
(* Each step keeps the parts of the invariant.                               *)

LEMMA RestingType == Resting \in Steps /\ Resting.op = "rest"
  BY EntityMapAssumption DEF Resting, Steps

LEMMA DoingType ==
    ASSUME NEW op \in {"clone", "drop", "push", "upgrade"}, NEW id \in Ids, NEW n \in Nat
    PROVE  Doing(op, id, n) \in Steps
  BY DEF Doing, Steps

LEMMA StepFields ==
    ASSUME TypeOK, NEW t \in Threads PROVE at[t].id \in Ids /\ at[t].loaded \in Nat
  BY DEF TypeOK, Steps

LEMMA OwnedType ==
    ASSUME NEW f \in [Threads -> [Ids -> Nat]], NEW t \in Threads, NEW id \in Ids,
           NEW n \in Int, f[t][id] + n \in Nat
    PROVE  [f EXCEPT ![t][id] = @ + n] \in [Threads -> [Ids -> Nat]]
  OBVIOUS

\* The operations, one at a time.
LEMMA Cases ==
    ASSUME Next
    PROVE  \/ TakeBegin \/ TakeClaim \/ TakeDropped
           \/ \E id \in Ids : Reserve(id)
           \/ \E id \in Ids : Insert(id)
           \/ \E t \in Threads, id \in Ids : CloneBegin(t, id)
           \/ \E t \in Threads, id \in Ids : DropBegin(t, id)
           \/ \E t \in Threads, id \in Ids : UpgradeBegin(t, id)
           \/ \E t, u \in Threads, id \in Ids : SendHandle(t, u, id)
           \/ \E t \in Threads : CloneEnd(t)
           \/ \E t \in Threads : DropCount(t)
           \/ \E t \in Threads : DropPush(t)
           \/ \E t \in Threads : UpgradeStep(t)
  BY DEF Next, Continue

LEMMA MapTypeStep == MapInv /\ Next => TypeOK'
<1> SUFFICES ASSUME MapInv, Next PROVE TypeOK'
  OBVIOUS
<1>own. owned \in [Threads -> [Ids -> Nat]]
  BY DEF MapInv, TypeOK
<1>send. ASSUME NEW t \in Threads, NEW u \in Threads, NEW id \in Ids, SendHandle(t, u, id)
         PROVE  owned' \in [Threads -> [Ids -> Nat]]
  <2> DEFINE sent == [owned EXCEPT ![t][id] = @ + (-1)]
  <2>0. owned[t][id] \in Nat /\ owned[t][id] > 0
    BY <1>own, <1>send DEF SendHandle
  <2>1. owned[t][id] + (-1) \in Nat
    BY <2>0
  <2>2. sent \in [Threads -> [Ids -> Nat]]
    BY <1>own, <2>1, OwnedType
  <2>3. owned' = [sent EXCEPT ![u][id] = @ + 1]
    BY <1>send DEF SendHandle
  <2> HIDE DEF sent
  <2>4. sent[u][id] + 1 \in Nat
    BY <2>2
  <2>5. QED
    BY <2>2, <2>3, <2>4, OwnedType
<1>gain. ASSUME NEW t \in Threads, NEW id \in Ids, owned' = [owned EXCEPT ![t][id] = @ + 1]
         PROVE  owned' \in [Threads -> [Ids -> Nat]]
  BY <1>own, <1>gain, OwnedType, owned[t][id] + 1 \in Nat
<1>held. ASSUME NEW t \in Threads, at[t].op = "drop"
         PROVE  at[t].id \in Ids /\ count[at[t].id] > 0
  <2>1. at[t].id \in Ids /\ owned[t][at[t].id] \in Nat
    BY <1>own, StepFields DEF MapInv
  <2>2. HeldBy(t, at[t].id) > 0
    BY <1>held, <2>1 DEF HeldBy, Dropping
  <2>3. QED
    BY <2>1, <2>2, HeldIsCounted DEF MapInv
<1>fields. \A t \in Threads : at[t].id \in Ids
  BY StepFields DEF MapInv
<1> USE EntityMapAssumption, RestingType DEF MapInv, TypeOK, Goes, Own, Rests
<1>1. CASE TakeBegin
  BY <1>1 DEF TakeBegin, Steps
<1>2. CASE TakeClaim
  BY <1>2 DEF TakeClaim, Steps
<1>3. CASE TakeDropped
  BY <1>3 DEF TakeDropped
<1>4. CASE \E id \in Ids : Reserve(id)
  BY <1>4 DEF Reserve
<1>5. CASE \E id \in Ids : Insert(id)
  BY <1>5 DEF Insert
<1>6. CASE \E t \in Threads, id \in Ids : CloneBegin(t, id)
  BY <1>6, DoingType DEF CloneBegin
<1>7. CASE \E t \in Threads, id \in Ids : DropBegin(t, id)
  <2> PICK t \in Threads, id \in Ids : DropBegin(t, id)
    BY <1>7
  <2>1. owned' \in [Threads -> [Ids -> Nat]]
    BY DEF DropBegin
  <2>2. QED
    BY <2>1, DoingType DEF DropBegin
<1>8. CASE \E t \in Threads, id \in Ids : UpgradeBegin(t, id)
  BY <1>8, DoingType DEF UpgradeBegin
<1>9. CASE \E t, u \in Threads, id \in Ids : SendHandle(t, u, id)
  <2> PICK t, u \in Threads, id \in Ids : SendHandle(t, u, id)
    BY <1>9
  <2>3. owned' \in [Threads -> [Ids -> Nat]]
    BY <1>send
  <2>4. QED
    BY <2>3 DEF SendHandle
<1>10. CASE \E t \in Threads : CloneEnd(t)
  <2> PICK t \in Threads : CloneEnd(t)
    BY <1>10
  <2>1. owned' \in [Threads -> [Ids -> Nat]]
    BY <1>gain, <1>fields DEF CloneEnd
  <2>2. count' \in [Ids -> Nat]
    BY <1>fields DEF CloneEnd
  <2>3. at' \in [Threads -> Steps]
    BY DEF CloneEnd
  <2>4. QED
    BY <2>1, <2>2, <2>3 DEF CloneEnd
<1>11. CASE \E t \in Threads : DropCount(t)
  <2> PICK t \in Threads : DropCount(t)
    BY <1>11
  <2>1. at[t].id \in Ids /\ count[at[t].id] > 0
    BY <1>held DEF DropCount
  <2>3. count' \in [Ids -> Nat]
    BY <2>1 DEF DropCount
  <2>4. at' \in [Threads -> Steps] /\ upgradable' \in Threads \cup {NoThread}
    <3>1. Doing("push", at[t].id, 0) \in Steps
      BY <2>1, DoingType
    <3>2. QED
      BY <3>1 DEF DropCount
  <2>5. QED
    BY <2>3, <2>4 DEF DropCount
<1>12. CASE \E t \in Threads : DropPush(t)
  BY <1>12, StepFields DEF DropPush
<1>13. CASE \E t \in Threads : UpgradeStep(t)
  <2> PICK t \in Threads : UpgradeStep(t)
    BY <1>13
  <2>1. at[t].id \in Ids
    BY StepFields
  <2>2. count' \in [Ids -> Nat] /\ owned' \in [Threads -> [Ids -> Nat]]
    <3>1. CASE at[t].loaded # 0 /\ at[t].loaded = count[at[t].id]
      <4>1. count' = [count EXCEPT ![at[t].id] = @ + 1]
            /\ owned' = [owned EXCEPT ![t][at[t].id] = @ + 1]
        BY <3>1 DEF UpgradeStep
      <4>2. owned' \in [Threads -> [Ids -> Nat]]
        BY <2>1, <4>1, <1>gain
      <4>3. count' \in [Ids -> Nat]
        BY <2>1, <4>1
      <4>4. QED
        BY <4>2, <4>3
    <3>2. CASE ~(at[t].loaded # 0 /\ at[t].loaded = count[at[t].id])
      BY <3>2 DEF UpgradeStep
    <3>3. QED
      BY <3>1, <3>2
  <2>3. at' \in [Threads -> Steps]
    BY <2>1, DoingType DEF UpgradeStep
  <2>4. QED
    BY <2>2, <2>3 DEF UpgradeStep
<1>14. QED
  BY Cases, <1>1, <1>2, <1>3, <1>4, <1>5, <1>6, <1>7, <1>8, <1>9, <1>10, <1>11, <1>12, <1>13

LEMMA CountStep == MapInv /\ Next => CountExact'
<1> SUFFICES ASSUME MapInv, Next, NEW id \in Ids
             PROVE  /\ IsFiniteSet(Handles(id)') /\ count'[id] = Cardinality(Handles(id)')
                    /\ present'[id] # "counted" => count'[id] = 0
  BY DEF CountExact
<1>a. Main \in Threads /\ TypeOK /\ CountExact /\ Resting.op = "rest"
      /\ \A t \in Threads : HeldBy(t, id) \in Nat
  BY EntityMapAssumption, HoldingType, RestingType DEF MapInv
<1> DEFINE Exact == IsFiniteSet(Handles(id)') /\ count'[id] = Cardinality(Handles(id)')
<1>b. count[id] \in Nat /\ (present[id] # "counted" => count[id] = 0)
  BY <1>a DEF TypeOK, CountExact
<1>same. ASSUME NEW t \in Threads, Gets(t, id, 0), count'[id] = count[id] PROVE Exact
  BY <1>a, <1>b, <1>same, CountMoves, count'[id] = count[id] + 0, HeldBy(t, id) + 0 >= 0
<1>more. ASSUME NEW t \in Threads, Gets(t, id, 1), count'[id] = count[id] + 1 PROVE Exact
  BY <1>a, <1>b, <1>more, CountMoves, HeldBy(t, id) + 1 >= 0
<1>fewer. ASSUME NEW t \in Threads, Gets(t, id, -1), count'[id] = count[id] - 1,
                 HeldBy(t, id) > 0
          PROVE  Exact
  BY <1>a, <1>b, <1>fewer, CountMoves, count'[id] = count[id] + (-1), HeldBy(t, id) + (-1) >= 0
<1> HIDE DEF Exact
<1>c. ASSUME NEW t \in Threads, Gets(t, id, 0), UNCHANGED <<count, present>>
      PROVE  Exact /\ (present'[id] # "counted" => count'[id] = 0)
  BY <1>a, <1>b, <1>same, <1>c
<1>d. SUFFICES Exact /\ (present'[id] # "counted" => count'[id] = 0)
  BY DEF Exact
<1>e. ASSUME \A u \in Threads : HeldBy(u, id)' = HeldBy(u, id) PROVE Gets(Main, id, 0)
  BY <1>a, <1>e DEF Gets
<1>f. ASSUME owned' = owned, NEW t \in Threads, NEW step, step.op # "drop",
             at[t].op # "drop", Goes(t, step)
      PROVE  Gets(Main, id, 0)
  <2>1. \A u \in Threads : at'[u] = IF u = t THEN step ELSE at[u]
    BY <1>a, <1>f DEF TypeOK, Goes
  <2>2. \A u \in Threads : Dropping(u, id)' = Dropping(u, id)
    BY <1>f, <2>1 DEF Dropping
  <2>3. QED
    BY <1>e, <1>f, <2>2 DEF HeldBy
<1> USE DEF Goes, Own, Doing, Rests
<1>1. CASE TakeBegin
  <2>1. Gets(Main, id, 0)
    BY <1>1, <1>a, <1>f, [Resting EXCEPT !.op = "ask"].op = "ask" DEF TakeBegin, Resting
  <2>2. QED
    BY <1>1, <1>a, <1>c, <2>1 DEF TakeBegin
<1>2. CASE TakeClaim
  <2>1. Gets(Main, id, 0)
    BY <1>2, <1>a, <1>f, [Resting EXCEPT !.op = "take"].op = "take" DEF TakeClaim, Resting
  <2>2. QED
    BY <1>2, <1>a, <1>c, <2>1 DEF TakeClaim
<1>3. CASE TakeDropped
  <2>1. Gets(Main, id, 0)
    BY <1>3, <1>a, <1>f DEF TakeDropped
  <2>2. InDropped(id) => count[id] = 0
    BY DEF MapInv, DroppedRecorded
  <2>3. QED
    BY <1>3, <1>a, <1>b, <1>same, <2>1, <2>2 DEF TakeDropped
<1>4. CASE \E i \in Ids : Reserve(i)
  <2> PICK i \in Ids : Reserve(i)
    BY <1>4
  <2>1. i = id => count[id] = 0
    BY <1>a DEF Reserve, CountExact
  <2>2. CASE i = id
    <3>1. Gets(Main, id, 1)
      BY <2>2, <1>a DEF Reserve, TypeOK, Gets, HeldBy, Dropping
    <3>2. count'[id] = count[id] + 1 /\ present'[id] = "counted"
      BY <2>1, <2>2, <1>a DEF Reserve, TypeOK
    <3>3. QED
      BY <3>1, <3>2, <1>a, <1>more
  <2>3. CASE i # id
    <3>1. Gets(Main, id, 0)
      BY <2>3, <1>a DEF Reserve, TypeOK, Gets, HeldBy, Dropping
    <3>2. count'[id] = count[id] /\ present'[id] = present[id]
      BY <2>3, <1>a DEF Reserve, TypeOK
    <3>3. QED
      BY <3>1, <3>2, <1>a, <1>b, <1>same
  <2>4. QED
    BY <2>2, <2>3
<1>5. CASE \E i \in Ids : Insert(i)
  <2>1. Gets(Main, id, 0)
    BY <1>5, <1>a DEF Insert, TypeOK, Gets, HeldBy, Dropping
  <2>2. QED
    BY <1>5, <1>a, <1>c, <2>1 DEF Insert
<1>6. CASE \E t \in Threads, i \in Ids : CloneBegin(t, i)
  <2>1. Gets(Main, id, 0)
    BY <1>6, <1>a, <1>f DEF CloneBegin
  <2>2. QED
    BY <1>6, <1>a, <1>c, <2>1 DEF CloneBegin
<1>7. CASE \E t \in Threads, i \in Ids : DropBegin(t, i)
  <2> PICK t \in Threads, i \in Ids : DropBegin(t, i)
    BY <1>7
  <2>a. /\ owned'[t][id] = IF id = i THEN owned[t][id] + -1 ELSE owned[t][id]
        /\ \A u \in Threads \ {t} : owned'[u] = owned[u]
    BY <1>a DEF DropBegin, TypeOK
  <2>b. /\ at'[t].op = "drop" /\ at'[t].id = i /\ at[t].op = "rest"
        /\ \A u \in Threads \ {t} : at'[u] = at[u]
    BY <1>a DEF DropBegin, TypeOK
  <2>c. owned[t][id] \in Nat
    BY <1>a DEF TypeOK
  <2>d. HeldBy(t, id)' = HeldBy(t, id)
    BY <2>a, <2>b, <2>c DEF HeldBy, Dropping
  <2>e. \A u \in Threads \ {t} : HeldBy(u, id)' = HeldBy(u, id)
    BY <2>a, <2>b DEF HeldBy, Dropping
  <2>1. Gets(Main, id, 0)
    BY <1>e, <2>d, <2>e
  <2>2. QED
    BY <1>7, <1>a, <1>c, <2>1 DEF DropBegin
<1>8. CASE \E t \in Threads, i \in Ids : UpgradeBegin(t, i)
  <2>1. Gets(Main, id, 0)
    BY <1>8, <1>a, <1>f DEF UpgradeBegin
  <2>2. QED
    BY <1>8, <1>a, <1>c, <2>1 DEF UpgradeBegin
<1>9. CASE \E t, u \in Threads, i \in Ids : SendHandle(t, u, i)
  <2> PICK t, u \in Threads, i \in Ids : SendHandle(t, u, i)
    BY <1>9
  <2>1. CASE i # id
    <3>1. ASSUME NEW v \in Threads PROVE owned'[v][id] = owned[v][id]
      BY <2>1, <1>a DEF SendHandle, TypeOK
    <3>b. ASSUME NEW v \in Threads PROVE HeldBy(v, id)' = HeldBy(v, id)
      BY <3>1 DEF SendHandle, HeldBy, Dropping
    <3>a. Gets(Main, id, 0)
      BY <3>b, <1>a DEF Gets
    <3>2. QED
      BY <1>a, <1>c, <3>a DEF SendHandle
  <2>2. CASE i = id
    <3>1. HeldBy(t, id) > 0
      BY <2>2, <1>a DEF SendHandle, TypeOK, HeldBy, Dropping
    <3>2. ASSUME NEW v \in Threads
          PROVE  HeldBy(v, id)' = IF v = t THEN HeldBy(v, id) - 1
                                  ELSE IF v = u THEN HeldBy(v, id) + 1 ELSE HeldBy(v, id)
      <4>1. owned'[v][id] = IF v = t THEN owned[v][id] - 1
                            ELSE IF v = u THEN owned[v][id] + 1 ELSE owned[v][id]
        BY <2>2, <1>a DEF SendHandle, TypeOK
      <4>2. Dropping(v, id)' = Dropping(v, id) /\ Dropping(v, id) \in Nat
        BY DEF SendHandle, Dropping
      <4>3. owned[v][id] \in Nat
        BY <1>a DEF TypeOK
      <4>4. QED
        BY <4>1, <4>2, <4>3 DEF HeldBy
    <3>3. QED
      BY <3>1, <3>2, <1>a, <1>b, CountSent DEF SendHandle, Exact
  <2>3. QED
    BY <2>1, <2>2
<1>10. CASE \E t \in Threads : CloneEnd(t)
  <2> PICK t \in Threads : CloneEnd(t)
    BY <1>10
  <2>2. HeldBy(t, at[t].id) > 0 /\ at[t].id \in Ids
    BY <1>a, StepFields DEF CloneEnd, TypeOK, HeldBy, Dropping, MapInv, OperationsFit
  <2>3. present[at[t].id] = "counted"
    BY <1>a, <2>2, HeldIsCounted
  <2>4. CASE at[t].id = id
    <3>1. Gets(t, id, 1)
      <4>1. ASSUME NEW u \in Threads, u # t PROVE HeldBy(u, id)' = HeldBy(u, id)
        BY <4>1, <1>a DEF CloneEnd, TypeOK, HeldBy, Dropping
      <4>2. owned'[t][id] = owned[t][id] + 1 /\ owned[t][id] \in Nat
        BY <2>4, <1>a DEF CloneEnd, TypeOK
      <4>3. Dropping(t, id)' = 0 /\ Dropping(t, id) = 0
        BY <1>a DEF CloneEnd, TypeOK, Dropping, Resting
      <4>4. QED
        BY <4>1, <4>2, <4>3 DEF Gets, HeldBy
    <3>2. count'[id] = count[id] + 1 /\ present' = present
      BY <2>4, <1>a DEF CloneEnd, TypeOK
    <3>3. QED
      BY <2>2, <2>3, <2>4, <3>1, <3>2, <1>a, <1>more
  <2>5. CASE ~(at[t].id = id)
    <3>1. Gets(t, id, 0)
      BY <2>5, <1>a, StepFields DEF CloneEnd, TypeOK, Gets, HeldBy, Dropping
    <3>2. count'[id] = count[id] /\ present' = present
      BY <2>5, <1>a, StepFields DEF CloneEnd, TypeOK
    <3>3. QED
      BY <3>1, <3>2, <1>a, <1>b, <1>same
  <2>6. QED
    BY <2>4, <2>5
<1>11. CASE \E t \in Threads : DropCount(t)
  <2> PICK t \in Threads : DropCount(t)
    BY <1>11
  <2>2. HeldBy(t, at[t].id) > 0 /\ at[t].id \in Ids
    BY <1>a, StepFields DEF DropCount, TypeOK, HeldBy, Dropping
  <2>3. present[at[t].id] = "counted"
    BY <1>a, <2>2, HeldIsCounted
  <2>4. CASE at[t].id = id
    <3>1. Gets(t, id, -1)
      <4>1. ASSUME NEW u \in Threads, u # t PROVE HeldBy(u, id)' = HeldBy(u, id)
        BY <4>1, <1>a DEF DropCount, TypeOK, HeldBy, Dropping
      <4>2. HeldBy(t, id)' = HeldBy(t, id) + (-1)
        BY <2>4, <1>a DEF DropCount, TypeOK, HeldBy, Dropping
      <4>3. QED
        BY <4>1, <4>2 DEF Gets
    <3>2. count'[id] = count[id] - 1 /\ present' = present
      BY <2>4, <1>a DEF DropCount, TypeOK
    <3>3. QED
      BY <2>2, <2>3, <2>4, <3>1, <3>2, <1>a, <1>fewer
  <2>5. CASE ~(at[t].id = id)
    <3>1. Gets(t, id, 0)
      <4>1. \A u \in Threads \ {t} : at'[u] = at[u]
        BY <1>a DEF DropCount, TypeOK
      <4>2. at'[t].op # "drop" /\ owned' = owned
        BY <1>a DEF DropCount, TypeOK
      <4>3. \A u \in Threads : Dropping(u, id)' = Dropping(u, id)
        BY <2>5, <4>1, <4>2 DEF Dropping
      <4>4. QED
        BY <1>a, <4>2, <4>3 DEF HeldBy, Gets
    <3>2. count'[id] = count[id] /\ present' = present
      BY <2>5, <1>a, StepFields DEF DropCount, TypeOK
    <3>3. QED
      BY <3>1, <3>2, <1>a, <1>b, <1>same
  <2>6. QED
    BY <2>4, <2>5
<1>12. CASE \E t \in Threads : DropPush(t)
  <2>1. Gets(Main, id, 0)
    BY <1>12, <1>a, <1>f DEF DropPush
  <2>2. QED
    BY <1>12, <1>a, <1>c, <2>1 DEF DropPush
<1>13. CASE \E t \in Threads : UpgradeStep(t)
  <2> PICK t \in Threads : UpgradeStep(t)
    BY <1>13
  <2> DEFINE wins == at[t].loaded # 0 /\ at[t].loaded = count[at[t].id]
  <2>2. at[t].id \in Ids
    BY <1>a, StepFields
  <2>3. present[at[t].id] = "counted"
    BY DEF UpgradeStep, MapInv, OperationsFit
  <2>4. CASE at[t].id = id /\ wins
    <3>1. Gets(t, id, 1)
      BY <2>4, <1>a, StepFields DEF UpgradeStep, TypeOK, Gets, HeldBy, Dropping
    <3>2. count'[id] = count[id] + 1 /\ present' = present
      BY <2>4, <1>a DEF UpgradeStep, TypeOK
    <3>3. QED
      BY <2>2, <2>3, <2>4, <3>1, <3>2, <1>a, <1>more
  <2>5. CASE ~(at[t].id = id /\ wins)
    <3>1. Gets(t, id, 0)
      <4>1. ASSUME NEW u \in Threads PROVE owned'[u][id] = owned[u][id]
        <5>1. CASE wins
          <6>1. owned' = [owned EXCEPT ![t][at[t].id] = @ + 1]
            BY <5>1 DEF UpgradeStep
          <6>2. QED
            BY <2>2, <2>5, <5>1, <6>1, <1>a DEF TypeOK
        <5>2. CASE ~wins
          BY <5>2 DEF UpgradeStep
        <5>3. QED
          BY <5>1, <5>2
      <4>2. ASSUME NEW u \in Threads PROVE Dropping(u, id)' = Dropping(u, id)
        BY <1>a DEF UpgradeStep, TypeOK, Dropping
      <4>3. ASSUME NEW u \in Threads PROVE HeldBy(u, id)' = HeldBy(u, id)
        BY <4>1, <4>2 DEF HeldBy
      <4>4. QED
        BY <4>3, <1>a DEF Gets
    <3>2. count'[id] = count[id] /\ present' = present
      BY <2>5, <1>a, StepFields DEF UpgradeStep, TypeOK
    <3>3. QED
      BY <3>1, <3>2, <1>a, <1>b, <1>same
  <2>6. QED
    BY <2>4, <2>5
<1>14. QED
  BY Cases, <1>1, <1>2, <1>3, <1>4, <1>5, <1>6, <1>7, <1>8, <1>9, <1>10, <1>11, <1>12, <1>13

LEMMA GuardsStep == MapInv /\ Next => GuardsHeld'
<1> SUFFICES ASSUME MapInv, Next PROVE GuardsHeld'
  OBVIOUS
<1>a. TypeOK /\ GuardsHeld /\ Resting.op = "rest" /\ Main \in Threads /\ NoThread \notin Threads
  BY EntityMapAssumption, RestingType DEF MapInv
<1> USE DEF Goes, Doing, Rests
<1>1. CASE TakeBegin
  BY <1>1, <1>a DEF TakeBegin, TypeOK, GuardsHeld
<1>2. CASE TakeClaim
  BY <1>2, <1>a DEF TakeClaim, CanUpgradableRead, TypeOK, GuardsHeld
<1>3. CASE TakeDropped
  BY <1>3, <1>a DEF TakeDropped, TypeOK, GuardsHeld
<1>4. CASE \E id \in Ids : Reserve(id)
  BY <1>4, <1>a DEF Reserve, GuardsHeld
<1>5. CASE \E id \in Ids : Insert(id)
  BY <1>5, <1>a DEF Insert, GuardsHeld
<1>6. CASE \E t \in Threads, id \in Ids : CloneBegin(t, id)
  BY <1>6, <1>a DEF CloneBegin, TypeOK, GuardsHeld
<1>7. CASE \E t \in Threads, id \in Ids : DropBegin(t, id)
  BY <1>7, <1>a DEF DropBegin, CanUpgradableRead, Claimed, TypeOK, GuardsHeld
<1>8. CASE \E t \in Threads, id \in Ids : UpgradeBegin(t, id)
  BY <1>8, <1>a DEF UpgradeBegin, TypeOK, GuardsHeld
<1>9. CASE \E t, u \in Threads, id \in Ids : SendHandle(t, u, id)
  BY <1>9, <1>a DEF SendHandle, GuardsHeld
<1>10. CASE \E t \in Threads : CloneEnd(t)
  BY <1>10, <1>a DEF CloneEnd, TypeOK, GuardsHeld
<1>11. CASE \E t \in Threads : DropCount(t)
  BY <1>11, <1>a DEF DropCount, TypeOK, GuardsHeld
<1>12. CASE \E t \in Threads : DropPush(t)
  BY <1>12, <1>a DEF DropPush, TypeOK, GuardsHeld
<1>13. CASE \E t \in Threads : UpgradeStep(t)
  BY <1>13, <1>a DEF UpgradeStep, TypeOK, GuardsHeld
<1>14. QED
  BY Cases, <1>1, <1>2, <1>3, <1>4, <1>5, <1>6, <1>7, <1>8, <1>9, <1>10, <1>11, <1>12, <1>13

LEMMA OperationsStep == MapInv /\ Next => OperationsFit'
<1> SUFFICES ASSUME MapInv, Next PROVE OperationsFit'
  OBVIOUS
<1>a. TypeOK /\ GuardsHeld /\ OperationsFit /\ Resting.op = "rest" /\ Main \in Threads
      /\ NoThread \notin Threads
  BY EntityMapAssumption, RestingType DEF MapInv
<1>b. ASSUME NEW t \in Threads, HeldBy(t, at[t].id) > 0
      PROVE  count[at[t].id] > 0 /\ present[at[t].id] = "counted"
  BY <1>a, <1>b, StepFields, HeldIsCounted DEF MapInv
<1> USE DEF Goes, Doing, Rests, Own
<1>1. CASE TakeBegin
  BY <1>1, <1>a DEF TakeBegin, TypeOK, OperationsFit
<1>2. CASE TakeClaim
  BY <1>2, <1>a DEF TakeClaim, TypeOK, OperationsFit
<1>3. CASE TakeDropped
  BY <1>3, <1>a, StepFields DEF TakeDropped, TypeOK, OperationsFit, GuardsHeld
<1>4. CASE \E id \in Ids : Reserve(id)
  BY <1>4, <1>a, StepFields DEF Reserve, TypeOK, OperationsFit
<1>5. CASE \E id \in Ids : Insert(id)
  BY <1>5, <1>a DEF Insert, OperationsFit
<1>6. CASE \E t \in Threads, id \in Ids : CloneBegin(t, id)
  BY <1>6, <1>a DEF CloneBegin, TypeOK, OperationsFit
<1>7. CASE \E t \in Threads, id \in Ids : DropBegin(t, id)
  BY <1>7, <1>a, StepFields DEF DropBegin, TypeOK, OperationsFit
<1>8. CASE \E t \in Threads, id \in Ids : UpgradeBegin(t, id)
  BY <1>8, <1>a DEF UpgradeBegin, TypeOK, OperationsFit
<1>9. CASE \E t, u \in Threads, id \in Ids : SendHandle(t, u, id)
  <2> PICK t, u \in Threads, id \in Ids : SendHandle(t, u, id)
    BY <1>9
  <2>1. ASSUME NEW v \in Threads, at[v].op = "clone" PROVE owned'[v][at[v].id] > 0
    <3>1. v # t /\ owned[v][at[v].id] > 0 /\ at[v].id \in Ids
      BY <2>1, <1>a, StepFields DEF SendHandle, OperationsFit
    <3>2. owned'[v][at[v].id] = IF v = u /\ at[v].id = id THEN owned[v][at[v].id] + 1
                                ELSE owned[v][at[v].id]
      BY <3>1, <1>a DEF SendHandle, TypeOK
    <3>3. owned[v][at[v].id] \in Nat
      BY <3>1, <1>a DEF TypeOK
    <3>4. QED
      BY <3>1, <3>2, <3>3
  <2>2. QED
    BY <2>1, <1>a DEF SendHandle, OperationsFit
<1>10. CASE \E t \in Threads : CloneEnd(t)
  <2> PICK t \in Threads : CloneEnd(t)
    BY <1>10
  <2>1. at[t].id \in Ids /\ HeldBy(t, at[t].id) > 0
    BY <1>a, StepFields DEF CloneEnd, TypeOK, OperationsFit, HeldBy, Dropping
  <2>2. count[at[t].id] > 0
    BY <1>b, <2>1
  <2>4. ASSUME NEW v \in Threads, at[v].op = "push" PROVE count'[at[v].id] = 0
    <3>1. count[at[v].id] = 0 /\ at[v].id \in Ids
      BY <2>4, <1>a, StepFields DEF OperationsFit
    <3>2. count' = [count EXCEPT ![at[t].id] = @ + 1]
      BY DEF CloneEnd
    <3>3. QED
      BY <2>1, <2>2, <3>1, <3>2, <1>a DEF TypeOK
  <2>5. ASSUME NEW v \in Threads, v # t PROVE at'[v] = at[v] /\ owned'[v] = owned[v]
    BY <2>5, <1>a DEF CloneEnd, TypeOK
  <2>6. at'[t].op = "rest" /\ present' = present
    BY <1>a DEF CloneEnd, TypeOK
  <2>7. QED
    BY <2>4, <2>5, <2>6, <1>a DEF OperationsFit
<1>11. CASE \E t \in Threads : DropCount(t)
  <2> PICK t \in Threads : DropCount(t)
    BY <1>11
  <2>1. at[t].id \in Ids /\ HeldBy(t, at[t].id) > 0
    BY <1>a, StepFields DEF DropCount, TypeOK, HeldBy, Dropping
  <2>2. count[at[t].id] > 0 /\ present[at[t].id] = "counted"
    BY <1>b, <2>1
  <2>3. ASSUME NEW v \in Threads, at[v].op = "push" PROVE count'[at[v].id] = 0
    BY <2>1, <2>2, <2>3, <1>a, StepFields DEF DropCount, TypeOK, OperationsFit
  <2>4. ASSUME NEW v \in Threads, v # t PROVE at'[v] = at[v]
    BY <2>4, <1>a DEF DropCount, TypeOK
  <2>5. \/ at'[t].op = "rest"
        \/ at'[t].op = "push" /\ at'[t].id = at[t].id /\ count'[at[t].id] = 0
    BY <2>1, <1>a DEF DropCount, TypeOK
  <2>6. present' = present /\ owned' = owned
    BY DEF DropCount
  <2>7. QED
    BY <2>2, <2>3, <2>4, <2>5, <2>6, <1>a DEF OperationsFit
<1>12. CASE \E t \in Threads : DropPush(t)
  BY <1>12, <1>a DEF DropPush, TypeOK, OperationsFit
<1>13. CASE \E t \in Threads : UpgradeStep(t)
  <2> PICK t \in Threads : UpgradeStep(t)
    BY <1>13
  <2>1. at[t].id \in Ids /\ at[t].loaded \in Nat /\ present[at[t].id] = "counted"
    BY <1>a, StepFields DEF UpgradeStep, OperationsFit
  <2>2. ASSUME NEW i \in Ids, count[i] = 0 PROVE count'[i] = 0
    BY <2>1, <2>2, <1>a DEF UpgradeStep, TypeOK
  <2>3. at'[t].op = "rest" \/ (at'[t].op = "upgrade" /\ at'[t].id = at[t].id)
    BY <1>a DEF UpgradeStep, TypeOK
  <2>4. \A v \in Threads \ {t} : at'[v] = at[v] /\ owned'[v] = owned[v]
    BY <1>a, <2>1 DEF UpgradeStep, TypeOK
  <2>5. present' = present /\ \A v \in Threads : at[v].id \in Ids
    BY <1>a, StepFields DEF UpgradeStep
  <2>6. QED
    BY <2>1, <2>2, <2>3, <2>4, <2>5, <1>a DEF OperationsFit
<1>14. QED
  BY Cases, <1>1, <1>2, <1>3, <1>4, <1>5, <1>6, <1>7, <1>8, <1>9, <1>10, <1>11, <1>12, <1>13

LEMMA DroppedStep == MapInv /\ Next => DroppedRecorded'
<1> SUFFICES ASSUME MapInv, Next, NEW id \in Ids
             PROVE  /\ present'[id] = "counted" /\ count'[id] = 0 =>
                          InDropped(id)' \/ \E t \in Threads : at'[t].op = "push" /\ at'[t].id = id
                    /\ InDropped(id)' => present'[id] = "counted" /\ count'[id] = 0
  BY DEF DroppedRecorded
<1> DEFINE Pushing == \E t \in Threads : at[t].op = "push" /\ at[t].id = id
<1>a. TypeOK /\ GuardsHeld /\ OperationsFit /\ Resting.op = "rest" /\ Main \in Threads
      /\ NoThread \notin Threads
  BY EntityMapAssumption, RestingType DEF MapInv
<1>b. /\ present[id] = "counted" /\ count[id] = 0 => InDropped(id) \/ Pushing
      /\ InDropped(id) => present[id] = "counted" /\ count[id] = 0
      /\ present[id] # "counted" => count[id] = 0
  BY DEF MapInv, DroppedRecorded, CountExact
<1>c. ASSUME NEW t \in Threads, HeldBy(t, at[t].id) > 0
      PROVE  count[at[t].id] > 0 /\ present[at[t].id] = "counted"
  BY <1>a, <1>c, StepFields, HeldIsCounted DEF MapInv
<1>d. ASSUME present'[id] = present[id], count'[id] = count[id] \/ (count[id] > 0 /\ count'[id] > 0),
             dropped_entity_ids' = dropped_entity_ids,
             Pushing => \E t \in Threads : at'[t].op = "push" /\ at'[t].id = id
      PROVE  /\ present'[id] = "counted" /\ count'[id] = 0 =>
                   InDropped(id)' \/ \E t \in Threads : at'[t].op = "push" /\ at'[t].id = id
             /\ InDropped(id)' => present'[id] = "counted" /\ count'[id] = 0
  BY <1>a, <1>b, <1>d DEF InDropped, TypeOK
<1> USE DEF Goes, Doing, Rests, Own
<1>1. CASE TakeBegin
  <2>1. Pushing => \E t \in Threads : at'[t].op = "push" /\ at'[t].id = id
    BY <1>1, <1>a DEF TakeBegin, TypeOK
  <2>2. QED
    BY <1>1, <1>d, <2>1 DEF TakeBegin
<1>2. CASE TakeClaim
  <2>1. Pushing => \E t \in Threads : at'[t].op = "push" /\ at'[t].id = id
    BY <1>2, <1>a DEF TakeClaim, TypeOK
  <2>2. QED
    BY <1>2, <1>d, <2>1 DEF TakeClaim
<1>3. CASE TakeDropped
  <2>1. ~Pushing
    BY <1>3, <1>a DEF TakeDropped, GuardsHeld
  <2>2. ~InDropped(id)'
    BY <1>3 DEF TakeDropped, InDropped
  <2>3. QED
    BY <1>3, <1>b, <2>1, <2>2 DEF TakeDropped
<1>4. CASE \E i \in Ids : Reserve(i)
  <2> PICK i \in Ids : Reserve(i)
    BY <1>4
  <2>1. CASE i # id
    BY <2>1, <1>a, <1>d DEF Reserve, TypeOK
  <2>2. CASE i = id
    <3>1. ~InDropped(id)
      BY <2>2, <1>b DEF Reserve
    <3>2. count'[id] # 0 /\ ~InDropped(id)'
      BY <2>2, <3>1, <1>a DEF Reserve, TypeOK, InDropped
    <3>3. QED
      BY <3>2
  <2>3. QED
    BY <2>1, <2>2
<1>5. CASE \E i \in Ids : Insert(i)
  BY <1>5, <1>d DEF Insert
<1>6. CASE \E t \in Threads, i \in Ids : CloneBegin(t, i)
  <2>1. Pushing => \E t \in Threads : at'[t].op = "push" /\ at'[t].id = id
    BY <1>6, <1>a DEF CloneBegin, TypeOK
  <2>2. QED
    BY <1>6, <1>d, <2>1 DEF CloneBegin
<1>7. CASE \E t \in Threads, i \in Ids : DropBegin(t, i)
  <2>1. Pushing => \E t \in Threads : at'[t].op = "push" /\ at'[t].id = id
    BY <1>7, <1>a DEF DropBegin, TypeOK
  <2>2. QED
    BY <1>7, <1>d, <2>1 DEF DropBegin
<1>8. CASE \E t \in Threads, i \in Ids : UpgradeBegin(t, i)
  <2>1. Pushing => \E t \in Threads : at'[t].op = "push" /\ at'[t].id = id
    BY <1>8, <1>a DEF UpgradeBegin, TypeOK
  <2>2. QED
    BY <1>8, <1>d, <2>1 DEF UpgradeBegin
<1>9. CASE \E t, u \in Threads, i \in Ids : SendHandle(t, u, i)
  BY <1>9, <1>d DEF SendHandle
<1>10. CASE \E t \in Threads : CloneEnd(t)
  <2> PICK t \in Threads : CloneEnd(t)
    BY <1>10
  <2>1. at[t].id \in Ids /\ HeldBy(t, at[t].id) > 0
    BY <1>a, StepFields DEF CloneEnd, TypeOK, OperationsFit, HeldBy, Dropping
  <2>2. count[at[t].id] > 0
    BY <1>c, <2>1
  <2>3. count'[id] = count[id] \/ (count[id] > 0 /\ count'[id] > 0)
    BY <2>1, <2>2, <1>a DEF CloneEnd, TypeOK
  <2>4. Pushing => \E u \in Threads : at'[u].op = "push" /\ at'[u].id = id
    BY <1>a DEF CloneEnd, TypeOK
  <2>5. QED
    BY <1>d, <2>3, <2>4 DEF CloneEnd
<1>11. CASE \E t \in Threads : DropCount(t)
  <2> PICK t \in Threads : DropCount(t)
    BY <1>11
  <2>1. at[t].id \in Ids /\ HeldBy(t, at[t].id) > 0
    BY <1>a, StepFields DEF DropCount, TypeOK, HeldBy, Dropping
  <2>2. count[at[t].id] > 0
    BY <1>c, <2>1
  <2>3. Pushing => \E u \in Threads : at'[u].op = "push" /\ at'[u].id = id
    BY <1>a DEF DropCount, TypeOK
  <2>4. CASE at[t].id = id /\ count[id] = 1
    <3>1. at'[t].op = "push" /\ at'[t].id = id
      BY <2>4, <1>a DEF DropCount, TypeOK
    <3>2. ~InDropped(id)'
      BY <2>4, <1>b DEF DropCount, InDropped
    <3>3. QED
      BY <3>1, <3>2
  <2>5. CASE ~(at[t].id = id /\ count[id] = 1)
    <3>1. count'[id] = count[id] \/ (count[id] > 0 /\ count'[id] > 0)
      BY <2>1, <2>2, <2>5, <1>a DEF DropCount, TypeOK
    <3>2. QED
      BY <1>d, <2>3, <3>1 DEF DropCount
  <2>6. QED
    BY <2>4, <2>5
<1>12. CASE \E t \in Threads : DropPush(t)
  <2> PICK t \in Threads : DropPush(t)
    BY <1>12
  <2>1. present' = present /\ count' = count /\ at[t].id \in Ids
        /\ dropped_entity_ids' = Append(dropped_entity_ids, at[t].id)
    BY <1>a, StepFields DEF DropPush
  <2>2. InDropped(id)' <=> InDropped(id) \/ at[t].id = id
    <3> DEFINE n == Len(dropped_entity_ids)
    <3>1. n \in Nat /\ Len(dropped_entity_ids') = n + 1
          /\ dropped_entity_ids'[n + 1] = at[t].id
          /\ \A i \in 1 .. n : dropped_entity_ids'[i] = dropped_entity_ids[i]
      BY <2>1, <1>a DEF TypeOK
    <3>2. 1 .. (n + 1) = (1 .. n) \cup {n + 1}
      BY <3>1
    <3> HIDE DEF n
    <3>3. InDropped(id) <=> \E i \in 1 .. n : dropped_entity_ids[i] = id
      BY DEF InDropped, n
    <3>4. InDropped(id)' <=> \E i \in 1 .. (n + 1) : dropped_entity_ids'[i] = id
      BY <3>1 DEF InDropped
    <3>5. QED
      BY <3>1, <3>2, <3>3, <3>4
  <2>3. present[at[t].id] = "counted" /\ count[at[t].id] = 0
    BY <1>a DEF DropPush, OperationsFit
  <2>4. Pushing => at[t].id = id \/ \E u \in Threads : at'[u].op = "push" /\ at'[u].id = id
    BY <1>a DEF DropPush, TypeOK
  <2>5. QED
    BY <1>b, <2>1, <2>2, <2>3, <2>4
<1>13. CASE \E t \in Threads : UpgradeStep(t)
  <2> PICK t \in Threads : UpgradeStep(t)
    BY <1>13
  <2>1. at[t].id \in Ids /\ at[t].loaded \in Nat
    BY <1>a, StepFields
  <2>2. count'[id] = count[id] \/ (count[id] > 0 /\ count'[id] > 0)
    <3>1. CASE at[t].loaded # 0 /\ at[t].loaded = count[at[t].id]
      <4>1. count' = [count EXCEPT ![at[t].id] = @ + 1]
        BY <3>1 DEF UpgradeStep
      <4>2. QED
        BY <2>1, <3>1, <4>1, <1>a DEF TypeOK
    <3>2. CASE ~(at[t].loaded # 0 /\ at[t].loaded = count[at[t].id])
      BY <3>2 DEF UpgradeStep
    <3>3. QED
      BY <3>1, <3>2
  <2>3. Pushing => \E u \in Threads : at'[u].op = "push" /\ at'[u].id = id
    BY <1>a DEF UpgradeStep, TypeOK
  <2>4. QED
    BY <1>d, <2>2, <2>3 DEF UpgradeStep
<1>14. QED
  BY Cases, <1>1, <1>2, <1>3, <1>4, <1>5, <1>6, <1>7, <1>8, <1>9, <1>10, <1>11, <1>12, <1>13

LEMMA Initially == Init => MapInv
<1> SUFFICES ASSUME Init PROVE MapInv
  OBVIOUS
<1>1. TypeOK
  BY RestingType DEF Init, TypeOK
<1>2. CountExact
  <2> SUFFICES ASSUME NEW id \in Ids
               PROVE  IsFiniteSet(Handles(id)) /\ count[id] = Cardinality(Handles(id))
                      /\ count[id] = 0
    BY DEF CountExact
  <2>1. \A t \in Threads : Holding(id)[t] = 0
    BY RestingType DEF Init, Holding, HeldBy, Dropping
  <2>2. Handles(id) = {}
    BY <2>1 DEF Handles, HandleSet
  <2>3. QED
    BY <2>2, FS_EmptySet DEF Init
<1>3. GuardsHeld
  BY RestingType, EntityMapAssumption DEF Init, GuardsHeld
<1>4. OperationsFit
  BY RestingType DEF Init, OperationsFit
<1>5. DroppedRecorded
  BY DEF Init, DroppedRecorded, InDropped
<1>6. QED
  BY <1>1, <1>2, <1>3, <1>4, <1>5 DEF MapInv

LEMMA Inductive == MapInv /\ [Next]_vars => MapInv'
<1>1. CASE Next
  BY <1>1, MapTypeStep, CountStep, GuardsStep, OperationsStep, DroppedStep DEF MapInv
<1>2. CASE UNCHANGED vars
  <2> USE <1>2 DEF vars
  <2>1. \A id \in Ids : Handles(id)' = Handles(id)
    BY DEF Handles, HandleSet, Holding, HeldBy, Dropping
  <2>2. MapInv => CountExact'
    BY <2>1 DEF MapInv, CountExact
  <2>3. MapInv => TypeOK' /\ GuardsHeld' /\ OperationsFit'
    BY DEF MapInv, TypeOK, GuardsHeld, OperationsFit
  <2>4. MapInv => DroppedRecorded'
    BY DEF MapInv, DroppedRecorded, InDropped
  <2>5. QED
    BY <2>2, <2>3, <2>4 DEF MapInv
<1>3. QED
  BY <1>1, <1>2

LEMMA Invariance == Spec => []MapInv
  BY Initially, Inductive, PTL DEF Spec

-----------------------------------------------------------------------------
(* The refinement.                                                           *)

\* A step that changes neither the count nor the slot map is not seen.
LEMMA Unseen ==
    ASSUME UNCHANGED <<count, present>> PROVE UNCHANGED <<count, EntityStatus>>
  BY DEF EntityStatus

\* One id changes its count: a handle more or less of a counted id.
LEMMA Counted ==
    ASSUME TypeOK, CountExact, NEW id \in Ids, UNCHANGED present, present[id] = "counted",
           count[id] > 0,
           \/ count' = [count EXCEPT ![id] = @ + 1]
           \/ count' = [count EXCEPT ![id] = @ - 1]
    PROVE  Refs!Next
<1>1. EntityStatus[id] = "live"
  BY DEF EntityStatus, TypeOK
<1>2. CASE count' = [count EXCEPT ![id] = @ + 1]
  <2>1. EntityStatus' = EntityStatus
    BY <1>2 DEF EntityStatus, TypeOK
  <2>2. Refs!Acquire(id)
    BY <1>1, <1>2, <2>1 DEF Refs!Acquire
  <2>3. QED
    BY <2>2 DEF Refs!Next
<1>3. CASE count' = [count EXCEPT ![id] = @ - 1]
  <2>1. EntityStatus' = [EntityStatus EXCEPT ![id] = IF count[id] = 1 THEN "dropped" ELSE @]
    <3>1. EntityStatus'[id] = IF count[id] = 1 THEN "dropped" ELSE "live"
      BY <1>3 DEF EntityStatus, TypeOK
    <3>2. \A i \in Ids \ {id} : EntityStatus'[i] = EntityStatus[i]
      BY <1>3 DEF EntityStatus, TypeOK
    <3>3. EntityStatus = [i \in Ids |-> EntityStatus[i]]
          /\ EntityStatus' = [i \in Ids |-> EntityStatus'[i]]
      BY DEF EntityStatus
    <3>4. QED
      BY <1>1, <3>1, <3>2, <3>3
  <2>2. Refs!Release(id)
    BY <1>1, <1>3, <2>1 DEF Refs!Release
  <2>3. QED
    BY <2>2 DEF Refs!Next
<1>4. QED
  BY <1>2, <1>3

LEMMA Simulation == MapInv /\ [Next]_vars => [Refs!Next]_<<count, EntityStatus>>
<1> SUFFICES ASSUME MapInv, [Next]_vars PROVE Refs!Next \/ UNCHANGED <<count, EntityStatus>>
  OBVIOUS
<1>a. TypeOK /\ CountExact /\ GuardsHeld /\ OperationsFit /\ DroppedRecorded
  BY DEF MapInv
<1>1. CASE UNCHANGED vars
  BY <1>1, Unseen DEF vars
<1>2. CASE TakeBegin \/ TakeClaim \/ \E id \in Ids : Insert(id)
  BY <1>2, Unseen DEF TakeBegin, TakeClaim, Insert
<1>3. CASE TakeDropped
  <2>1. \A id \in Ids : InDropped(id) <=> present[id] = "counted" /\ count[id] = 0
    BY <1>3, <1>a, EntityMapAssumption DEF TakeDropped, DroppedRecorded, GuardsHeld
  <2>2. \A id \in Ids : InDropped(id) <=> EntityStatus[id] = "dropped"
    BY <2>1, <1>a DEF EntityStatus, TypeOK
  <2>3. CASE \E id \in Ids : InDropped(id)
    <3>1. EntityStatus' = [id \in Ids |-> IF EntityStatus[id] = "dropped" THEN "collected"
                                          ELSE EntityStatus[id]]
      BY <1>3, <2>2 DEF TakeDropped, EntityStatus
    <3>2. Refs!Collect
      BY <1>3, <2>2, <2>3, <3>1 DEF Refs!Collect, TakeDropped
    <3>3. QED
      BY <3>2 DEF Refs!Next
  <2>4. CASE ~\E id \in Ids : InDropped(id)
    <3>1. present' = present
      BY <1>3, <2>4, <1>a DEF TakeDropped, TypeOK
    <3>2. QED
      BY <1>3, <3>1, Unseen DEF TakeDropped
  <2>5. QED
    BY <2>3, <2>4
<1>4. CASE \E id \in Ids : Reserve(id)
  <2> PICK id \in Ids : Reserve(id)
    BY <1>4
  <2>1. EntityStatus[id] = "unused"
    BY DEF Reserve, EntityStatus
  <2>2. EntityStatus' = [EntityStatus EXCEPT ![id] = "live"]
    <3>1. EntityStatus'[id] = "live"
      BY <1>a DEF Reserve, EntityStatus, TypeOK
    <3>2. \A i \in Ids \ {id} : EntityStatus'[i] = EntityStatus[i]
      BY <1>a DEF Reserve, EntityStatus, TypeOK
    <3>3. EntityStatus = [i \in Ids |-> EntityStatus[i]]
          /\ EntityStatus' = [i \in Ids |-> EntityStatus'[i]]
      BY DEF EntityStatus
    <3>4. QED
      BY <3>1, <3>2, <3>3
  <2>3. Refs!Create(id)
    BY <2>1, <2>2 DEF Refs!Create, Reserve
  <2>4. QED
    BY <2>3 DEF Refs!Next
<1>5. CASE \/ \E t \in Threads, id \in Ids :
                CloneBegin(t, id) \/ DropBegin(t, id) \/ UpgradeBegin(t, id)
           \/ \E t, u \in Threads, id \in Ids : SendHandle(t, u, id)
           \/ \E t \in Threads : DropPush(t)
  BY <1>5, Unseen DEF CloneBegin, DropBegin, UpgradeBegin, SendHandle, DropPush
<1>6. CASE \E t \in Threads : CloneEnd(t)
  <2> PICK t \in Threads : CloneEnd(t)
    BY <1>6
  <2>1. at[t].id \in Ids /\ HeldBy(t, at[t].id) > 0
    BY <1>a, StepFields DEF CloneEnd, TypeOK, OperationsFit, HeldBy, Dropping
  <2>2. count[at[t].id] > 0 /\ present[at[t].id] = "counted"
    BY <1>a, <2>1, HeldIsCounted
  <2>3. QED
    BY <1>a, <2>1, <2>2, Counted DEF CloneEnd
<1>7. CASE \E t \in Threads : DropCount(t)
  <2> PICK t \in Threads : DropCount(t)
    BY <1>7
  <2>1. at[t].id \in Ids /\ HeldBy(t, at[t].id) > 0
    BY <1>a, StepFields DEF DropCount, TypeOK, HeldBy, Dropping
  <2>2. count[at[t].id] > 0 /\ present[at[t].id] = "counted"
    BY <1>a, <2>1, HeldIsCounted
  <2>3. QED
    BY <1>a, <2>1, <2>2, Counted DEF DropCount
<1>8. CASE \E t \in Threads : UpgradeStep(t)
  <2> PICK t \in Threads : UpgradeStep(t)
    BY <1>8
  <2>1. at[t].id \in Ids /\ at[t].loaded \in Nat /\ present[at[t].id] = "counted"
    BY <1>a, StepFields DEF UpgradeStep, OperationsFit
  <2>2. CASE at[t].loaded # 0 /\ at[t].loaded = count[at[t].id]
    <3>1. count[at[t].id] > 0 /\ count' = [count EXCEPT ![at[t].id] = @ + 1]
          /\ UNCHANGED present
      BY <2>1, <2>2 DEF UpgradeStep
    <3>2. QED
      BY <1>a, <2>1, <3>1, Counted
  <2>3. CASE ~(at[t].loaded # 0 /\ at[t].loaded = count[at[t].id])
    BY <2>3, Unseen DEF UpgradeStep
  <2>4. QED
    BY <2>2, <2>3
<1>9. QED
  BY Cases, <1>1, <1>2, <1>3, <1>4, <1>5, <1>6, <1>7, <1>8

\* Every step of clone, drop, upgrade, reserve and take_dropped (entity_map.rs), taken one
\* lock or atomic operation at a time on any number of threads, is a step of EntityRefs or
\* is not seen by it: no count is revived, and what is collected is exactly what has lost
\* its last handle.
THEOREM MapImplementsRefs == Spec => ImplementsEntityRefs
<1>1. Init => Refs!Init
  BY DEF Init, Refs!Init, EntityStatus
<1>2. MapInv /\ [Next]_vars => [Refs!Next]_<<count, EntityStatus>>
  BY Simulation
<1>3. QED
  BY <1>1, <1>2, Invariance, PTL DEF Spec, ImplementsEntityRefs, Refs!Spec

\* The lock and the counts of entity_map.rs stay within their types: no count and no
\* thread's number of handles goes below zero.
THEOREM MapTypeCorrect == Spec => []TypeOK
<1>1. MapInv => TypeOK
  BY DEF MapInv
<1>2. QED
  BY <1>1, Invariance, PTL
-----------------------------------------------------------------------------
(* The form store.                                                           *)

Tickets == validations \cup queue

\* A generation belongs to one ticket, whether that is still queued, handed out, or
\* left over from a value the field no longer has.
GenerationsUnique ==
    /\ \A t \in Tickets : t.generation <= next_validation_generation
    /\ \A t, u \in Tickets : t.generation = u.generation => t = u

\* The ticket that a validating field waits for was given the value the field has.
ActiveTicketFits ==
    \A f \in validating : \E t \in Tickets :
        t.path = f /\ Applies(t) /\ t.about = value[f]

\* meta.validating and the active generation are set and cleared together, and only
\* on fields of the store.
FieldsConsistent ==
    /\ \A f \in Fields : f \in validating <=> active_validation_generation[f] # 0
    /\ validating \subseteq registered
    /\ invalid \subseteq registered

FormInv ==
    /\ FormTypeOK
    /\ GenerationsUnique
    /\ ActiveTicketFits
    /\ FieldsConsistent
    /\ ErrorsFitValue
    /\ SubmissionMatchesData
-----------------------------------------------------------------------------
LEMMA SaturatingType ==
    ASSUME NEW n \in Revisions PROVE SaturatingIncrement(n) \in Revisions
BY FormConstants DEF SaturatingIncrement, Revisions

LEMMA FormInitially == FormInit => FormInv
<1> SUFFICES ASSUME FormInit PROVE FormInv
    OBVIOUS
<1>1. (CHOOSE v \in Values : TRUE) \in Values
    BY FormConstants
<1>2. FormTypeOK
    <2>1. initial_value \in [Fields -> Values]
        BY <1>1 DEF FormInit
    <2>2. value \in [Fields -> Values] /\ judged \in [Fields -> Values]
        BY <2>1 DEF FormInit
    <2>3. 0 \in Revisions /\ 0 \in 0 .. MaxGeneration
        BY FormConstants DEF Revisions
    <2>4. marked \in BOOLEAN /\ errors \in BOOLEAN
        BY DEF FormInit
    <2> QED
        BY <2>1, <2>2, <2>3, <2>4 DEF FormInit, FormTypeOK, Phases
<1> QED
    BY <1>2 DEF FormInit, FormInv, GenerationsUnique, Tickets, ActiveTicketFits,
       FieldsConsistent, ErrorsFitValue, SubmissionMatchesData

LEMMA FormTypeStep == FormInv /\ FormNext => FormTypeOK'
<1> SUFFICES ASSUME FormInv, FormNext PROVE FormTypeOK'
    OBVIOUS
<1> USE FormConstants DEF FormInv, FormTypeOK, Phases
<1>0. SaturatingIncrement(form_revision) \in Revisions
    BY SaturatingType
<1>1. ASSUME NEW f \in Fields, NEW v \in Values, RegisterField(f, v) PROVE FormTypeOK'
    BY <1>0, <1>1 DEF RegisterField, AdvanceFormRevision, ticketVars
<1>2. ASSUME NEW f \in Fields, NEW v \in Values, SetValue(f, v) PROVE FormTypeOK'
    <2>1. value_revision' \in [Fields -> Revisions]
        <3>1. SaturatingIncrement(value_revision[f]) \in Revisions
            BY SaturatingType
        <3> QED
            BY <1>2, <3>1 DEF SetValue
    <2>2. errors' \in BOOLEAN
        BY <1>2 DEF SetValue, AdvanceFormRevision
    <2> QED
        BY <1>0, <1>2, <2>1, <2>2 DEF SetValue, AdvanceFormRevision, ticketVars
<1>3. ASSUME NEW f \in Fields, Mark(f) PROVE FormTypeOK'
    BY <1>3 DEF Mark, formVars, ticketVars
<1>4. ASSUME NEW f \in Fields, NEW bad \in BOOLEAN, ValidateField(f, bad) PROVE FormTypeOK'
    <2>1. phase' \in Phases /\ errors' \in BOOLEAN
        BY <1>4 DEF ValidateField, ClearTerminalSubmission
    <2>2. invalid' \subseteq Fields /\ validating' \subseteq Fields
        BY <1>4 DEF ValidateField, Verdict
    <2>3. judged' \in [Fields -> Values]
        BY <1>4 DEF ValidateField
    <2>4. active_validation_generation' \in [Fields -> 0 .. MaxGeneration]
        BY <1>4 DEF ValidateField, Verdict
    <2> QED
        BY <1>4, <2>1, <2>2, <2>3, <2>4 DEF ValidateField, ClearTerminalSubmission, ticketVars
<1>5. ASSUME NEW f \in Fields, NEW debounced \in BOOLEAN, BeginAsyncValidation(f, debounced)
      PROVE FormTypeOK'
    <2> DEFINE g == next_validation_generation + 1
               ticket == [path |-> f, value_revision |-> value_revision[f],
                          generation |-> g, about |-> value[f]]
    <2>1. g \in Generations
        BY <1>5 DEF BeginAsyncValidation, HasNextGeneration, Generations
    <2>2. ticket \in ValidationTickets
        BY <2>1 DEF ValidationTickets
    <2>3. queue' \subseteq ValidationTickets /\ validations' \subseteq ValidationTickets
        BY <1>5, <2>2 DEF BeginAsyncValidation
    <2>4. next_validation_generation' \in 0 .. MaxGeneration
        BY <1>5, <2>1 DEF BeginAsyncValidation, Generations
    <2>5. /\ active_validation_generation' \in [Fields -> 0 .. MaxGeneration]
          /\ validating' \subseteq Fields
        BY <1>5, <2>1 DEF BeginAsyncValidation, Generations
    <2> QED
        BY <1>5, <2>3, <2>4, <2>5 DEF BeginAsyncValidation, ClearTerminalSubmission
<1>6. ASSUME TakePending PROVE FormTypeOK'
    BY <1>6 DEF TakePending, fieldVars, formVars
<1>7. ASSUME NEW t \in validations, NEW bad \in BOOLEAN, CompleteAsyncValidation(t, bad)
      PROVE FormTypeOK'
    BY <1>7 DEF CompleteAsyncValidation, Verdict, formVars, ticketVars, ValidationTickets
<1>8. ASSUME BeginSubmit PROVE FormTypeOK'
    <2> DEFINE ticket == [form_revision |-> form_revision,
                          generation |-> next_submit_generation + 1]
    <2>1. next_submit_generation + 1 \in Generations
        BY <1>8 DEF BeginSubmit, HasNextGeneration, Generations
    <2>2. ticket \in SubmitTickets
        BY <2>1 DEF SubmitTickets
    <2>3. submits' \subseteq SubmitTickets /\ submission' \in SubmitTickets
        BY <1>8, <2>2 DEF BeginSubmit
    <2>4. submitted_data' \subseteq Fields \X Values
        BY <1>8 DEF BeginSubmit, Data
    <2>5. next_submit_generation' \in 0 .. MaxGeneration
        BY <1>8, <2>1 DEF BeginSubmit, Generations
    <2> QED
        BY <1>8, <2>3, <2>4, <2>5 DEF BeginSubmit, fieldVars
<1>9. ASSUME NEW t \in submits, NEW success \in BOOLEAN, FinishSubmit(t, success)
      PROVE FormTypeOK'
    BY <1>9 DEF FinishSubmit, fieldVars, ticketVars
<1>10. ASSUME Reset PROVE FormTypeOK'
    <2>1. value_revision' \in [Fields -> Revisions]
        <3>1. \A f \in Fields : SaturatingIncrement(value_revision[f]) \in Revisions
            BY SaturatingType
        <3> QED
            BY <1>10, <3>1 DEF Reset
    <2>2. errors' \in BOOLEAN /\ marked' \in BOOLEAN
        BY <1>10 DEF Reset, AdvanceFormRevision
    <2>3. active_validation_generation' \in [Fields -> 0 .. MaxGeneration]
        BY <1>10 DEF Reset
    <2> QED
        BY <1>0, <1>10, <2>1, <2>2, <2>3 DEF Reset, AdvanceFormRevision, ticketVars
<1> QED
    BY <1>1, <1>2, <1>3, <1>4, <1>5, <1>6, <1>7, <1>8, <1>9, <1>10 DEF FormNext

\* Beginning a validation takes a generation no ticket has.
LEMMA UniqueStep == FormInv /\ FormNext => GenerationsUnique'
<1> SUFFICES ASSUME FormInv, FormNext PROVE GenerationsUnique'
    OBVIOUS
<1>1. ASSUME NEW f \in Fields, NEW debounced \in BOOLEAN, BeginAsyncValidation(f, debounced)
      PROVE GenerationsUnique'
    <2> DEFINE ticket == [path |-> f, value_revision |-> value_revision[f],
                          generation |-> next_validation_generation + 1, about |-> value[f]]
    <2>1. \A t \in Tickets : t.generation \in Nat
        BY DEF Tickets, FormInv, FormTypeOK, ValidationTickets, Generations
    <2>2. \A t \in Tickets' : t \in Tickets \/ t = ticket
        BY <1>1 DEF BeginAsyncValidation, Tickets
    <2>3. /\ next_validation_generation \in Nat
          /\ next_validation_generation' = next_validation_generation + 1
        BY <1>1 DEF BeginAsyncValidation, FormInv, FormTypeOK
    <2> HIDE DEF ticket
    <2>4. ticket.generation = next_validation_generation + 1
        BY DEF ticket
    <2> QED
        BY <2>1, <2>2, <2>3, <2>4 DEF GenerationsUnique, FormInv
<1>2. ASSUME TakePending PROVE GenerationsUnique'
    <2>1. Tickets' = Tickets /\ next_validation_generation' = next_validation_generation
        BY <1>2 DEF TakePending, Tickets
    <2> QED
        BY <2>1 DEF FormInv, GenerationsUnique
<1>3. CASE UNCHANGED <<queue, validations, next_validation_generation>>
    BY <1>3 DEF FormInv, GenerationsUnique, Tickets
<1> QED
    BY <1>1, <1>2, <1>3 DEF FormNext, RegisterField, SetValue, Mark, ValidateField, ticketVars,
       CompleteAsyncValidation, BeginSubmit, FinishSubmit, Reset

\* A ticket that applies is the one its field waits for: its verdict is about the
\* value the field has.
LEMMA AppliedFits ==
    ASSUME FormInv, NEW t \in Tickets, Applies(t)
    PROVE  t.path \in validating /\ t.about = value[t.path]
<1>1. t.path \in Fields /\ t.generation # 0
    BY DEF Tickets, FormInv, FormTypeOK, ValidationTickets, Generations
<1>2. t.path \in validating
    BY <1>1 DEF Applies, FormInv, FieldsConsistent
<1>3. PICK u \in Tickets : u.path = t.path /\ Applies(u) /\ u.about = value[t.path]
    BY <1>2 DEF FormInv, ActiveTicketFits
<1>4. u = t
    BY <1>3 DEF Applies, FormInv, GenerationsUnique
<1> QED
    BY <1>2, <1>3, <1>4

LEMMA FitsStep == FormInv /\ FormNext => ActiveTicketFits' /\ FieldsConsistent'
<1> SUFFICES ASSUME FormInv, FormNext PROVE ActiveTicketFits' /\ FieldsConsistent'
    OBVIOUS
<1>1. ASSUME NEW f \in Fields, NEW v \in Values, RegisterField(f, v)
      PROVE ActiveTicketFits' /\ FieldsConsistent'
    BY <1>1 DEF RegisterField, ticketVars, FormInv, FormTypeOK, ActiveTicketFits,
       FieldsConsistent, Tickets, Applies
<1>2. ASSUME NEW f \in Fields, NEW v \in Values, SetValue(f, v)
      PROVE ActiveTicketFits' /\ FieldsConsistent'
    <2>1. FieldsConsistent'
        BY <1>2 DEF SetValue, FormInv, FormTypeOK, FieldsConsistent
    <2>2. ActiveTicketFits'
        BY <1>2 DEF SetValue, ticketVars, FormInv, FormTypeOK, ActiveTicketFits, Tickets,
           Applies
    <2> QED
        BY <2>1, <2>2
<1>3. ASSUME NEW f \in Fields, NEW bad, Verdict(f, bad), f \in registered,
             UNCHANGED <<registered, value, value_revision, ticketVars>>
      PROVE ActiveTicketFits' /\ FieldsConsistent'
    <2>1. FieldsConsistent'
        BY <1>3 DEF Verdict, FormInv, FormTypeOK, FieldsConsistent
    <2>2. ActiveTicketFits'
        BY <1>3 DEF Verdict, ticketVars, FormInv, FormTypeOK, ActiveTicketFits, Tickets, Applies
    <2> QED
        BY <2>1, <2>2
<1>4. ASSUME NEW f \in Fields, NEW debounced \in BOOLEAN, BeginAsyncValidation(f, debounced)
      PROVE ActiveTicketFits' /\ FieldsConsistent'
    <2> DEFINE g == next_validation_generation + 1
               ticket == [path |-> f, value_revision |-> value_revision[f],
                          generation |-> g, about |-> value[f]]
    <2>0. g # 0
        BY DEF FormInv, FormTypeOK
    <2>1. FieldsConsistent'
        BY <1>4, <2>0 DEF BeginAsyncValidation, FormInv, FormTypeOK, FieldsConsistent
    <2>2. ticket \in Tickets'
        BY <1>4 DEF BeginAsyncValidation, Tickets
    <2>3. ASSUME NEW e \in validating'
          PROVE \E t \in Tickets' : t.path = e /\ Applies(t)' /\ t.about = value'[e]
        <3>1. CASE e = f
            <4>1. active_validation_generation'[f] = g
                BY <1>4 DEF BeginAsyncValidation, FormInv, FormTypeOK
            <4>2. /\ ticket.path = f /\ ticket.generation = g
                  /\ ticket.value_revision = value_revision[f] /\ ticket.about = value[f]
                OBVIOUS
            <4>3. value' = value /\ value_revision' = value_revision
                BY <1>4 DEF BeginAsyncValidation
            <4> HIDE DEF ticket, g
            <4> QED
                BY <2>2, <3>1, <4>1, <4>2, <4>3 DEF Applies
        <3>2. CASE e # f
            <4>1. e \in validating
                BY <1>4, <3>2 DEF BeginAsyncValidation
            <4>2. PICK t \in Tickets : t.path = e /\ Applies(t) /\ t.about = value[e]
                BY <4>1 DEF FormInv, ActiveTicketFits
            <4>3. t \in Tickets'
                BY <1>4, <3>2, <4>2 DEF BeginAsyncValidation, Tickets
            <4>4. Applies(t)'
                BY <1>4, <3>2, <4>2 DEF BeginAsyncValidation, Applies, FormInv, FormTypeOK
            <4> QED
                BY <1>4, <4>2, <4>3, <4>4 DEF BeginAsyncValidation
        <3> QED
            BY <3>1, <3>2
    <2> QED
        BY <2>1, <2>3 DEF ActiveTicketFits
<1>5. ASSUME TakePending PROVE ActiveTicketFits' /\ FieldsConsistent'
    <2>1. Tickets' = Tickets
        BY <1>5 DEF TakePending, Tickets
    <2> QED
        BY <1>5, <2>1 DEF TakePending, fieldVars, FormInv, ActiveTicketFits, FieldsConsistent,
           Applies
<1>6. ASSUME NEW t \in validations, NEW bad \in BOOLEAN, CompleteAsyncValidation(t, bad)
      PROVE ActiveTicketFits' /\ FieldsConsistent'
    <2>1. t.path \in Fields /\ t.path \in registered
        BY <1>6, AppliedFits DEF CompleteAsyncValidation, Tickets, FormInv, FieldsConsistent,
           FormTypeOK
    <2> QED
        BY <1>3, <1>6, <2>1 DEF CompleteAsyncValidation
<1>7. ASSUME NEW f \in Fields, NEW bad \in BOOLEAN, ValidateField(f, bad)
      PROVE ActiveTicketFits' /\ FieldsConsistent'
    BY <1>3, <1>7 DEF ValidateField
<1>8. CASE Reset
    BY <1>8 DEF Reset, ActiveTicketFits, FieldsConsistent
<1>9. CASE UNCHANGED <<registered, value, value_revision, validating, invalid,
                       active_validation_generation, queue, validations>>
    BY <1>9 DEF FormInv, ActiveTicketFits, FieldsConsistent, Tickets, Applies
<1> QED
    BY <1>1, <1>2, <1>4, <1>5, <1>6, <1>7, <1>8, <1>9 DEF FormNext, Mark, BeginSubmit,
       FinishSubmit, fieldVars, ticketVars

LEMMA ErrorsStep == FormInv /\ FormNext => ErrorsFitValue'
<1> SUFFICES ASSUME FormInv, FormNext PROVE ErrorsFitValue'
    OBVIOUS
<1>1. ASSUME NEW f \in Fields, NEW v \in Values, RegisterField(f, v) \/ SetValue(f, v)
      PROVE ErrorsFitValue'
    BY <1>1 DEF RegisterField, SetValue, FormInv, FormTypeOK, FieldsConsistent, ErrorsFitValue
<1>2. ASSUME NEW f \in Fields, NEW bad \in BOOLEAN, ValidateField(f, bad)
      PROVE ErrorsFitValue'
    BY <1>2 DEF ValidateField, Verdict, FormInv, FormTypeOK, ErrorsFitValue
<1>3. ASSUME NEW t \in validations, NEW bad \in BOOLEAN, CompleteAsyncValidation(t, bad)
      PROVE ErrorsFitValue'
    <2>1. t.about = value[t.path] /\ t.path \in Fields
        BY <1>3, AppliedFits DEF CompleteAsyncValidation, Tickets, FormInv, FormTypeOK
    <2> QED
        BY <1>3, <2>1 DEF CompleteAsyncValidation, Verdict, FormInv, FormTypeOK, ErrorsFitValue
<1>4. CASE Reset
    BY <1>4 DEF Reset, ErrorsFitValue
<1>5. CASE UNCHANGED <<value, invalid, judged>>
    BY <1>5 DEF FormInv, ErrorsFitValue
<1> QED
    BY <1>1, <1>2, <1>3, <1>4, <1>5 DEF FormNext, Mark, BeginAsyncValidation, TakePending,
       BeginSubmit, FinishSubmit, fieldVars

\* No verdict arrives while a submission is in progress: nothing is validating.
LEMMA SubmissionStep == FormInv /\ FormNext => SubmissionMatchesData'
<1> SUFFICES ASSUME FormInv, FormNext PROVE SubmissionMatchesData'
    OBVIOUS
<1> USE DEF FormInv, SubmissionMatchesData, IsInvalid, IsValidating, Data
<1>1. CASE phase' \in {"idle", "failed"}
    BY <1>1
<1>2. ASSUME NEW f \in Fields, NEW bad \in BOOLEAN, ValidateField(f, bad)
      PROVE SubmissionMatchesData'
    BY <1>1, <1>2 DEF ValidateField, ClearTerminalSubmission, FormTypeOK, Phases
<1>3. ASSUME NEW f \in Fields, NEW d \in BOOLEAN, BeginAsyncValidation(f, d)
      PROVE SubmissionMatchesData'
    BY <1>1, <1>3 DEF BeginAsyncValidation, ClearTerminalSubmission, FormTypeOK, Phases
<1>4. ASSUME NEW t \in validations, NEW bad \in BOOLEAN, CompleteAsyncValidation(t, bad)
      PROVE SubmissionMatchesData'
    <2>1. phase # "submitting"
        BY <1>4, AppliedFits DEF CompleteAsyncValidation, Tickets
    <2> QED
        BY <1>4, <2>1 DEF CompleteAsyncValidation, formVars
<1>5. CASE BeginSubmit
    BY <1>5 DEF BeginSubmit, CanSubmit, fieldVars
<1>6. ASSUME NEW t \in submits, NEW success \in BOOLEAN, FinishSubmit(t, success)
      PROVE SubmissionMatchesData'
    BY <1>6 DEF FinishSubmit, fieldVars
<1>7. CASE UNCHANGED <<phase, submission, submits, submitted_data, registered, value,
                       invalid, validating>>
    BY <1>7
<1> QED
    BY <1>1, <1>2, <1>3, <1>4, <1>5, <1>6, <1>7 DEF FormNext, RegisterField, SetValue, Reset,
       AdvanceFormRevision, Mark, TakePending, fieldVars, formVars, ticketVars

LEMMA FormStep == FormInv /\ [FormNext]_storeVars => FormInv'
<1>1. FormInv /\ FormNext => FormInv'
    BY FormTypeStep, UniqueStep, FitsStep, ErrorsStep, SubmissionStep DEF FormInv
<1>2. FormInv /\ UNCHANGED storeVars => FormInv'
    BY DEF storeVars, fieldVars, formVars, ticketVars, FormInv, FormTypeOK, GenerationsUnique,
       ActiveTicketFits, FieldsConsistent, ErrorsFitValue, SubmissionMatchesData, Tickets,
       Applies, Data, IsInvalid, IsValidating
<1> QED
    BY <1>1, <1>2
-----------------------------------------------------------------------------
LEMMA FormInvariant == FormSpec => []FormInv
BY FormInitially, FormStep, PTL DEF FormSpec

\* No counter of the store leaves its range, however many edits, validations and
\* submissions there are: revisions saturate and generations stop being given out.
THEOREM FormTypeCorrect == FormSpec => []FormTypeOK
<1>1. FormInv => FormTypeOK
    BY DEF FormInv
<1> QED
    BY FormInvariant, <1>1, PTL

\* Whatever the order in which validations finish, twice or late or after the revision
\* has saturated, complete_validation leaves a field with the errors of its own value.
THEOREM ErrorsAlwaysFit == FormSpec => []ErrorsFitValue
<1>1. FormInv => ErrorsFitValue
    BY DEF FormInv
<1> QED
    BY FormInvariant, <1>1, PTL

\* A field that is validating always has a ticket whose completion would be applied:
\* neither an edit nor the debounce queue strands it.
THEOREM ValidationNeverStranded == FormSpec => []ValidationCanFinish
<1>1. FormInv => ValidationCanFinish
    BY DEF FormInv, ActiveTicketFits, ValidationCanFinish, Tickets
<1> QED
    BY FormInvariant, <1>1, PTL

\* A submission in progress or succeeded is about the data in the form, and while it
\* runs no field is invalid or validating: every change of the data ends it.
THEOREM SubmissionIsCurrent == FormSpec => []SubmissionMatchesData
<1>1. FormInv => SubmissionMatchesData
    BY DEF FormInv
<1> QED
    BY FormInvariant, <1>1, PTL
-----------------------------------------------------------------------------
(* The resource client.                                                      *)

\* A cached result is never newer than the newest attempt, every fetch is an attempt,
\* and a successful mutation has the result of its newest one.
ResultsBounded ==
    /\ \A k \in Keys : /\ data[k] <= fetch_generation[k]
                       /\ fetch_attempts[k] = fetch_generation[k]
    /\ \A m \in Mutations :
          /\ mutation[m].data <= mutation[m].generation
          /\ mutation[m].status = "success" => mutation[m].data = mutation[m].generation

ClientInv == ClientTypeOK /\ StatusAgrees /\ ResultsBounded

LEMMA ClientInitially == ClientInit => ClientInv
BY ResourceConstants DEF ClientInit, ClientInv, ClientTypeOK, StatusAgrees,
   ResultsBounded, Statuses, MutationEntries

\* Invalidation, which leaves the queries' results alone, keeps StatusAgrees.
LEMMA Invalidation ==
    ASSUME ClientInv, NEW ks, status' = Invalidated(ks),
           UNCHANGED <<entries, data, error, observers, next_observer_id,
                       fetch_generation, fetch_attempts>>
    PROVE  /\ status' \in [Keys -> Statuses]
           /\ StatusAgrees'
<1>1. \A k \in Keys : status'[k] \in {status[k], "refetching", "stale"}
    BY DEF Invalidated
<1>2. status' \in [Keys -> Statuses]
    BY <1>1 DEF Invalidated, Statuses, ClientInv, ClientTypeOK
<1>3. StatusAgrees'
    BY <1>1 DEF StatusAgrees, ClientInv
<1> QED
    BY <1>2, <1>3

LEMMA ClientStep ==
    ClientInv /\ [ClientNext]_clientVars => ClientInv'
<1> SUFFICES ASSUME ClientInv, [ClientNext]_clientVars
             PROVE  ClientInv'
    OBVIOUS
<1> USE ResourceConstants
<1>1. ASSUME NEW k \in Keys, EnsureQuery(k) PROVE ClientInv'
    BY <1>1 DEF EnsureQuery, ClientInv, ClientTypeOK, StatusAgrees,
       ResultsBounded
<1>2. ASSUME NEW k \in Keys, Subscribe(k) PROVE ClientInv'
    <2>1. ClientTypeOK'
        BY <1>2 DEF Subscribe, NewObserverId, ClientInv, ClientTypeOK
    <2> QED
        BY <1>2, <2>1 DEF Subscribe, ClientInv, StatusAgrees, ResultsBounded
<1>3. ASSUME NEW k \in Keys, NEW id \in 1 .. MaxObservers, Unsubscribe(k, id)
      PROVE ClientInv'
    BY <1>3 DEF Unsubscribe, ClientInv, ClientTypeOK, StatusAgrees,
       ResultsBounded
<1>4. ASSUME NEW k \in Keys, BeginFetch(k) PROVE ClientInv'
    <2>1. ClientTypeOK'
        BY <1>4 DEF BeginFetch, ClientInv, ClientTypeOK, ResultsBounded, Statuses
    <2>2. StatusAgrees'
        BY <1>4 DEF BeginFetch, ClientInv, ClientTypeOK, StatusAgrees
    <2>3. ResultsBounded'
        BY <1>4 DEF BeginFetch, ClientInv, ClientTypeOK, ResultsBounded
    <2> QED
        BY <2>1, <2>2, <2>3 DEF ClientInv
<1>5. ASSUME NEW k \in Keys, NEW g \in Attempts, CompleteFetchSuccess(k, g)
      PROVE ClientInv'
    <2>1. ClientTypeOK'
        BY <1>5 DEF CompleteFetchSuccess, ClientInv, ClientTypeOK, Statuses,
           Attempts
    <2>2. StatusAgrees'
        BY <1>5 DEF CompleteFetchSuccess, IsCurrent, ClientInv, ClientTypeOK,
           StatusAgrees
    <2>3. ResultsBounded'
        BY <1>5 DEF CompleteFetchSuccess, IsCurrent, ClientInv, ClientTypeOK,
           ResultsBounded
    <2> QED
        BY <2>1, <2>2, <2>3 DEF ClientInv
<1>6. ASSUME NEW k \in Keys, NEW g \in Attempts, CompleteFetchError(k, g)
      PROVE ClientInv'
    <2>1. ClientTypeOK'
        BY <1>6 DEF CompleteFetchError, StatusAfterError, ClientInv,
           ClientTypeOK, Statuses, Attempts
    <2>2. StatusAgrees'
        BY <1>6 DEF CompleteFetchError, StatusAfterError, IsCurrent,
           ClientInv, ClientTypeOK, StatusAgrees
    <2>3. ResultsBounded'
        BY <1>6 DEF CompleteFetchError, ClientInv, ClientTypeOK, ResultsBounded
    <2> QED
        BY <2>1, <2>2, <2>3 DEF ClientInv
<1>7. ASSUME NEW k \in Keys, Invalidate(k) PROVE ClientInv'
    <2>1. /\ status' \in [Keys -> Statuses]
          /\ StatusAgrees'
        BY <1>7, Invalidation DEF Invalidate
    <2>2. ClientTypeOK' /\ ResultsBounded'
        BY <1>7, <2>1 DEF Invalidate, ClientInv, ClientTypeOK, ResultsBounded
    <2> QED
        BY <2>1, <2>2 DEF ClientInv
<1>8. ASSUME NEW m \in Mutations, BeginMutation(m) PROVE ClientInv'
    <2>1. /\ mutation' \in [Mutations -> MutationEntries]
          /\ \A n \in Mutations :
                /\ mutation'[n].data <= mutation'[n].generation
                /\ mutation'[n].status = "success" =>
                      mutation'[n].data = mutation'[n].generation
        BY <1>8 DEF BeginMutation, ClientInv, ClientTypeOK, MutationEntries,
           ResultsBounded
    <2> QED
        BY <1>8, <2>1 DEF BeginMutation, queryVars, ClientInv, ClientTypeOK,
           StatusAgrees, ResultsBounded
<1>9. ASSUME NEW m \in Mutations, NEW g \in Attempts, NEW ks \in SUBSET Keys,
             CompleteMutationSuccess(m, g, ks)
      PROVE ClientInv'
    <2>1. /\ status' \in [Keys -> Statuses]
          /\ StatusAgrees'
        BY <1>9, Invalidation DEF CompleteMutationSuccess
    <2>2. /\ mutation' \in [Mutations -> MutationEntries]
          /\ \A n \in Mutations :
                /\ mutation'[n].data <= mutation'[n].generation
                /\ mutation'[n].status = "success" =>
                      mutation'[n].data = mutation'[n].generation
        BY <1>9 DEF CompleteMutationSuccess, IsCurrentMutation,
           Attempts, ClientInv, ClientTypeOK, MutationEntries, ResultsBounded
    <2>3. ClientTypeOK' /\ ResultsBounded'
        BY <1>9, <2>1, <2>2 DEF CompleteMutationSuccess, ClientInv, ClientTypeOK,
           ResultsBounded
    <2> QED
        BY <2>1, <2>3 DEF ClientInv
<1>10. ASSUME NEW m \in Mutations, NEW g \in Attempts, CompleteMutationError(m, g)
       PROVE ClientInv'
    <2>1. /\ mutation' \in [Mutations -> MutationEntries]
          /\ \A n \in Mutations :
                /\ mutation'[n].data <= mutation'[n].generation
                /\ mutation'[n].status = "success" =>
                      mutation'[n].data = mutation'[n].generation
        BY <1>10 DEF CompleteMutationError, Attempts, ClientInv, ClientTypeOK,
           MutationEntries, ResultsBounded
    <2> QED
        BY <1>10, <2>1 DEF CompleteMutationError, queryVars, ClientInv,
           ClientTypeOK, StatusAgrees, ResultsBounded
<1>11. CASE UNCHANGED clientVars
    BY <1>11 DEF clientVars, queryVars, ClientInv, ClientTypeOK,
       StatusAgrees, ResultsBounded
<1> QED
    BY <1>1, <1>2, <1>3, <1>4, <1>5, <1>6, <1>7, <1>8, <1>9, <1>10, <1>11 DEF ClientNext

\* Every entry of the client is well typed: generations never run past those begun.
THEOREM ClientTypeCorrect ==
    ClientSpec => []ClientTypeOK
<1>1. ClientInv => ClientTypeOK
    BY DEF ClientInv
<1> QED
    BY ClientInitially, ClientStep, <1>1, PTL DEF ClientSpec

\* In whatever order fetches complete, fail and are invalidated, the status of a
\* query agrees with its data, its error and its newest generation.
THEOREM StatusAlwaysAgrees ==
    ClientSpec => []StatusAgrees
<1>1. ClientInv => StatusAgrees
    BY DEF ClientInv
<1> QED
    BY ClientInitially, ClientStep, <1>1, PTL DEF ClientSpec

\* A completion that comes late, twice or after a newer attempt never replaces the
\* result of a later attempt of a query or a mutation by an earlier one.
THEOREM NeverBackward ==
    ClientSpec => ResultsNeverGoBack
<1> DEFINE Forward ==
        /\ \A k \in Keys : data[k] <= data'[k]
        /\ \A m \in Mutations : mutation[m].data <= mutation'[m].data
        /\ \A m \in Mutations : mutation'[m].status = "success" =>
              mutation'[m].data = mutation'[m].generation
<1>1. ClientInv /\ ClientInv' /\ [ClientNext]_clientVars => [Forward]_clientVars
    <2> SUFFICES ASSUME ClientInv, ClientInv', ClientNext PROVE Forward
        OBVIOUS
    <2> USE ResourceConstants
    <2>1. \A m \in Mutations : mutation'[m].status = "success" =>
              mutation'[m].data = mutation'[m].generation
        BY DEF ClientInv, ResultsBounded
    <2>2. \A k \in Keys : data[k] <= data'[k]
        <3>1. ASSUME NEW k \in Keys, NEW g \in Attempts, CompleteFetchSuccess(k, g)
              PROVE \A j \in Keys : data[j] <= data'[j]
            BY <3>1 DEF CompleteFetchSuccess, IsCurrent, ClientInv, ClientTypeOK,
               ResultsBounded
        <3>2. data' = data \/ \E k \in Keys, g \in Attempts : CompleteFetchSuccess(k, g)
            BY DEF ClientNext, EnsureQuery, Subscribe, Unsubscribe,
               BeginFetch, CompleteFetchError, Invalidate,
               BeginMutation, CompleteMutationSuccess,
               CompleteMutationError, queryVars
        <3>3. \A k \in Keys : data[k] <= data[k]
            BY DEF ClientInv, ClientTypeOK
        <3> QED
            BY <3>1, <3>2, <3>3
    <2>3. \A m \in Mutations : mutation[m].data <= mutation'[m].data
        <3>1. ASSUME NEW m \in Mutations, NEW g \in Attempts, NEW ks \in SUBSET Keys,
                     CompleteMutationSuccess(m, g, ks)
              PROVE \A n \in Mutations : mutation[n].data <= mutation'[n].data
            BY <3>1 DEF CompleteMutationSuccess, IsCurrentMutation, ClientInv,
               ClientTypeOK, MutationEntries, ResultsBounded
        <3>2. ASSUME NEW m \in Mutations, BeginMutation(m)
              PROVE \A n \in Mutations : mutation[n].data <= mutation'[n].data
            BY <3>2 DEF BeginMutation, ClientInv, ClientTypeOK, MutationEntries
        <3>3. ASSUME NEW m \in Mutations, NEW g \in Attempts, CompleteMutationError(m, g)
              PROVE \A n \in Mutations : mutation[n].data <= mutation'[n].data
            BY <3>3 DEF CompleteMutationError, ClientInv, ClientTypeOK,
               MutationEntries
        <3>4. \A n \in Mutations : mutation[n].data <= mutation[n].data
            BY DEF ClientInv, ClientTypeOK, MutationEntries
        <3>5. \/ mutation' = mutation
              \/ \E m \in Mutations : BeginMutation(m)
              \/ \E m \in Mutations, g \in Attempts, ks \in SUBSET Keys :
                    CompleteMutationSuccess(m, g, ks)
              \/ \E m \in Mutations, g \in Attempts : CompleteMutationError(m, g)
            BY DEF ClientNext, EnsureQuery, Subscribe, Unsubscribe,
               BeginFetch, CompleteFetchError, CompleteFetchSuccess,
               Invalidate
        <3> QED
            BY <3>1, <3>2, <3>3, <3>4, <3>5
    <2> QED
        BY <2>1, <2>2, <2>3
<1> QED
    BY ClientInitially, ClientStep, <1>1, PTL DEF ClientSpec, ResultsNeverGoBack
===============================================================================

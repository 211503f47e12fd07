----------------------------- MODULE PriorityQueue -----------------------------
(***************************************************************************)
(* crates/gpui/src/queue.rs: the queue between the threads that dispatch   *)
(* runnables and the worker threads that run them.  One mutex guards three *)
(* FIFOs; workers sleep on a condition variable; the numbers of senders    *)
(* and receivers are atomics outside the mutex.  A critical section is one *)
(* step unless it waits.                                                   *)
(***************************************************************************)
EXTENDS Naturals, FiniteSets, Sequences

CONSTANTS
    Receivers,   \* receiver handles, each owned by one thread
    Callers,     \* threads that share the one sender by reference
    MaxItems     \* bound on the items sent

Priorities == {"high", "medium", "low"}
Items == 1 .. MaxItems

\* Priority::weight.
Weight(p) == CASE p = "high" -> 60 [] p = "medium" -> 30 [] OTHER -> 10

VARIABLES
    queues,         \* the three FIFOs
    sender_count, receiver_count,
    receiver,       \* unborn, idle, asleep, woken, done (RecvError) or dropped
    caller,         \* the item a thread has checked the receivers for, 0 for none
    next_item,      \* items handed to send so far
    accepted,       \* history: the items send accepted, in order, per priority
    popped,         \* history: the items popped, in order, per priority
    refused,        \* history: items given back by SendError
    unwrapped_none  \* history: a blocking pop met Ok(None), which it unwraps

queueVars == <<queues, sender_count, receiver_count, receiver, caller, next_item,
               accepted, popped, refused, unwrapped_none>>

In(s) == {s[i] : i \in 1 .. Len(s)}
IsEmpty == \A p \in Priorities : queues[p] = <<>>
With(state) == {r \in Receivers : receiver[r] = state}
-----------------------------------------------------------------------------
\* PriorityQueueReceiver::new, whose receiver is then cloned for each worker.
Init ==
    /\ queues = [p \in Priorities |-> <<>>]
    /\ sender_count = 1 /\ receiver_count = 1
    /\ \E first \in Receivers :
          receiver = [r \in Receivers |-> IF r = first THEN "idle" ELSE "unborn"]
    /\ caller = [c \in Callers |-> 0]
    /\ next_item = 0
    /\ accepted = [p \in Priorities |-> <<>>]
    /\ popped = [p \in Priorities |-> <<>>]
    /\ refused = {}
    /\ unwrapped_none = FALSE

\* send looks at the receiver count before it takes the lock.
SendCheck(c) ==
    /\ sender_count = 1
    /\ caller[c] = 0
    /\ next_item < MaxItems
    /\ next_item' = next_item + 1
    /\ IF receiver_count = 0
       THEN refused' = refused \cup {next_item + 1} /\ caller' = caller
       ELSE caller' = [caller EXCEPT ![c] = next_item + 1] /\ refused' = refused
    /\ UNCHANGED <<queues, sender_count, receiver_count, receiver, accepted, popped,
                   unwrapped_none>>

\* Mutant: no notify_one.
NotifiedNone == {receiver}

\* notify_one wakes one sleeping thread, if there is one.
Notified ==
    IF With("asleep") = {} THEN {receiver}
    ELSE {[receiver EXCEPT ![r] = "woken"] : r \in With("asleep")}

\* PriorityQueueState::push.
Push(queue, item) == Append(queue, item)

\* Mutant: only the first item of an empty queue wakes a worker.
SendPushNotifiesFirst(c, p) ==
    /\ caller[c] # 0
    /\ queues' = [queues EXCEPT ![p] = Push(@, caller[c])]
    /\ receiver' \in IF IsEmpty THEN Notified ELSE {receiver}
    /\ accepted' = [accepted EXCEPT ![p] = Append(@, caller[c])]
    /\ caller' = [caller EXCEPT ![c] = 0]
    /\ UNCHANGED <<sender_count, receiver_count, next_item, popped, refused,
                   unwrapped_none>>

\* The critical section of send: push and notify_one.
SendPush(c, p) ==
    /\ caller[c] # 0
    /\ queues' = [queues EXCEPT ![p] = Push(@, caller[c])]
    /\ receiver' \in Notified
    /\ accepted' = [accepted EXCEPT ![p] = Append(@, caller[c])]
    /\ caller' = [caller EXCEPT ![c] = 0]
    /\ UNCHANGED <<sender_count, receiver_count, next_item, popped, refused,
                   unwrapped_none>>

\* Dropping the sender, which no thread is using any more.
DropSender ==
    /\ sender_count = 1
    /\ \A c \in Callers : caller[c] = 0
    /\ sender_count' = 0
    /\ UNCHANGED <<queues, receiver_count, receiver, caller, next_item, accepted, popped,
                   refused, unwrapped_none>>

NonEmpty == {p \in Priorities : queues[p] # <<>>}
Above(p) == CASE p = "high" -> {} [] p = "medium" -> {"high"} [] OTHER -> {"high", "medium"}
Mass(ps) == (IF "high" \in ps THEN Weight("high") ELSE 0)
                + (IF "medium" \in ps THEN Weight("medium") ELSE 0)
                + (IF "low" \in ps THEN Weight("low") ELSE 0)

\* Mutant: the weight of a level passed over stays in the mass.
CoinFailsFullMass(p) == Weight(p) < Mass(NonEmpty)

\* random_ratio(weight, mass) may say no only if the weight is less than the mass
\* that is left once the levels above were passed over.
CoinFails(p) == Weight(p) < Mass(NonEmpty \ Above(p))

\* What the loaded die may return: a level, or none when every coin can fail.
Winners == {p \in NonEmpty : \A q \in NonEmpty \cap Above(p) : CoinFails(q)}
NoWinner == \A p \in NonEmpty : CoinFails(p)

\* The rest of pop_inner, with the lock held and the queue not empty.
Take(r) ==
    /\ receiver' = [receiver EXCEPT ![r] = "idle"]
    /\ \/ \E p \in Winners :
             /\ queues' = [queues EXCEPT ![p] = Tail(@)]
             /\ popped' = [popped EXCEPT ![p] = Append(@, Head(queues[p]))]
             /\ UNCHANGED unwrapped_none
       \/ /\ NoWinner
          /\ unwrapped_none' = TRUE
          /\ UNCHANGED <<queues, popped>>
    /\ UNCHANGED <<sender_count, receiver_count, caller, next_item, accepted, refused>>

\* Where a receiver goes without an item.
Becomes(r, state) ==
    /\ receiver' = [receiver EXCEPT ![r] = state]
    /\ UNCHANGED <<queues, sender_count, receiver_count, caller, next_item, accepted,
                   popped, refused, unwrapped_none>>

\* pop: the sender count is looked at once, before the first wait.
PopTake(r) == receiver[r] = "idle" /\ ~IsEmpty /\ Take(r)
PopSleep(r) == receiver[r] = "idle" /\ IsEmpty /\ sender_count # 0 /\ Becomes(r, "asleep")
PopError(r) == receiver[r] = "idle" /\ IsEmpty /\ sender_count = 0 /\ Becomes(r, "done")

\* The wait loop, once the woken thread has the lock again.
WakeTake(r) == receiver[r] = "woken" /\ ~IsEmpty /\ Take(r)
WakeSleep(r) == receiver[r] = "woken" /\ IsEmpty /\ Becomes(r, "asleep")

CloneReceiver(r, other) ==
    /\ receiver[r] = "idle" /\ receiver[other] = "unborn"
    /\ receiver_count' = receiver_count + 1
    /\ receiver' = [receiver EXCEPT ![other] = "idle"]
    /\ UNCHANGED <<queues, sender_count, caller, next_item, accepted, popped, refused,
                   unwrapped_none>>

DropReceiver(r) ==
    /\ receiver[r] \in {"idle", "done"}
    /\ receiver_count' = receiver_count - 1
    /\ receiver' = [receiver EXCEPT ![r] = "dropped"]
    /\ UNCHANGED <<queues, sender_count, caller, next_item, accepted, popped, refused,
                   unwrapped_none>>

Pop(r) == PopTake(r) \/ PopSleep(r) \/ PopError(r) \/ WakeTake(r) \/ WakeSleep(r)

Next ==
    \/ \E c \in Callers : SendCheck(c)
    \/ \E c \in Callers, p \in Priorities : SendPush(c, p)
    \/ DropSender
    \/ \E r \in Receivers : Pop(r) \/ DropReceiver(r)
    \/ \E r, other \in Receivers : CloneReceiver(r, other)

Spec == Init /\ [][Next]_queueVars
-----------------------------------------------------------------------------
TypeOK ==
    /\ queues \in [Priorities -> Seq(Items)]
    /\ sender_count \in 0 .. 1
    /\ receiver_count = Cardinality(Receivers \ (With("unborn") \cup With("dropped")))
    /\ receiver \in [Receivers -> {"unborn", "idle", "asleep", "woken", "done", "dropped"}]
    /\ caller \in [Callers -> 0 .. MaxItems]
    /\ next_item \in 0 .. MaxItems
    /\ accepted \in [Priorities -> Seq(Items)]
    /\ popped \in [Priorities -> Seq(Items)]
    /\ refused \subseteq Items
    /\ unwrapped_none \in BOOLEAN

Stored == Len(queues["high"]) + Len(queues["medium"]) + Len(queues["low"])

\* No wake-up is lost: while some worker sleeps, every stored item has a worker on
\* its way to it, however the woken workers race with busy ones for the lock
\* (send, queue.rs:43-46, and the wait loop at 88).
NoLostWakeup == With("asleep") # {} => Stored <= Cardinality(With("woken"))

\* A blocking pop always has an item to unwrap: the loaded die stops at some level
\* whenever the queue is not empty (pop_inner, queue.rs:318-345, pop's unwrap at 284).
PopAlwaysYields == ~unwrapped_none
===============================================================================

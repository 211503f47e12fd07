# Formal verification of open-gpui

TLA+ models of the concurrent and re-entrant core of open-gpui, TLC
configurations that check them on small instances, and TLAPS proofs of most of
their invariants for every instance. `PROJECT.json` maps every definition to the
source lines it stands for, and lists the components, the runs, the hazards and
the theorems. Line numbers below refer to the repository's source.

Run from this directory: `tlc -workers 2 -config MCEntityMap.cfg MCEntityMap`,
`tlapm SubscriberSetProofs.tla`.

## 1. The system

open-gpui is a Rust workspace: a UI framework (`crates/gpui`, a fork of Zed's
GPUI), its platform backends, and libraries built on it (forms, resources,
docking, canvas, motion, commands, UI components, devtools).

| Component | State | Operations | Interacts with |
|---|---|---|---|
| Subscriber registry, `gpui/src/subscription.rs` | map from emitter key to subscribers, a key's list being out of the map while it is iterated; `active` and `dropped` cells | `insert`, activate, `retain`, `remove`, `Subscription` drop, `detach`, `join` | every observer list of `App` and `Window` |
| Update transaction and effect cycle, `gpui/src/app.rs` | nesting counters, effect queue, sets of pending notifications, globals | `update`, `update_entity`, `as_mut`, `new`, `notify`, `emit`, `observe*`, `subscribe`, `defer`, `set_global`, `flush_effects` | subscriber registry, entity map, user code |
| Entity map, `gpui/src/app/entity_map.rs` | reference counts under an `RwLock`, dropped list, stored values | `reserve`, `insert`, `lease`, `end_lease`, clone, drop, `upgrade`, `take_dropped` | all threads; the flush collects |
| Window mutations, `gpui/src/window_platform_mutation.rs`, `window.rs` | per domain: last and committed generation, pending ticket; facts; interaction authority | request, observe a snapshot, settle, subscribe, close, quiesce | platform backend, through native events |
| Priority queue, `gpui/src/queue.rs` | three FIFOs under a mutex and a condition variable, counts of senders and receivers | `send`, `pop`, `try_pop`, clone, drop | dispatchers |
| Linux dispatcher, `gpui_linux/src/linux/dispatcher.rs` | worker threads over a priority queue; the main queue, a priority queue with a ping eventfd | `dispatch`, `dispatch_on_main_thread`, `process_events`, sender drop | calloop event loop, executors |
| Native event ingress, `gpui/src/app/native_event_ingress.rs`, `cell.rs` | sequence authority, staged and pending work, phase and budget of the drain, scheduled wakes and recoveries | enqueue, stage and import, drain, input barrier, converge after a borrow, shut down | all native callbacks, accessibility threads, the App borrow |
| Window activation, `gpui/src/app/native_window_activation.rs` | generations, records, tickets, queued deliveries | request, dispatch, observe focus, read back, cancel, policy change, quiesce, close | ingress, platform, window mutations |
| Window retirement and pointer capture, `gpui/src/app/cell.rs` | release barriers, retries, continuations; retirement barriers and their dependencies | reserve, settle, retry, abandon, complete; register, enqueue, retire, settle the native terminal | ingress, platform windows, drags |
| Shutdown fence, `gpui/src/app/cell.rs`, `app.rs` | the fence, its generation, critical callbacks of three phases, retry epoch | begin, join, advance through the stages, park, retry, finish | registry, retirement, ingress, effect flush, code of the application |
| Window registry, `gpui/src/app/window_registry.rs` | slots, open epoch and barrier | reserve, commit, check out, remove, take all | shutdown fence, retirement |
| Form store, `crates/form` | fields, revisions, generations, submission, debounce queue | register, edit, reset, validate (sync, async, debounced), submit | application, through tickets |
| Resource client, `crates/resource` | query entries, observers, mutation entries | begin and complete a fetch or mutation, invalidate, observe | application, through tickets |
| Scheduler, frame invalidation, focus and input | see section 8 | | |
| Docking, canvas, commands, sum_tree, motion, UI components, devtools, backends, tooling | see section 8 | | |

What is hard in this code, and what each part owes:

* **Re-entrancy.** Observers run inside the iteration over observers and inside
  the flush that runs effects. A list that is out of its map, an effect that is
  queued twice or not at all, a counter that is not restored are the ways this goes
  wrong. Owed: no subscriber is lost or doubled; an observer that was active
  when a notification was made hears of it, and one that was not does not.
* **Panics.** Every level catches the panic of a callback, finishes or aborts its
  own work and resumes it. Owed: counters, leases and taken lists are restored
  on every path.
* **Threads.** Handles of entities are dropped anywhere while the main thread
  collects; workers sleep on a condition variable that senders signal. Owed: no
  use of a collected entity, nothing collected while referenced, no lost wakeup.
* **Late answers.** Window mutations, validations, submissions, fetches are
  begun with a ticket and answered after the state has moved on. Owed: an answer
  changes only what it is about, settles once, and what is begun can end.
* **A main thread that re-enters itself.** A platform call may pump native callbacks,
  a callback may hold the App or a lease, the end of a borrow starts a convergence that
  drains the queue, and a drain may be inside any of them. Owed: events are handled in
  the order they were sequenced, no accepted work is left without somebody who will drain
  it, and an item in hand survives a panic and a borrowed App.
* **Retirement and shutdown.** The application may only go when the platform has let go of
  every window and pointer, in the order of their dependencies, with retries, timers and
  terminals that come early, late or twice, and with code of the application running
  between the checks. Owed: nothing is forgotten, nothing waits in a circle, the fence
  goes only when nothing is left, and it does go.
* **Counters at their limit.** Revisions saturate, generations run out. Owed: the
  refusal leaves the state as it was.

## 2. Modules

| Module | Models | Used by |
|---|---|---|
| `SubscriberSet` | subscription.rs | instantiated by `EffectCycle` |
| `EffectCycle` | app.rs transactions and flush, lease and release of entities | |
| `EntityMap` | entity_map.rs counts, at the level of lock and atomic steps | implements `EntityRefs` |
| `EntityRefs` | abstract: each handle operation atomic | |
| `WindowMutation` | window mutations, tickets, settlement, closing, quiescence | |
| `PriorityQueue` | queue.rs | instantiated by `LinuxDispatcher` |
| `CalloopQueue` | the Linux main-thread queue | extended by `LinuxDispatcher` |
| `LinuxDispatcher` | worker threads, both queues and the event loop, composed | |
| `NativeIngress` | the queue of native work, drains, input barriers, convergence, recovery | |
| `WindowActivation` | activation requests and tickets over that queue | |
| `WindowRetirement` | release and retirement barriers over that queue | |
| `ShutdownFence` | the shutdown of the application, which waits for those barriers | |
| `FormStore` | crates/form | |
| `ResourceClient` | crates/resource | |
| `Retain` | what `Vec::retain`, and a loop that keeps part of a queue, do to a sequence | used by `WindowRetirement` and `NativeIngress` |
| `SubscriberSetProofs`, `EffectCycleProofs`, `WindowMutationProofs`, `ShutdownFenceProofs`, `WindowRetirementProofs`, `WindowActivationProofs` | theorems about the module of that name | |
| `StoreProofs` | theorems about `EntityMap`, `FormStore` and `ResourceClient`, which do not interact | extends all three |
| `QueueProofs` | theorems about `LinuxDispatcher` and `NativeIngress`, the two layers through which work reaches the main thread | extends both |
| `MC*` | instances for TLC | |

Names follow the source: a variable has the name of the field, an action the
name of the function or of the part of it that runs between two points where
other code can run. Definitions right before an action or operator, introduced by
"Mutant:", are wrong variants of it; nothing uses them except the entries of
`PROJECT.json` that show each property can fail.

**SubscriberSet.** A slot of the map is absent, `Some(ids)` or `None`, the last
while `retain` has the list. `calls` is the stack of `retain` and `remove`
calls; inside a callback, and outside any call, all operations are available,
so callbacks may insert, unsubscribe, join and start nested calls, to `MaxNesting`.
`retain` takes the list, visits one subscriber at a time, calls it (the callback
returns or panics), sweeps what was dropped since its visit, one subscriber at a
time, and puts the rest back merged with what was inserted meanwhile.
A panic is caught, the rest of the list is put back, and it is resumed. A callback that
`retain` discards, on its visit or in the sweep, is destroyed at once, and its destructor may
drop the `Subscription`s that the callback owned: `discarding` says that this can happen
now, `passed` which subscribers the sweep has behind it. A callback that `remove` gives
up is destroyed likewise, which is the same as what its caller may do next and has no action.
`finished` and `late` (dropped behind the sweep) are history.

**EffectCycle.** `transactions` is the stack of `AppUpdateTransaction` values;
`phase` is the program counter of `flush_effects`. Outer and nested updates,
leases, `as_mut` borrows and entity construction open a transaction; its return or
panic closes it, with the counters restored as `Drop` does. The flush takes the
dropped entities, runs the release steps in the order of `release_dropped_entities`,
pops one effect, applies it with the subscriber set, and loops. User code is
nondeterministic: at each point where it runs it may make any call its workload
allows, return or panic. Besides, whatever the flush destroys (a discarded callback, the
observers and listeners of a released entity, the entity) may drop subscriptions and handles
(`Destroying`). `owed` and `age` are history, saying which observers a
notification is due to, and which subscribers existed when the effect was made.
The module writes the observer lists as one `SubscriberSet` keyed by list and
emitter, because `App` keeps one set per list and no operation spans two.

**EntityMap.** One step per acquisition, atomic operation and release: an increment
under a read guard, a decrement followed by the push to the dropped list under
a guard upgraded from an upgradable one, the compare-and-exchange loop of
`upgrade`, `take_dropped` under the write lock. parking_lot's rule that a waiting
writer keeps new readers out is in `Claimed`. `SendHandle` passes a handle to
another thread. Ids are not reused, as a slot map versions its keys.

**WindowMutation.** A fact is a Boolean per domain, since the code only compares
facts with requests. The backend is external: it accepts or refuses at once, answers
later with any terminal outcome through a FIFO of native events, changes the window
by itself, closes it. `frames` is the stack of deliveries: the observers taken out of a
ticket, the bounds observers run first, then the callbacks one by one, each free to
make requests, subscribe, cancel, close the window or panic.

**PriorityQueue.** A critical section is one step unless it waits. `send` reads
the receiver count before it takes the lock, as the code does, so the two are
separate steps. The loaded die is a choice among the priorities with items: the random
flips can come out in favour of each one of them; that they cannot all fail is
`PopAlwaysYields`, which is about the ratios the code builds.

**CalloopQueue.** Push and ping are two steps; `process_events` is a loop of pops
with the runnable run in between, then the ping source is put to rest or the source
is removed. The eventfd is external.

**LinuxDispatcher.** `new` clones the receiver for each worker and drops its own. A worker
pops, runs, and may inside a task dispatch more tasks, wake the task's continuation on
the main thread, or panic, which ends the thread and drops its receiver. The
main loop hands the runnables of `process_events` to idle callbacks, which run before it
polls again. The senders are dropped when nothing references the dispatcher any more,
since every runnable does.

**NativeIngress.** `stack` is the call stack of the main thread: borrows, leases, inputs,
drains, commands, convergences with their stages. Wherever code of the application or
the platform runs, native callbacks and foreground tasks may be pumped, to `MaxDepth`.
`unwinding` is a panic on its way down the stack, through the guards each frame has, to
where the code catches it. The accessibility thread reserves a sequence number and
stages, then signals, in two steps. `settled` is the disposition recorded for each
sequence number; `handled` is history.

**WindowActivation.** The queue is `NativeIngress` reduced to a sequence that some drain
pops. `at` is what the main thread is doing, `command` the generation whose command the
backend runs; while it runs one, focus may move, inputs arrive with their barrier, and
tickets may be cancelled or observed. `gained` is history: the windows that had the
native focus since a request.

**WindowRetirement.** Barriers are records in a function over tokens and windows; their
commands, completions and the `Closed` events share one FIFO. A release is dispatched,
accepted, rejected and retried by timer or by an event of its window, abandoned, or ended
by the terminal of its window; the continuations of a captured drag are taken and called
one by one and may attach more. Dependencies are checked for cycles at registration.

**ShutdownFence.** `stage` is the program counter of `advance_shutdown_completion`, `parked`
when none is running; each stage is one action, and in the stages where the code
calls out (critical callbacks, the effect flushes) all operations of the application are
enabled: opening and removing windows, reserving releases, scheduling callbacks,
beginning or joining a shutdown. What holds the fence back is what the code counts: releases, retiring
windows, queued `Closed` events, callbacks, a borrowed App. `DebugAssertions` says which
build it is, because one assignment is made inside a `debug_assert!` (section 6).

**FormStore.** Values are compared only. Tickets handed out are kept in a set and
may be presented at any time and repeatedly. Revisions saturate at `MaxRevision`,
and generations give up at `MaxGeneration`, both `u64::MAX` in the code.

**ResourceClient.** A result is the generation that made it. Any ticket ever handed
out may be completed at any time.

## 3. Runs

| Run | Instance | Shows |
|---|---|---|
| `subscriber_set` | 2 keys (symmetric), 3 subscribers, nesting 2 | no subscriber is lost; a dropped one is stored only if it was dropped behind the sweep; a key is silenced only while a `retain` of it runs |
| `effect_cycle` | 2 entities, one of them to be created, 1 global, 2 subscribers, 2 outermost updates; five workloads (below) | counters, leases, pending marks and reference counts survive every unwinding; every due notification arrives, none arrives that was made before the subscription; a released entity has no subscribers; every update ends |
| `entity_map` | main and 2 threads, 1 id, 4 handles | the last drop is collected, and `EntityRefs` is implemented |
| `window_mutation` | 1 gated domain, 2 generations, 2 observers, 2 queued answers | the unsettled tickets are exactly the pending ones; success only from the ticket's own answer; quiescence is for good; an answered ticket calls its observers |
| `linux_dispatcher` | 2 workers and the main thread, 3 tasks of 2 priorities, 2 panics | no lost wakeup; pop yields; a queued runnable always has a ping coming; an accepted task runs and continues on the main thread |
| `form_store` | 2 fields (symmetric), 2 values, revisions to 1, generations to 2 | verdicts fit values, a pending validation can end, a successful submission is about the current data |
| `resource_client` | 1 query, 3 generations, 3 observers, 1 mutation | status agrees with data and error; results never go back |
| `window_activation` | 2 windows, 2 requests, 1 observer, 1 focus change, 1 policy commit, 1 panic, 3 calls | a verdict has its evidence; a pending request has an owner; observers are called when, and only when, they should |
| `native_ingress` | 4 kinds of work, 3 sequence numbers, budget 1, 1 panic, 1 borrow, stack of 5 | handlers run in sequence order; every envelope is in one place or settled; idle means that queued work has a task coming; every envelope settles |
| `window_retirement` | 2 windows, one of them may vanish and hold the pointer, 1 release, 2 continuations, 2 retries | every barrier has somebody who will move it; dependencies go first; the native terminal outranks other outcomes; every barrier settles |
| `shutdown_fence` | 1 window that may vanish, 1 callback, 1 release, 2 generations, 2 waves | the registry is cleared and the fence dropped only when nothing is left; no terminate request is lost; the shutdown completes |
| `shutdown_fence_release` | the same, without debug assertions | **violation**: a terminate request made inside an attempt is lost |

*Bounds.* Two emitters and three subscribers allow one to be visited, one
waiting and one inserted meanwhile, and nesting of two is the least at which a
`retain` meets another's taken list. Transactions of depth three are an update
inside a callback inside an update, with a borrow or lease at one of the levels; two panics make one unwind into the cleanup of
another. The workload `Notifying` (3 calls, depth 3, 2 panics) has notifications,
globals, borrows and subscriptions, `Repeating` (4 calls, depth 2, 1 panic) an observer that
is notified again, `Releasing`, `Emitting` and `Mixed` (3 calls, depth 2, 1 panic each) have entity
creation and release with their listeners and subscriptions, events, and deferred callbacks that
get and create entities. What destructors drop is not counted as a call. The union is out of reach, and
the workloads meet only through the flush loop, which all exercise. Three threads are the
dropper, the upgrader and the collector of the races over one id; distinct ids
share nothing but the lock. Two generations suffice for a stale answer, three for
a result that skips one. Two workers, one of which may sleep while the other takes
what it was woken for or dies, and three tasks, so that one is dispatched by another, are
the least for the races of the condition variable. Three sequence numbers let
an older event, a newer one and an input between them meet; a budget of one makes every
drain run out of it; a stack of five is a callback inside a command inside a drain inside
a convergence. One release is enough for the races of its timers, events and terminals,
since releases share only the queue; two windows suffice for a circle and for an anchor
that waits. The fence's safety properties also hold with two windows (691,000 states),
which is too slow with the liveness property and adds no new kind of order. One callback and one
window do not use up the waves of an attempt; the theorems about the fence hold for any number.

*Deadlock* is checked where the program can always go on (`window_mutation`,
`form_store`, `resource_client`); the others stop when their bounds are used up.

## 4. Fairness

* `EffectCycle`: weak fairness of the flush's own steps (a loop on the main thread)
  and of the return of user code. A callback that never returns blocks the
  application; the code cannot do anything about it, and liveness is claimed only without it.
* `EntityMap`: an operation that has begun goes on; the main thread keeps
  flushing and so calls `take_dropped`; parking_lot's lock is eventually fair, hence
  strong fairness of taking it; strong fairness of the end of `upgrade`, whose
  compare-and-exchange is not defeated for ever by others.
* `WindowMutation`: queued native events are drained and a delivery runs to its end.
  Nothing obliges the backend to answer.
* `LinuxDispatcher`: weak fairness of the main thread and of each worker: a task ends, a
  worker loops on `pop`, the event loop goes round. Nobody is obliged to dispatch, and
  nobody panics out of fairness.
* `NativeIngress`: weak fairness of the call in progress, of the event loop's tasks
  (wakes, recoveries, imports) and of the accessibility thread between its staging and
  its signal.
* `WindowActivation`: weak fairness of the main thread's passes; strong fairness of the
  return of a command, which callbacks may interrupt again and again; weak fairness of
  `Borrow`, because a settlement made in a late stage of a convergence is only
  delivered at the end of the next update, and an application that runs is updated again.
* `WindowRetirement`: the drain goes on, timers fire, a window flushes its pointer
  cancellations, and a native window whose retirement was accepted goes (weak); a
  retirement that is asked for again and again is accepted some day (strong). Releases may be
  rejected each time, as their retries are counted.
* `ShutdownFence`: the stages of an attempt go on and quit observers have a timeout (weak); updates
  return, releases end, retirements and `Closed` events, which share a FIFO with the
  completion, are reached, and a completion and its timer find the App free again and again
  (strong); a backend does not refuse to quiesce for ever (strong).

## 5. Proofs

All obligations are discharged by Z3, Zenon and LS4. Every theorem is about the
specification the runs check, for every value of its constants; each module says which
assumption it uses. The proofs have one step per action, and an action that cannot touch
what an invariant reads is dealt with by a frame lemma.

**`SubscriberSetProofs`**, for any set of keys and any bounds (`SubscriberBounds`:
both are natural numbers). `TypeCorrect` is inductive alone. `NeverLost`
(`NoSubscriberLost`: an id inserted and neither dropped nor finished is in its slot
or in a call in progress) is inductive with the type invariant. `NeverTwice`
(`NoSubscriberTwice`) and `DroppedStaysOut` (`DroppedNotStored`) need each
other and four facts more: only ids already inserted are stored, dropped or owned by
a subscription (`KnownIds`); a slot without a map holds none and a map holds ids of
its own key (`StoredUnderKey`); so does a `retain` in progress (`CallsUnderKey`). Without
the second, the unsubscribe closure would look in the wrong slot; without the third,
the put-back at the end of `retain` would move an id. `PassedLate` says that what the sweep has
passed and is dropped since is `late`; without it the put-back could store any dropped id.
The conjunction is `PlacesInv`. `TakenIsTemporary`
(`TakenOnlyDuringRetain`) is inductive with the type invariant: only the end of the
`retain` that took a list leaves the stack, and it puts the list back.

**`EffectCycleProofs`**, from `CycleAssumption`: all five invariants of the module, in layers that
each assume the ones before.

* `Shape` carries `TypeCorrect` and `UnwindingAlwaysRestores` (`UnwindingRestores`). The property relates
  counters, leases and marks to the stack of transactions; that a return or a panic keeps the relation depends on
  which transactions and calls can be on top in which phase of the flush and which effects the call in
  progress can have come from, and that is what `Shape` adds.
* `ListsUsedAsSpecified`: the composition takes only steps of `SubscriberSet`, so what is
  proved there for any user holds here.
* `Counts` carries `RefCountsAlwaysExact`. The handles of an entity are split by who has them
  (announced to the application, deferred, upgraded, in an update, under construction), and two facts close
  the induction: a vacant slot has no handle of any kind, and the entities of the batch that the flush
  releases are marked `releasing` while those still on the dropped list are not (`Batch`).
* `GoneLists` carries `ReleasedAlwaysUnobserved`: `release_dropped_entities` takes the lists down one after
  the other while callbacks run, so the invariant says for each phase which lists are gone already, and
  that no notification in progress is about a gone entity.
* `Ages` carries `NeverRetroactive` (`NoRetroactiveDelivery`): the activation of a subscriber stands in
  the queue before every effect that it may see.
* `Deliverable` carries `AlwaysDelivered` (`NotificationsDelivered`): what is owed to a live observer
  is queued, or is still to be visited by the call in progress. It needs `Places`, the subscriber registry's
  invariant, to know that the observer is in the list that the call has taken.

**`StoreProofs`**, about three components that keep their state in one store each and share nothing. (The
last two prefix their `Init`, `Next`, `Spec` and `TypeOK` with `Form` and `Client`, so that one module can
extend all three.)

* `EntityMap`, for any threads, ids and bound on handles (`EntityMapAssumption`). `MapImplementsRefs`
  (`ImplementsEntityRefs`): every step of clone, drop, upgrade and `take_dropped`, at the level of lock and
  atomic operations, is one step of `EntityRefs` or changes nothing of it. The count of an id is the
  cardinality of the set of its handles, a handle being one that a thread owns or is about to give up; a
  thread between lock and count keeps its guard, so that the id cannot leave the slot map under it; an id
  is on the dropped list, or about to be pushed, exactly when it is counted and its count is zero.
* `FormStore`, for any fields, values and bounds. `ErrorsAlwaysFit`, `ValidationNeverStranded` and
  `SubmissionIsCurrent` rest on generations: each belongs to one ticket only (`GenerationsUnique`), which is
  what remains once revisions saturate; the ticket that a validating field waits for was given the value the
  field has (`ActiveTicketFits`); and the validating flag and the active generation are set and cleared together
  (`FieldsConsistent`).
* `ResourceClient`, for any keys, mutations and bounds (`ResourceConstants`). `StatusAlwaysAgrees` and the
  action property `NeverBackward` (`ResultsNeverGoBack`) rest on `ClientTypeOK /\ StatusAgrees /\ ResultsBounded`; the
  last says that no result is newer than the newest generation, without which accepting
  the current generation could still replace a newer result.

**`WindowMutationProofs`**, for any domains and bounds. `NoTicketForgotten` (`UnsettledIsPending`), `SuccessIsOwn`
(`OutcomeFromOwnAnswer`) and `QuiescenceLasts` (`QuiescedStaysQuiet`) are proved together, with three facts
that none of them states: the pending ticket of a domain is its newest generation (`NewestPending`), an
answer in the queue was reported by the backend (`QueuedIsAnswered`), and a ticket that a caller has, or gets
when the delivery in progress ends, was begun and is successful only on its own answer (`GrantedFits`). The
last is about tickets still in the stack of deliveries, which the property does not see.

**`QueueProofs`**: `LinuxDispatcher`, for any finite set of workers (`DispatcherConstants`), callers and tasks.
`WakeupNeverLost` (`NoLostWakeup`: while a worker sleeps there are as many woken workers as items) is
inductive with the type invariant; the argument is how the cardinality of the woken workers changes with each step, and
therefore needs the workers to be finite. `PopYields`: the coin of the lowest level that holds an item has the whole remaining mass and
cannot fail. `NeverStranded`: a stored runnable has a readable eventfd, a thread between push and ping, or a
drain in progress. `QueuesUsedAsSpecified`: the composition takes only steps of `PriorityQueue` and
`CalloopQueue`.

`NativeIngress`, for any budget and depth, and any number of callbacks, updates and panics
(`IngressConstants`): both invariants of its run and its action property. The invariant has three layers:

* `Nesting`, how calls sit on the stack: a command on the drain that popped it, a delivery on a drain or an input, an
  input below another call on its barrier only, one owner of the queue and one convergence at a time; the
  phase then names the owner (`PhaseOf`).
* `Accounts`, a ledger: sequences grow along the queue, from it to the staged callbacks, and up to
  `next_sequence` (`Ordered`); a sequence is queued, staged or held by one call, and exactly then unsettled
  (`Accounted`); only the one completion of a shutdown waits behind the fence (`CompletionFenced`, without which
  `begin_shutdown` would have to be proved to keep an order); what is queued, staged or waiting at
  a barrier is newer than the last handler that started (`HandledFirst`). The lemmas turn each step into one entry of
  that ledger (`Books`). `WorkAlwaysAccounted` (`WorkAccounted`) and `HandlersAlwaysInOrder` (`HandlersInOrder`)
  follow.
* `Owed`, who will come back: a blocked queue has a recovery scheduled, or a call on the stack whose end
  converges or schedules what will (`BlockedOwed`); an idle queue with work has a wake, such a call, a convergence, or
  a drain about to start (`WorkOwed`); staged callbacks have a token (`StagedOwed`). That a drain is blocked only
  above an update, and never inside a convergence, comes from `Nesting`. With an empty stack, `WorkNeverStranded`
  (`NoStrandedWork`) is what is left.

**`ShutdownFenceProofs`**. `ClearAlwaysSafe` (`ClearedSafely`) holds in every build. `CompletionAlwaysFinal`
and `TerminateNeverLost` have `DebugAssertions` as a hypothesis, because without it they are false
(section 6). The invariant has four parts: an attempt runs only for a prepared fence, and the fence alone holds the
window-open barrier (`FenceHeld`); the clear is not undone (`ClearLasts`); for each stage, what the stages before it have
established and the code that ran since cannot have undone (`StageEstablished`); and, with debug
assertions, no callback is protected or lost behind the attempt's back and every wish to terminate is in the
fence or in `requested` (`AttemptSeen`).

**`WindowRetirementProofs`**, for any finite set of windows and any releases and bounds (`RetirementConstants`).
All three invariants of the module, each inductive with what it needs:

* `GoneIsNews` (`TerminalIsNews`) is inductive with the type invariant: the native terminal of a window is
  observed in the step that takes it from the queue, and nothing retires it twice.
* `AnchorsWait` (`DependenciesFirst`): an anchor is given up only after the terminal of every window
  that depends on it. The invariant (`DependencyInv`) says of each required dependency that it is observed, or is still
  registered with its anchor; so the anchor's own retirement has something to wait for.
* `BarriersOwned` (`BarriersHaveOwners`): a barrier that stands has work, a timer or a native window that
  will end it. The invariant (`OwnerInv`) follows the entries of the queue through `retain`, of which
  `Retain` gives the definition and the proofs the lemmas (what is kept is what passes, once, in order).

**`WindowActivationProofs`**, for any windows, observers and bounds (`ActivationConstants`).
`AnswersHaveEvidence` (`TerminalHasEvidence`: activated is said only of a window that had the native focus
after its command was queued, superseded only when something came later) and `RequestsAreOwned` (`PendingIsOwned`:
a request that has not settled has somebody who will settle it) are proved together. Neither is inductive. What
they need: a report in the queue behind a command stands for a window that gained the
focus since the command was queued (`ObservationsGained`); a command in the queue is of one request, which
has not gone beyond it (`CommandsQueued`); the command that runs is that of the
record in dispatch (`CommandIsDispatching`); a request displaced while its command runs has its answer already
(`DisplacedIsAnswered`); the records are the pending tickets (`RecordsArePending`), and their windows accept
activation under the policy of the request (`RecordsAreAdmitted`). The lemmas say that the newest or oldest
number of a nonempty set exists, which rests on the well-foundedness of the natural numbers.

`ObserversAreWanted` (`CallsAreWanted`) is an action property: an observer is called only when its ticket has
settled and its `Subscription` was not dropped. It needs of every delivery, waiting or begun, that all its
observers have a settled ticket (`DeliveriesDue`), that a settled ticket stays settled (`StaysTerminal`, from
`RecordsArePending`: only records settle), and that putting the observers of a ticket in order gives
observers of that ticket (`AscendingOf`, by counting ranks).

`NoSubscriberTwice`, which `NeverTwice` proves, is in no run.

Only model-checked:

* all liveness (`UpdatesSettle`, `LastDropCollected`, `AnswerReachesObserver`, `TaskContinues`,
  `SettledIsObserved`, `WorkSettles`, `BarriersSettle`, `ShutdownCompletes`), which is out of the prover's reach.

## 6. Disagreements of code and documents

With a run:

* `shutdown_fence_release`. `NativeShutdownEffectFlushOwnership::begin` records the running
  generation in the argument of a `debug_assert!` (`cell.rs:425`). Without debug
  assertions it is not recorded, and while an attempt holds the fence
  (`cell.rs:1818`) `active_shutdown_generation` finds none: a shutdown requested inside
  the attempt does not join (`cell.rs:1676-1681`), takes the protected callbacks, and
  panics in `NativeShutdownCriticalState::begin` (`cell.rs:325-330`). The shutdown completes
  without terminating the ingress although that was asked for. The comment at
  `cell.rs:2005-2007` says terminal effects may re-enter shutdown. In the same state a
  critical callback scheduled for after the clear panics (`app.rs:2527`).

Seen while modelling, without a run of their own:

* `settle` of a window mutation takes all observers out of the ticket before it
  runs bounds observers and callbacks. A subscription dropped by one of those finds
  nothing to remove and its callback still runs
  (`window_platform_mutation.rs:267`), while the documents at `:146` and `:180` say
  dropping it stops delivery. The tickets of window activation look again before each call.
  A bounds observer that panics there frees the callbacks uncalled (`window.rs:5626`).
* `recv` looks at the sender count once, before it waits, and the drop of the sender does
  not signal (`queue.rs:157`); a worker asleep in `pop` stays asleep, while the document of
  `pop` (`:280-282`) lists a dropped sender as an error.
* A ticket whose native window goes before it is quiesced (`platform.rs:4036-4051`) refuses
  every later attempt, and the fence keeps it (`cell.rs:1557`): the shutdown never
  completes. `ShutdownCompletes` excludes exactly this case.
* A retirement whose owner panics in its drop after its native terminal was observed waits
  for a terminal that does not come again (`cell.rs:3487-3496`); `BarriersSettle` excludes it.
* A capture release whose retries are used up completes as failed (`cell.rs:1093`), while the plan of
  2026-07-10 (`docs/plans`, line 2208) has saturated rejection converge through the native
  terminal of the window.
* A panicking task kills its worker thread (`dispatcher.rs:46`); when all are dead, `dispatch`
  panics in the caller (`dispatcher.rs:110`). An item accepted while the last receiver goes is never popped
  (`queue.rs:35`).
* A query invalidated while a fetch is in flight is `Success` again when that fetch completes
  (`client.rs:233`).
* A reserved id dropped without an entity yields nothing in `take_dropped`, so subscribers
  it collected are never removed (`entity_map.rs:200`).
* The sweep of `retain` (`subscription.rs:137`) destroys callbacks. If one of them owns the `Subscription`
  of an earlier subscriber of the same list, the sweep has passed that one, its slot is
  `None`, and it is stored again though dropped (`:141-146`), until the next `retain` or `remove` of
  the key; `remove` would even hand it out. `DroppedNotStored` excludes exactly this case. The
  document at `:156-157` says the subscription is cancelled.
* `SubscriberSet::remove` hands out a subscriber whose subscription a previous
  callback has dropped (`subscription.rs:101`; document at `:156`).
* Notify, observe, notify in one update: the second notification is merged into
  the first, which is applied before the observer's activation, so the observer is not told
  (`app.rs:1295`, `:3234`). `NotificationsDelivered` is therefore about
  observers active when the notification is made.
* `remove_global` notifies global observers (`app.rs:2635`; document at `:2632`).
* The calloop sender pings before its inner sender is dropped
  (`dispatcher.rs:179`): the loop may drain, see a live sender and rest, and
  `Event::Closed` is not delivered (test at `:353-360`).
* `invalidate` marks a query without data `Stale` (`client.rs:97`;
  `snapshot.rs:15`).
* `fetch_attempts` counts over all generations (`client.rs:63`; `snapshot.rs:50`).

## 7. What is left out of the modelled parts

Window invalidators and `RefreshWindows`, focus handles, event types, the drawing a
test build does inside the flush, and the shutdown fence that can take the flush
over (`EffectCycle`); leak detection of test builds (`EntityMap`); provisional sessions,
forced dispatch and the activation policy sink (`WindowMutation`); the timer thread
(calloop's own); the borrow flag of a `RefCell`: a callback that unsubscribing itself takes out of the
stored map is destroyed under the borrow (`subscription.rs:80`), and if it owns a `Subscription` of the set
that destructor panics; destructors that panic or do more than drop subscriptions and handles
(`SubscriberSet`, `EffectCycle`); the rejection of a physical placement that is answered while the
window has no geometry (`window_platform_mutation.rs:574-579`), which settles the ticket like any
other outcome (`WindowMutation`); tickets of another store, refused at once (`FormStore`). `submit_count` saturates and
is read by nothing. What each native event does to a window, and the telemetry of the
boundary; coalescing keys other than the one that `frame` stands for (all frames of the model are of one
window and domain); the drain after an input rejected because the application is terminating, which finds the
ingress terminated and its queue empty (`NativeIngress`); platforms without a focus authority
(`WindowActivation`); the drag sessions that reserve releases; close observers, which run between the
unregistering of a window and the queueing of its retirement, while `RemoveWindow` is one step
(`WindowRetirement`); panics inside the stages of an attempt, which it
collects and resumes at its end, and the check-out of a window, which shows as a borrowed
App (`ShutdownFence`).

Not modelled at all, because there is no protocol to check or its state is numeric
and continuous: layout, painting, text shaping, keymap matching, motion, rendering
backends, devtools snapshots, support crates, tooling and examples.

## 8. Plan

In this order, the most consequential first:

1. `TestScheduler`: deterministic scheduler, timers and blocking sections; abstract
   specification: each runnable is run once, in the order its session requires.
2. `DockSession`: docking session, revision and drag protocol; then the undo
   histories of commands and canvas, against an abstract list with a cursor.
3. `FramePump`: invalidation and frame requests of a window.
4. `SumTree` cursor and split, as an algorithm against sequences.

Theorems next, each with the invariant that should carry it:

* `WindowActivation`: an observer is called at most once, which needs that it is in one delivery and there once.

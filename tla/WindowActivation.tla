--------------------------- MODULE WindowActivation ---------------------------
(***************************************************************************)
(* crates/gpui/src/app/native_window_activation.rs and its callers in      *)
(* cell.rs and window.rs: requests to make a window the native foreground  *)
(* window.  A request is a generation with a ticket; its command goes      *)
(* through the queue of native work, the backend may pump native callbacks *)
(* while it runs the command, and the answer is an observation of focus.   *)
(*                                                                         *)
(* The queue itself is module NativeIngress; here it is a sequence that    *)
(* some drain pops.  What is kept of it is who runs when: the code that    *)
(* holds the App, the drain, the command, and the convergence that the end *)
(* of an App borrow starts.                                                *)
(***************************************************************************)
EXTENDS Naturals, FiniteSets, Sequences, SequencesExt

CONSTANTS
    Windows,
    Supported,      \* windows whose backend observes programmatic activation
    NoWindow,
    MaxRequests,    \* bound on activation requests
    MaxObservers,   \* bound on subscribe calls
    MaxFocus,       \* bound on native focus changes
    MaxPolicy,      \* bound on the commits of an activation policy
    MaxPanics,      \* bound on panics of commands and observers
    MaxUpdates      \* bound on the calls of the application

ASSUME ActivationConstants ==
    /\ Supported \subseteq Windows /\ NoWindow \notin Windows
    /\ MaxRequests \in Nat /\ MaxObservers \in Nat /\ MaxFocus \in Nat
    /\ MaxPolicy \in Nat /\ MaxPanics \in Nat /\ MaxUpdates \in Nat

VARIABLES
    next_generation, current_generation,
    records,             \* generations with a PendingActivationRecord
    target, policy,      \* of each ticket
    command_sequence, first_positive, status,
    queue,               \* NativeEventIngress::pending, oldest first
    next_sequence,
    open, admitted,      \* committed windows, and those with interaction authority
    policy_generation, accepts_activation,
    fenced,              \* shutdown: the queue takes no more work
    focused,             \* external: the native focus
    focus_changes,
    gained,              \* history: windows that gained focus since a request, and
                         \* its target if that had it already
    deliveries, delivering,
    left,                \* observers of the delivery in progress
    running,             \* a callback is running
    watching, observer, cancelled,
    at,                  \* what the main thread is doing
    command,             \* the generation whose command the backend runs, or 0
    pass,                \* "wake", or the native work pass of a convergence
    requested,           \* post_borrow_convergence_requested
    unwinding,           \* drain_deliveries holds a panic
    panics, updates

authorityVars == <<next_generation, current_generation, records, target, policy,
                   command_sequence, first_positive, status>>
queueVars == <<queue, next_sequence>>
windowVars == <<open, admitted, policy_generation, accepts_activation, fenced>>
focusVars == <<focused, focus_changes, gained>>
deliveryVars == <<deliveries, delivering, left, running, unwinding>>
observerVars == <<watching, observer, cancelled>>
threadVars == <<at, command, pass, requested>>
activationVars == <<authorityVars, queueVars, windowVars, focusVars, deliveryVars,
                    observerVars, threadVars, panics, updates>>

Generations == 1 .. MaxRequests
Observers == 1 .. MaxObservers
Pending == {"queued", "dispatching", "dispatched"}
Terminals == {"activated", "rejected", "unsupported", "superseded", "policy_changed",
              "cancelled", "closed"}
Refusals == {"rejected", "unsupported", "closed"}
NoGain == [window |-> NoWindow, sequence |-> 0]
Gains == [window : Windows, sequence : Nat \ {0}] \cup {NoGain}
Work == [kind : {"focus", "activate", "readback"}, window : Windows,
         generation : {0} \cup Generations, sequence : Nat \ {0}]

TypeOK ==
    /\ next_generation \in 0 .. MaxRequests
    /\ current_generation \in 0 .. next_generation
    /\ records \subseteq Generations
    /\ target \in [Generations -> Windows \cup {NoWindow}]
    /\ policy \in [Generations -> 0 .. MaxPolicy]
    /\ command_sequence \in [Generations -> Nat]
    /\ first_positive \in [Generations -> Gains]
    /\ status \in [Generations -> {"unused"} \cup Pending \cup Terminals]
    /\ queue \in Seq(Work) /\ next_sequence \in Nat \ {0}
    /\ open \subseteq Windows /\ admitted \subseteq open
    /\ policy_generation \in [Windows -> 0 .. MaxPolicy]
    /\ accepts_activation \in [Windows -> BOOLEAN]
    /\ fenced \in BOOLEAN
    /\ focused \in Windows \cup {NoWindow} /\ focus_changes \in 0 .. MaxFocus
    /\ gained \in [Generations -> SUBSET Windows]
    /\ deliveries \in Seq(Seq(Observers)) /\ left \in Seq(Observers)
    /\ delivering \in BOOLEAN /\ running \in BOOLEAN /\ unwinding \in BOOLEAN
    /\ watching \in [Observers -> 0 .. MaxRequests]
    /\ observer \in [Observers -> {"unused", "waiting", "scheduled", "called", "removed",
                                   "skipped"}]
    /\ cancelled \subseteq Observers
    /\ at \in {"idle", "user", "release", "loop", "event", "command", "input", "critical"}
    /\ command \in 0 .. MaxRequests
    /\ pass \in {"wake", "first", "second"}
    /\ requested \in BOOLEAN
    /\ panics \in 0 .. MaxPanics /\ updates \in 0 .. MaxUpdates

\* Code of the application runs in callbacks, or where it holds the App: in an
\* update, in the handlers of an event or an input, and in the critical callbacks.
AppRuns == IF delivering THEN running ELSE at \in {"user", "event", "input", "critical"}

\* A ticket can also be used by a task that does not hold the App.
TicketRuns == AppRuns \/ (~delivering /\ at \in {"idle", "command"})

-----------------------------------------------------------------------------
Init ==
    /\ next_generation = 0 /\ current_generation = 0 /\ records = {}
    /\ target = [g \in Generations |-> NoWindow]
    /\ policy = [g \in Generations |-> 0]
    /\ command_sequence = [g \in Generations |-> 0]
    /\ first_positive = [g \in Generations |-> NoGain]
    /\ status = [g \in Generations |-> "unused"]
    /\ queue = <<>> /\ next_sequence = 1
    /\ open = Windows /\ admitted = Windows
    /\ policy_generation = [w \in Windows |-> 0]
    /\ accepts_activation = [w \in Windows |-> TRUE]
    /\ fenced = FALSE
    /\ focused = NoWindow /\ focus_changes = 0
    /\ gained = [g \in Generations |-> {}]
    /\ deliveries = <<>> /\ delivering = FALSE /\ left = <<>> /\ running = FALSE
    /\ unwinding = FALSE
    /\ watching = [o \in Observers |-> 0]
    /\ observer = [o \in Observers |-> "unused"]
    /\ cancelled = {}
    /\ at = "idle" /\ command = 0 /\ pass = "wake" /\ requested = FALSE
    /\ panics = 0 /\ updates = 0

-----------------------------------------------------------------------------
(* The authority *)

WaitingOn(g) == {o \in Observers : observer[o] = "waiting" /\ watching[o] = g}

\* The numbers of S in order: the k-th has k members of S up to itself.
Ascending(S) ==
    [k \in 1 .. Cardinality(S) |-> CHOOSE n \in S : Cardinality({m \in S : m <= n}) = k]

\* Mutant: settle leaves the observers in the ticket.
DeliveriesLost(gs) == <<>>

\* WindowActivationTicket::settle takes the observers of each ticket; the records
\* are visited by generation.  A delivery without observers does nothing and is left
\* out.
Deliveries(gs) ==
    LET order == Ascending({g \in gs : WaitingOn(g) # {}})
    IN  [i \in 1 .. Len(order) |-> Ascending(WaitingOn(order[i]))]

\* Observers whose ticket settles go with its delivery.
Scheduled(gs) ==
    [o \in Observers |-> IF observer[o] = "waiting" /\ watching[o] \in gs THEN "scheduled"
                         ELSE observer[o]]

\* Settles the records gs, clears the current generation if it is one of them, and
\* enqueues the deliveries.
Settle(gs, terminal) ==
    LET live == gs \cap records
    IN  /\ records' = records \ gs
        /\ status' = [g \in Generations |-> IF g \in live THEN terminal ELSE status[g]]
        /\ current_generation' = IF current_generation \in gs THEN 0
                                 ELSE current_generation
        /\ deliveries' = deliveries \o Deliveries(live)
        /\ observer' = Scheduled(live)

\* The record begin displaces: not the one whose command is running and that has
\* already seen the winner.
Displaced ==
    {g \in {current_generation} \cap records :
        ~(status[g] = "dispatching" /\ first_positive[g] # NoGain)}

\* begin_native_window_activation and begin_terminal_native_window_activation: the
\* new request w replaces the current one; with a refusal it settles at once.
Begin(w, refusal) ==
    LET g == next_generation + 1
        gone == Displaced
    IN  /\ g \in Generations
        /\ next_generation' = g
        /\ target' = [target EXCEPT ![g] = w]
        /\ policy' = [policy EXCEPT ![g] = policy_generation[w]]
        /\ gained' = [gained EXCEPT ![g] = {w} \cap {focused}]
        /\ deliveries' = deliveries \o Deliveries(gone)
        /\ observer' = Scheduled(gone)
        /\ status' = [h \in Generations |->
                         IF h \in gone THEN "superseded"
                         ELSE IF h # g THEN status[h]
                         ELSE IF refusal = "none" THEN "queued" ELSE refusal]
        /\ records' = (records \ gone) \cup (IF refusal = "none" THEN {g} ELSE {})
        /\ current_generation' = IF refusal = "none" THEN g ELSE 0
        /\ IF refusal = "none"
           THEN /\ command_sequence' = [command_sequence EXCEPT ![g] = next_sequence]
                /\ queue' = Append(queue, [kind |-> "activate", window |-> w,
                                           generation |-> g, sequence |-> next_sequence])
                /\ next_sequence' = next_sequence + 1
           ELSE UNCHANGED <<command_sequence, queue, next_sequence>>

\* Mutant: an observation older than the command counts.
FollowsAny(g, sequence) == command_sequence[g] # 0

\* Only what was reported after the command was queued is about it.
Follows(g, sequence) == command_sequence[g] # 0 /\ sequence > command_sequence[g]

\* observe_exact_positive: the newest request that the observation follows.  A
\* request whose command has not returned keeps the first observation.
ObserveExactPositive(w, sequence) ==
    LET seen == {g \in records : Follows(g, sequence)}
        g == CHOOSE h \in seen : \A k \in seen : k <= h
    IN  IF seen = {}
        THEN UNCHANGED <<records, status, current_generation, deliveries, observer,
                         first_positive>>
        ELSE IF status[g] = "dispatched"
        THEN /\ Settle({g}, IF target[g] = w THEN "activated" ELSE "superseded")
             /\ UNCHANGED first_positive
        ELSE /\ first_positive' =
                    [first_positive EXCEPT
                        ![g] = IF @ = NoGain THEN [window |-> w, sequence |-> sequence] ELSE @]
             /\ UNCHANGED <<records, status, current_generation, deliveries, observer>>

-----------------------------------------------------------------------------
(* The application *)

UserStep == updates < MaxUpdates /\ updates' = updates + 1

\* Window::activate_window.
ActivateWindow(w) ==
    /\ AppRuns /\ UserStep
    /\ Begin(w, IF w \notin open THEN "closed"
                ELSE IF w \notin Supported THEN "unsupported"
                ELSE IF w \notin admitted \/ ~accepts_activation[w] THEN "rejected"
                ELSE IF fenced THEN "closed" ELSE "none")
    /\ UNCHANGED <<first_positive, windowVars, focused, focus_changes, delivering,
                   left, running, unwinding, watching, cancelled, threadVars, panics>>

\* app_borrow_released: outside a borrow and a convergence it converges at once, also
\* while a command runs; a callback of a wake's drain finds nothing left to do, as
\* the drain it runs in does it; anywhere else a request is left.
BorrowReleased ==
    LET converges == at = "idle" \/ (at = "command" /\ pass = "wake")
    IN  /\ at' = IF converges THEN "release" ELSE at
        /\ pass' = IF at = "idle" THEN "first" ELSE pass
        /\ requested' = ~(converges \/ (at = "loop" /\ pass = "wake"))
        /\ UNCHANGED command

\* WindowActivationTicket::cancel and cancel_for_target_replacement.
Cancel(g) ==
    /\ TicketRuns /\ UserStep
    /\ g <= next_generation /\ status[g] \in Pending
    /\ Settle({g}, "cancelled")
    /\ BorrowReleased
    /\ UNCHANGED <<next_generation, target, policy, command_sequence, first_positive,
                   queueVars, windowVars, focusVars, delivering, left, running, unwinding,
                   watching, cancelled, panics>>

\* WindowActivationTicket::subscribe: on a terminal ticket the delivery is enqueued
\* at once.
Subscribe(o, g) ==
    /\ TicketRuns /\ UserStep
    /\ observer[o] = "unused" /\ \A p \in 1 .. o - 1 : observer[p] # "unused"
    /\ g <= next_generation
    /\ watching' = [watching EXCEPT ![o] = g]
    /\ IF status[g] \in Terminals
       THEN /\ observer' = [observer EXCEPT ![o] = "scheduled"]
            /\ deliveries' = Append(deliveries, <<o>>)
            /\ BorrowReleased
       ELSE /\ observer' = [observer EXCEPT ![o] = "waiting"]
            /\ UNCHANGED <<deliveries, threadVars>>
    /\ UNCHANGED <<authorityVars, queueVars, windowVars, focusVars, delivering, left, running,
                   unwinding, cancelled, panics>>

\* Dropping the Subscription.
Unsubscribe(o) ==
    /\ TicketRuns
    /\ observer[o] \in {"waiting", "scheduled"} /\ o \notin cancelled
    /\ cancelled' = cancelled \cup {o}
    /\ observer' = [observer EXCEPT ![o] = IF @ = "waiting" THEN "removed" ELSE @]
    /\ UNCHANGED <<authorityVars, queueVars, windowVars, focusVars, deliveryVars, watching,
                   threadVars, panics, updates>>

Targeting(w) == {g \in records : target[g] = w}

\* Mutant: a commit with the same answer as before keeps the requests.
PolicyChangedOnAnswer(w, accepts) == IF accepts THEN {} ELSE Targeting(w)

\* activation_policy_changed: requests made under another policy generation, or all
\* when the window no longer accepts activation.
PolicyChanged(w, accepts) ==
    {g \in Targeting(w) : policy[g] # policy_generation[w] + 1 \/ ~accepts}

\* A mutation of the activation policy commits.
CommitPolicy(w, accepts) ==
    /\ AppRuns /\ UserStep /\ w \in open /\ policy_generation[w] < MaxPolicy
    /\ policy_generation' = [policy_generation EXCEPT ![w] = @ + 1]
    /\ accepts_activation' = [accepts_activation EXCEPT ![w] = accepts]
    /\ Settle(PolicyChanged(w, accepts), "policy_changed")
    /\ UNCHANGED <<next_generation, target, policy, command_sequence, first_positive,
                   queueVars, open, admitted, fenced, focusVars, delivering, left, running,
                   unwinding, watching, cancelled, threadVars, panics>>

\* interaction_quiesced.
Quiesced(w) == Targeting(w)

\* quiesce_window_interaction_authority, and the start of Window::remove_window.
Quiesce(w) ==
    /\ AppRuns /\ UserStep /\ w \in admitted
    /\ admitted' = admitted \ {w}
    /\ Settle(Quiesced(w), "policy_changed")
    /\ UNCHANGED <<next_generation, target, policy, command_sequence, first_positive,
                   queueVars, open, policy_generation, accepts_activation, fenced, focusVars,
                   delivering, left, running, unwinding, watching, cancelled, threadVars,
                   panics>>

\* remove_native_window.
Close(w) ==
    /\ AppRuns /\ UserStep /\ w \in open
    /\ open' = open \ {w} /\ admitted' = admitted \ {w}
    /\ Settle(Targeting(w), "closed")
    /\ UNCHANGED <<next_generation, target, policy, command_sequence, first_positive,
                   queueVars, policy_generation, accepts_activation, fenced, focusVars,
                   delivering, left, running, unwinding, watching, cancelled, threadVars,
                   panics>>

\* begin_shutdown_with_window_open_barrier: terminate, then the fence.
Shutdown ==
    /\ AppRuns /\ UserStep /\ ~fenced
    /\ fenced' = TRUE
    /\ Settle(records, "closed")
    /\ UNCHANGED <<next_generation, target, policy, command_sequence, first_positive,
                   queueVars, open, admitted, policy_generation, accepts_activation, focusVars,
                   delivering, left, running, unwinding, watching, cancelled, threadVars,
                   panics>>

-----------------------------------------------------------------------------
(* The platform *)

\* External: the native focus moves while code of the platform runs, and the window
\* that gains it is reported.
Focus(w) ==
    /\ ~delivering /\ at \in {"idle", "command"}
    /\ focus_changes < MaxFocus /\ w # focused
    /\ w \in open \cup {NoWindow}
    /\ focus_changes' = focus_changes + 1
    /\ focused' = w
    /\ gained' = [g \in Generations |-> IF w # NoWindow /\ g <= next_generation
                                        THEN gained[g] \cup {w} ELSE gained[g]]
    /\ IF w = NoWindow \/ fenced THEN UNCHANGED queueVars
       ELSE /\ queue' = Append(queue, [kind |-> "focus", window |-> w, generation |-> 0,
                                       sequence |-> next_sequence])
            /\ next_sequence' = next_sequence + 1
    /\ UNCHANGED <<authorityVars, windowVars, deliveryVars, observerVars, threadVars,
                   panics, updates>>

\* The delivery of a focus report: dropped when the window is gone or quiesced.
Report(item) ==
    IF item.window \in admitted THEN ObserveExactPositive(item.window, item.sequence)
    ELSE UNCHANGED <<records, status, current_generation, deliveries, observer,
                     first_positive>>

\* dispatch_native_window_input: the barrier delivers the reports that are older than
\* the input, past the commands of the queue; the handlers run in "input".
Input ==
    /\ ~delivering /\ at \in {"idle", "command"}
    /\ at' = "input"
    /\ LET reports == {i \in 1 .. Len(queue) : queue[i].kind = "focus"}
           i == CHOOSE j \in reports : \A k \in reports : j <= k
       IN  IF reports = {}
           THEN UNCHANGED <<queue, records, status, current_generation, deliveries, observer,
                            first_positive>>
           ELSE Report(queue[i]) /\ queue' = RemoveAt(queue, i)
    /\ UNCHANGED <<next_generation, target, policy, command_sequence, next_sequence, windowVars,
                   focusVars, delivering, left, running, unwinding, watching, cancelled,
                   command, pass, requested, panics, updates>>

\* The lease of the callback ends: the borrow is released.
InputReturns ==
    /\ ~delivering /\ at = "input"
    /\ IF command = 0 THEN at' = "release" /\ pass' = "first" /\ requested' = FALSE
       ELSE IF pass = "wake" THEN at' = "release" /\ requested' = FALSE /\ UNCHANGED pass
       ELSE at' = "command" /\ requested' = TRUE /\ UNCHANGED pass
    /\ UNCHANGED <<authorityVars, queueVars, windowVars, focusVars, deliveryVars, observerVars,
                   command, panics, updates>>

-----------------------------------------------------------------------------
(* The main thread *)

\* An update of the application begins and ends.
Borrow ==
    /\ at = "idle" /\ at' = "user"
    /\ UNCHANGED <<authorityVars, queueVars, windowVars, focusVars, deliveryVars, observerVars,
                   command, pass, requested, panics, updates>>

Release ==
    /\ ~delivering /\ at = "user"
    /\ at' = "release" /\ pass' = "first" /\ requested' = FALSE
    /\ UNCHANGED <<authorityVars, queueVars, windowVars, focusVars, deliveryVars, observerVars,
                   command, panics, updates>>

\* A wake of the queue, or the task of a scheduled convergence.
Wake ==
    /\ at = "idle"
    /\ \/ queue # <<>> /\ at' = "loop" /\ pass' = "wake" /\ UNCHANGED requested
       \/ requested /\ at' = "release" /\ pass' = "first" /\ requested' = FALSE
    /\ UNCHANGED <<authorityVars, queueVars, windowVars, focusVars, deliveryVars, observerVars,
                   command, panics, updates>>

\* drain_deliveries takes the next delivery.
TakeDelivery ==
    /\ at \in {"release", "loop"} /\ ~running /\ left = <<>>
    /\ deliveries # <<>>
    /\ delivering' = TRUE /\ left' = Head(deliveries) /\ deliveries' = Tail(deliveries)
    /\ UNCHANGED <<authorityVars, queueVars, windowVars, focusVars, running, unwinding,
                   observerVars, threadVars, panics, updates>>

\* Mutant: the flag of a dropped Subscription is not read.
CallsCancelled(o) == TRUE

\* An observer is called unless its Subscription was dropped in the meantime.
Calls(o) == o \notin cancelled

\* WindowActivationTicketDelivery::deliver: the next observer.
Deliver ==
    /\ delivering /\ ~running /\ left # <<>>
    /\ left' = Tail(left)
    /\ running' = Calls(Head(left))
    /\ observer' = [observer EXCEPT ![Head(left)] = IF Calls(Head(left)) THEN "called"
                                                    ELSE "skipped"]
    /\ UNCHANGED <<authorityVars, queueVars, windowVars, focusVars, deliveries, delivering,
                   unwinding, watching, cancelled, threadVars, panics, updates>>

\* The callback returns; a panic waits until the deliveries are drained.
CallbackReturns ==
    /\ running /\ running' = FALSE
    /\ \/ UNCHANGED <<unwinding, panics>>
       \/ panics < MaxPanics /\ panics' = panics + 1 /\ unwinding' = TRUE
    /\ UNCHANGED <<authorityVars, queueVars, windowVars, focusVars, deliveries, delivering,
                   left, observerVars, threadVars, updates>>

\* How a pass ends: the convergence goes on to its next stage; the drain of a wake
\* converges if it was asked to or if it caught a panic.
EndPass(panicked) ==
    \/ /\ pass = "wake" /\ (requested \/ panicked)
       /\ at' = "release" /\ pass' = "first" /\ requested' = FALSE
    \/ /\ pass = "wake" /\ ~requested /\ ~panicked
       /\ at' = "idle" /\ UNCHANGED <<pass, requested>>
    \/ pass = "first" /\ at' = "critical" /\ UNCHANGED <<pass, requested>>
    \/ pass = "second" /\ at' = "idle" /\ pass' = "wake" /\ UNCHANGED requested

\* drain_deliveries returns.  A panic ends the pass, or only the stage of the
\* convergence.
DeliveriesDone ==
    /\ delivering /\ ~running /\ left = <<>> /\ deliveries = <<>>
    /\ delivering' = FALSE /\ unwinding' = FALSE
    /\ IF unwinding /\ at = "loop" THEN EndPass(TRUE) ELSE UNCHANGED <<at, pass, requested>>
    /\ UNCHANGED <<authorityVars, queueVars, windowVars, focusVars, deliveries, left, running,
                   observerVars, command, panics, updates>>

Drained == ~delivering /\ deliveries = <<>>

\* The convergence goes on from the deliveries to the native work; one that runs
\* inside a command finds the queue taken.
Converge ==
    /\ at = "release" /\ Drained
    /\ at' = IF command # 0 THEN "command" ELSE IF queue # <<>> THEN "loop" ELSE "critical"
    /\ UNCHANGED <<authorityVars, queueVars, windowVars, focusVars, deliveryVars, observerVars,
                   command, pass, requested, panics, updates>>

\* After the critical callbacks comes the second pass.
CriticalDone ==
    /\ at = "critical" /\ ~delivering
    /\ at' = IF queue # <<>> THEN "loop" ELSE "idle"
    /\ pass' = IF queue # <<>> THEN "second" ELSE "wake"
    /\ UNCHANGED <<authorityVars, queueVars, windowVars, focusVars, deliveryVars, observerVars,
                   command, requested, panics, updates>>

DrainDone ==
    /\ at = "loop" /\ Drained /\ queue = <<>>
    /\ EndPass(FALSE)
    /\ UNCHANGED <<authorityVars, queueVars, windowVars, focusVars, deliveryVars, observerVars,
                   command, panics, updates>>

Popped(kind) ==
    /\ at = "loop" /\ Drained /\ queue # <<>> /\ Head(queue).kind = kind
    /\ queue' = Tail(queue)

PopReport ==
    /\ Popped("focus")
    /\ Report(Head(queue))
    /\ at' = "event"
    /\ UNCHANGED <<next_generation, target, policy, command_sequence, next_sequence, windowVars,
                   focusVars, delivering, left, running, unwinding, watching, cancelled,
                   command, pass, requested, panics, updates>>

EventReturns ==
    /\ at = "event" /\ ~delivering /\ at' = "loop"
    /\ UNCHANGED <<authorityVars, queueVars, windowVars, focusVars, deliveryVars, observerVars,
                   command, pass, requested, panics, updates>>

\* observe_readback: the focus names the exact target of an accepted command.
ReadbackSettles(item) ==
    {g \in records : g = item.generation /\ focused = target[g] /\ status[g] = "dispatched"}

PopReadback ==
    /\ Popped("readback")
    /\ Settle(ReadbackSettles(Head(queue)), "activated")
    /\ UNCHANGED <<next_generation, target, policy, command_sequence, first_positive,
                   next_sequence, windowVars, focusVars, delivering, left, running, unwinding,
                   watching, cancelled, threadVars, panics, updates>>

\* begin_dispatch, after the checks of the command itself.
Dispatchable(item) ==
    /\ item.window \in admitted
    /\ current_generation = item.generation /\ item.generation \in records
    /\ status[item.generation] = "queued"

\* A command is dispatched, or its request settles.
PopCommand ==
    /\ Popped("activate")
    /\ LET item == Head(queue)
       IN  IF Dispatchable(item)
           THEN /\ status' = [status EXCEPT ![item.generation] = "dispatching"]
                /\ at' = "command" /\ command' = item.generation
                /\ UNCHANGED <<records, current_generation, deliveries, observer>>
           ELSE /\ Settle({item.generation},
                          IF item.window \in open /\ item.window \notin admitted
                          THEN "policy_changed"
                          ELSE IF item.window \in open THEN "superseded" ELSE "closed")
                /\ UNCHANGED <<at, command>>
    /\ UNCHANGED <<next_generation, target, policy, command_sequence, first_positive,
                   next_sequence, windowVars, focusVars, delivering, left, running, unwinding,
                   watching, cancelled, pass, requested, panics, updates>>

\* finish_dispatch_accepted: an observation made meanwhile decides, otherwise the
\* focus is read back through the queue.
CommandAccepted ==
    /\ at = "command" /\ ~delivering
    /\ at' = "loop" /\ command' = 0
    /\ IF command \notin records
       THEN UNCHANGED <<records, status, current_generation, deliveries, observer, queueVars>>
       ELSE IF first_positive[command] # NoGain
       THEN /\ Settle({command}, IF first_positive[command].window = target[command]
                                 THEN "activated" ELSE "superseded")
            /\ UNCHANGED queueVars
       ELSE /\ status' = [status EXCEPT ![command] = "dispatched"]
            /\ IF fenced THEN UNCHANGED queueVars
               ELSE /\ queue' = Append(queue, [kind |-> "readback", window |-> target[command],
                                               generation |-> command,
                                               sequence |-> next_sequence])
                    /\ next_sequence' = next_sequence + 1
            /\ UNCHANGED <<records, current_generation, deliveries, observer>>
    /\ UNCHANGED <<next_generation, target, policy, command_sequence, first_positive,
                   windowVars, focusVars, delivering, left, running, unwinding, watching,
                   cancelled, pass, requested, panics, updates>>

\* The backend refuses the command.
CommandRefused(refusal) ==
    /\ at = "command" /\ ~delivering
    /\ at' = "loop" /\ command' = 0
    /\ Settle({command}, refusal)
    /\ UNCHANGED <<next_generation, target, policy, command_sequence, first_positive, queueVars,
                   windowVars, focusVars, delivering, left, running, unwinding, watching,
                   cancelled, pass, requested, panics, updates>>

\* The backend panics: the request is rejected and the pass ends.
CommandPanics ==
    /\ at = "command" /\ ~delivering /\ panics < MaxPanics
    /\ panics' = panics + 1 /\ command' = 0
    /\ Settle({command}, "rejected")
    /\ EndPass(TRUE)
    /\ UNCHANGED <<next_generation, target, policy, command_sequence, first_positive, queueVars,
                   windowVars, focusVars, delivering, left, running, unwinding, watching,
                   cancelled, updates>>

-----------------------------------------------------------------------------
CommandReturns ==
    CommandAccepted \/ \E refusal \in Refusals : CommandRefused(refusal)

AppStep ==
    \/ \E w \in Windows : ActivateWindow(w) \/ Quiesce(w) \/ Close(w)
    \/ \E w \in Windows, a \in BOOLEAN : CommitPolicy(w, a)
    \/ \E g \in Generations : Cancel(g)
    \/ \E o \in Observers, g \in Generations : Subscribe(o, g)
    \/ \E o \in Observers : Unsubscribe(o)
    \/ Shutdown

Passes ==
    \/ Release \/ Wake \/ TakeDelivery \/ Deliver \/ CallbackReturns \/ DeliveriesDone
    \/ Converge \/ CriticalDone \/ DrainDone \/ PopReport \/ EventReturns \/ PopReadback
    \/ PopCommand \/ InputReturns

Next ==
    \/ AppStep
    \/ \E w \in Windows \cup {NoWindow} : Focus(w)
    \/ Input \/ Borrow \/ CommandReturns \/ CommandPanics
    \/ Passes

Spec == Init /\ [][Next]_activationVars

\* The main thread keeps running, a command returns however often it pumps callbacks,
\* and an idle application is updated again some day.
LiveSpec ==
    /\ Spec
    /\ WF_activationVars(Passes) /\ SF_activationVars(CommandReturns)
    /\ WF_activationVars(Borrow)

-----------------------------------------------------------------------------
(* Properties *)

\* Activated is only ever said of a window that had the native focus after its command
\* was queued, and Superseded only when another request or another window came later.
TerminalHasEvidence ==
    \A g \in Generations :
        /\ status[g] = "activated" => target[g] \in gained[g]
        /\ status[g] = "superseded" =>
              next_generation > g \/ gained[g] \ {target[g]} # {}

\* A request that has not settled will: it has its record, its command is queued or
\* running or answered, and it is the current one or is about to settle.  Its window is
\* open, has its interaction authority and has committed no other activation policy.
PendingIsOwned ==
    \A g \in Generations :
        /\ status[g] \in Pending =>
              /\ g \in records
              /\ status[g] = "queued" => \E i \in 1 .. Len(queue) :
                    queue[i].kind = "activate" /\ queue[i].generation = g
              /\ status[g] = "dispatching" => command = g
              /\ g # current_generation => status[g] = "dispatching" /\ first_positive[g] # NoGain
        /\ g \in records =>
              /\ target[g] \in admitted /\ accepts_activation[target[g]]
              /\ policy[g] = policy_generation[target[g]]

\* Once the Subscription is dropped the observer is not called, and it is only
\* called when its ticket is terminal.
CallsAreWanted ==
    [][\A o \in Observers : observer'[o] = "called" /\ observer[o] # "called" =>
          o \notin cancelled /\ status[watching[o]] \in Terminals]_activationVars

\* The observer of a ticket that settled is called, however the settlement, the
\* subscription and the deliveries interleave, or finds its Subscription dropped.
SettledIsObserved ==
    \A o \in Observers :
        (observer[o] \in {"waiting", "scheduled"} /\ status[watching[o]] \in Terminals)
            ~> observer[o] \in {"called", "skipped"}
=============================================================================

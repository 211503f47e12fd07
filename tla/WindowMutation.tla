---------------------------- MODULE WindowMutation ----------------------------
(***************************************************************************)
(* crates/gpui/src/window_platform_mutation.rs and its caller window.rs:   *)
(* requests to change an open window (placement, pointer input, activation *)
(* policy, alpha, topmost, taskbar).  Each request is a generation of its  *)
(* conflict domain and gets a ticket that settles once.  The backend       *)
(* answers later, through the queue of native events, so an answer may     *)
(* find a newer generation, a revoked authority or a closed window.        *)
(*                                                                         *)
(* A fact of a domain is a Boolean: the placement of a window is only      *)
(* compared with the request, as the flags are.                            *)
(***************************************************************************)
EXTENDS Naturals, FiniteSets, Sequences

CONSTANTS
    Domains,        \* conflict domains
    Gated,          \* PointerInput and ActivationPolicy: interaction authority
    Live,           \* domains the backend can change on an open window
    Refusals,       \* what a backend answers when it does not do as asked
    MaxGeneration,  \* the last generation of a domain (u64::MAX in the code)
    MaxObservers,   \* bound on subscribe calls
    MaxAnswers      \* bound on the answers waiting in the native event queue

ASSUME MutationConstants ==
    /\ Gated \subseteq Domains /\ Live \subseteq Domains
    /\ Refusals \subseteq {"rejected", "unsupported", "closed"}
    /\ MaxGeneration \in Nat /\ MaxObservers \in Nat /\ MaxAnswers \in Nat

VARIABLES
    last_generation, committed_generation,
    pending,         \* generation of the pending ticket of a domain, 0 for none
    request,         \* what each ticket asked for
    terminal,        \* the outcome each ticket recorded
    facts,           \* Window::platform_facts
    removed,         \* remove_window ran
    native_closed,   \* the backend closed the window
    authority,       \* interaction authority: admitted, revoked or quiesced
    native,          \* external: the native window's own state
    work,            \* external: generation the backend is working on, 0 for none
    answers,         \* external: native event queue, oldest first
    answered,        \* history: tickets the backend reported a terminal for
    held,            \* tickets a caller holds
    watching,        \* the ticket each observer subscribed to
    observer,        \* unused, waiting, removed, called or lost
    frames           \* deliveries in progress, innermost last

windowVars == <<last_generation, committed_generation, pending, request, terminal,
                facts, removed, native_closed, authority>>
backendVars == <<native, work, answers, answered>>
ticketVars == <<held, watching, observer, frames>>
mutationVars == <<windowVars, backendVars, ticketVars>>

Generations == 1 .. MaxGeneration
Tickets == Domains \X Generations
NoTicket == <<>>
Observers == 1 .. MaxObservers
Facts == [Domains -> BOOLEAN]
Outcomes == {"none", "exact", "adjusted", "superseded", "rejected", "unsupported",
             "closed"}
Terminals == {"observed"} \cup Refusals
Answers == [domain : Domains, generation : Generations, terminal : Terminals,
            facts : Facts]

\* A delivery: the callbacks still to run, and the ticket that its request
\* returns to the caller afterwards.  "bounds": the bounds observers run first;
\* "callback": a ticket callback is running.
Frames == [stage : {"bounds", "deliver", "callback"}, left : SUBSET Observers,
           grant : Tickets \cup {NoTicket}]

Top == frames[Len(frames)]
Replace(frame) == [frames EXCEPT ![Len(frames)] = frame]

\* Code with access to the window runs at the top level and in bounds observers;
\* code with access to tickets also runs in ticket callbacks.
WindowRuns == frames # <<>> => Top.stage = "bounds"
TicketsRun == frames # <<>> => Top.stage # "deliver"

Unsettled(d) == IF pending[d] = 0 THEN {} ELSE {<<d, pending[d]>>}
WaitingOn(ts) == {o \in Observers : observer[o] = "waiting" /\ watching[o] \in ts}

-----------------------------------------------------------------------------
Init ==
    /\ last_generation = [d \in Domains |-> 0]
    /\ committed_generation = [d \in Domains |-> 0]
    /\ pending = [d \in Domains |-> 0]
    /\ request = [t \in Tickets |-> FALSE]
    /\ terminal = [t \in Tickets |-> "none"]
    /\ facts \in Facts
    /\ removed = FALSE /\ native_closed = FALSE
    /\ authority = "admitted"
    /\ native = facts
    /\ work = [d \in Domains |-> 0]
    /\ answers = <<>> /\ answered = {}
    /\ held = {}
    /\ watching = [o \in Observers |-> NoTicket]
    /\ observer = [o \in Observers |-> "unused"]
    /\ frames = <<>>

\* WindowMutationTicket::settle for the tickets ts: a ticket that has a terminal
\* observation keeps it.
Settle(ts, outcome) ==
    [t \in Tickets |-> IF t \in ts /\ terminal[t] = "none" THEN outcome ELSE terminal[t]]

Matches(d, value, committed) == committed[d] = value

\* Mutant: the snapshot is taken over as it is.
CommittedUnmasked(new) == [d \in Domains |-> IF d \in Live THEN new[d] ELSE facts[d]]

\* commit_platform_facts: domains without live support keep their value, and the
\* gated facts of a window without interaction authority are forced to false.
Committed(new) ==
    [d \in Domains |->
        IF d \in Gated /\ authority # "admitted" THEN FALSE
        ELSE IF d \in Live THEN new[d] ELSE facts[d]]

\* The outcome of a request that is not queued, and the facts after it.
DispatchOutcome(d, value, reply) ==
    IF Matches(d, value, facts) THEN <<"exact", facts>>
    ELSE IF d \notin Live THEN <<"unsupported", facts>>
    ELSE CASE reply = "queued" -> <<"none", facts>>
           [] reply = "unchanged" ->
                 <<IF Matches(d, value, Committed(native)) THEN "exact" ELSE "adjusted",
                   Committed(native)>>
           [] OTHER -> <<reply, facts>>

Replies == {"queued", "unchanged"} \cup Refusals

\* The early returns of request_window_mutation that leave no trace.
Admitted(d) ==
    /\ ~native_closed /\ ~removed
    /\ authority = "admitted" \/ d \notin Gated

\* Mutant: the pending ticket is replaced without being settled.
SupersededForgotten(d) == {}

\* The ticket begin settles as superseded.
Superseded(d) == Unsettled(d)

\* next_generation: begin refuses the request when the generations are used up.
Allocates(g) == g \in Generations

\* request_window_mutation: begin allocates the generation, supersedes the pending
\* ticket and installs the new one before the backend is asked; prepare takes the
\* older work from the backend; a reply other than queued settles the new ticket
\* at once.  The superseded ticket's callbacks run last, before the call returns.
Request(d, value, reply) ==
    LET g == last_generation[d] + 1
        result == DispatchOutcome(d, value, reply)
        queued == result[1] = "none"
    IN  /\ WindowRuns
        /\ Admitted(d)
        /\ Allocates(g)
        /\ last_generation' = [last_generation EXCEPT ![d] = g]
        /\ pending' = [pending EXCEPT ![d] = IF queued THEN g ELSE 0]
        /\ request' = [request EXCEPT ![<<d, g>>] = value]
        /\ terminal' = [Settle(Superseded(d), "superseded") EXCEPT ![<<d, g>>] = result[1]]
        /\ facts' = result[2]
        /\ work' = [work EXCEPT ![d] = IF queued THEN g ELSE 0]
        /\ frames' = Append(frames, [stage |-> "deliver", left |-> WaitingOn(Superseded(d)),
                                     grant |-> IF queued THEN <<d, g>> ELSE NoTicket])
        /\ UNCHANGED <<committed_generation, removed, native_closed, authority, native,
                       answers, answered, held, watching, observer>>

\* terminal_outcome.
TerminalOutcome(answer, value, committed) ==
    IF answer.terminal # "observed" THEN answer.terminal
    ELSE IF Matches(answer.domain, value, committed) THEN "exact" ELSE "adjusted"

\* Mutant: any answer of the domain settles its pending ticket.
IsCurrentDomain(answer) == pending[answer.domain] # 0

\* is_current_generation.
IsCurrent(answer) == pending[answer.domain] = answer.generation

\* The pending slots once the ticket of d is taken.
WithoutTicket(d) == [pending EXCEPT ![d] = 0]

\* window_mutation_observed: a stale answer changes nothing.  A current one
\* commits its facts and settles the ticket; the bounds observers run between the
\* settlement and the ticket's callbacks.
Observe ==
    LET answer == Head(answers)
        d == answer.domain
        committed == Committed(answer.facts)
    IN  /\ frames = <<>>
        /\ answers # <<>>
        /\ answers' = Tail(answers)
        /\ IF IsCurrent(answer) /\ ~removed
           THEN /\ facts' = committed
                /\ committed_generation' = [committed_generation EXCEPT ![d] = pending[d]]
                /\ pending' = WithoutTicket(d)
                /\ terminal' = Settle(Unsettled(d),
                                  TerminalOutcome(answer, request[<<d, pending[d]>>], committed))
                /\ frames' = <<[stage |-> "bounds", left |-> WaitingOn(Unsettled(d)),
                                grant |-> NoTicket]>>
           ELSE UNCHANGED <<facts, committed_generation, pending, terminal, frames>>
        /\ UNCHANGED <<last_generation, request, removed, native_closed, authority, native,
                       work, answered, held, watching, observer>>

\* Resize, move and state-change events: refresh_platform_facts re-reads the
\* backend without settling anything.
BoundsChanged ==
    /\ frames = <<>>
    /\ ~removed
    /\ facts' = Committed(native)
    /\ UNCHANGED <<last_generation, committed_generation, pending, request, terminal,
                   removed, native_closed, authority, backendVars, ticketVars>>

\* settle_all and settle_domain: invalidate_window_mutation takes the work from
\* the backend, the pending tickets settle, and their callbacks run afterwards.
SettleDomains(ds, outcome) ==
    LET ts == UNION {Unsettled(d) : d \in ds}
    IN  /\ terminal' = Settle(ts, outcome)
        /\ pending' = [d \in Domains |-> IF d \in ds THEN 0 ELSE pending[d]]
        /\ work' = [d \in Domains |-> IF d \in ds THEN 0 ELSE work[d]]
        /\ frames' = Append(frames, [stage |-> "deliver", left |-> WaitingOn(ts),
                                     grant |-> NoTicket])

\* remove_window, finish_remove_window included.
RemoveWindow ==
    /\ WindowRuns
    /\ ~removed
    /\ removed' = TRUE
    /\ authority' = IF authority = "admitted" THEN "revoked" ELSE authority
    /\ SettleDomains(Domains, "closed")
    /\ UNCHANGED <<last_generation, committed_generation, request, facts, native_closed,
                   native, answers, answered, held, watching, observer>>

\* quiesce_interaction, its one-shot cleanup included.
QuiesceInteraction ==
    /\ WindowRuns
    /\ ~removed
    /\ authority # "quiesced"
    /\ authority' = "quiesced"
    /\ SettleDomains(Gated, "rejected")
    /\ facts' = [d \in Domains |-> IF d \in Gated THEN FALSE ELSE facts[d]]
    /\ UNCHANGED <<last_generation, committed_generation, request, removed, native_closed,
                   native, answers, answered, held, watching, observer>>

\* The bounds observers returned: the ticket's callbacks are next.
BoundsDone ==
    /\ frames # <<>> /\ Top.stage = "bounds"
    /\ frames' = Replace([stage |-> "deliver", left |-> Top.left, grant |-> Top.grant])
    /\ UNCHANGED <<windowVars, backendVars, held, watching, observer>>

\* A bounds observer panicked: the unwinding frees the callbacks not yet run.
BoundsPanic ==
    /\ frames # <<>> /\ Top.stage = "bounds"
    /\ frames' = SubSeq(frames, 1, Len(frames) - 1)
    /\ observer' = [o \in Observers |-> IF o \in Top.left THEN "lost" ELSE observer[o]]
    /\ UNCHANGED <<windowVars, backendVars, held, watching>>

\* Mutant: the first panic ends the delivery.
CallbackEndsStops(panics) ==
    /\ frames # <<>> /\ Top.stage = "callback"
    /\ frames' = Replace([stage |-> "deliver", left |-> IF panics THEN {} ELSE Top.left,
                          grant |-> IF panics THEN NoTicket ELSE Top.grant])
    /\ UNCHANGED <<windowVars, backendVars, held, watching, observer>>

\* A callback returned or panicked; deliver goes on with the others and resumes
\* the panic at the end, so that a request in progress returns no ticket.
CallbackEnds(panics) ==
    /\ frames # <<>> /\ Top.stage = "callback"
    /\ frames' = Replace([stage |-> "deliver", left |-> Top.left,
                          grant |-> IF panics THEN NoTicket ELSE Top.grant])
    /\ UNCHANGED <<windowVars, backendVars, held, watching, observer>>

\* deliver: the next callback, in the order of subscription.
DeliverNext ==
    /\ frames # <<>> /\ Top.stage = "deliver"
    /\ \E o \in Top.left :
        /\ \A other \in Top.left : o <= other
        /\ frames' = Replace([stage |-> "callback", left |-> Top.left \ {o},
                              grant |-> Top.grant])
        /\ observer' = [observer EXCEPT ![o] = "called"]
    /\ UNCHANGED <<windowVars, backendVars, held, watching>>

DeliveryEnds ==
    /\ frames # <<>> /\ Top.stage = "deliver" /\ Top.left = {}
    /\ frames' = SubSeq(frames, 1, Len(frames) - 1)
    /\ held' = IF Top.grant = NoTicket THEN held ELSE held \cup {Top.grant}
    /\ UNCHANGED <<windowVars, backendVars, watching, observer>>

\* WindowMutationTicket::subscribe: on a settled ticket the callback runs at once.
Subscribe(t) ==
    /\ TicketsRun
    /\ t \in held
    /\ \E o \in Observers :
        /\ observer[o] = "unused" /\ \A other \in 1 .. o - 1 : observer[other] # "unused"
        /\ watching' = [watching EXCEPT ![o] = t]
        /\ observer' = [observer EXCEPT
                           ![o] = IF terminal[t] = "none" THEN "waiting" ELSE "called"]
    /\ UNCHANGED <<windowVars, backendVars, held, frames>>

\* Dropping the Subscription takes the callback out of the ticket's observers, if
\* the settlement has not taken them all.
Cancel(o) ==
    /\ TicketsRun
    /\ observer[o] = "waiting" /\ terminal[watching[o]] = "none"
    /\ observer' = [observer EXCEPT ![o] = "removed"]
    /\ UNCHANGED <<windowVars, backendVars, held, watching, frames>>

-----------------------------------------------------------------------------
\* External: the backend finishes its work with a snapshot of the native window,
\* changed as asked, changed otherwise or unchanged, and queues its answer.
BackendAnswers(d, outcome, value) ==
    /\ work[d] # 0
    /\ Len(answers) < MaxAnswers
    /\ native' = IF outcome = "observed" THEN [native EXCEPT ![d] = value] ELSE native
    /\ answers' = Append(answers, [domain |-> d, generation |-> work[d],
                                   terminal |-> outcome, facts |-> native'])
    /\ answered' = answered \cup {<<d, work[d]>>}
    /\ work' = [work EXCEPT ![d] = 0]
    /\ UNCHANGED <<windowVars, ticketVars>>

\* External: the user or the window manager changes the native window.
NativeChange(d) ==
    /\ native' = [native EXCEPT ![d] = ~@]
    /\ UNCHANGED <<windowVars, work, answers, answered, ticketVars>>

\* External: on_close sets the flag; the removal follows as an event of its own.
NativeClose ==
    /\ ~native_closed
    /\ native_closed' = TRUE
    /\ UNCHANGED <<last_generation, committed_generation, pending, request, terminal,
                   facts, removed, authority, backendVars, ticketVars>>

WindowNext ==
    \/ \E d \in Domains, value \in BOOLEAN, reply \in Replies : Request(d, value, reply)
    \/ Observe \/ BoundsChanged \/ RemoveWindow \/ QuiesceInteraction

DeliveryNext ==
    \/ BoundsDone \/ BoundsPanic \/ DeliverNext \/ DeliveryEnds
    \/ \E panics \in BOOLEAN : CallbackEnds(panics)

TicketNext ==
    \/ \E t \in held : Subscribe(t)
    \/ \E o \in Observers : Cancel(o)

BackendNext ==
    \/ \E d \in Domains, outcome \in Terminals, value \in BOOLEAN :
          BackendAnswers(d, outcome, value)
    \/ \E d \in Domains : NativeChange(d)
    \/ NativeClose

Next == WindowNext \/ DeliveryNext \/ TicketNext \/ BackendNext

Spec == Init /\ [][Next]_mutationVars

\* Queued native events are drained, and a delivery in progress runs to its end.
Fairness ==
    /\ WF_mutationVars(Observe)
    /\ WF_mutationVars(BoundsDone \/ DeliverNext \/ DeliveryEnds
                         \/ \E panics \in BOOLEAN : CallbackEnds(panics))

LiveSpec == Spec /\ Fairness
-----------------------------------------------------------------------------
TypeOK ==
    /\ last_generation \in [Domains -> 0 .. MaxGeneration]
    /\ committed_generation \in [Domains -> 0 .. MaxGeneration]
    /\ pending \in [Domains -> 0 .. MaxGeneration]
    /\ request \in [Tickets -> BOOLEAN]
    /\ terminal \in [Tickets -> Outcomes]
    /\ facts \in Facts /\ native \in Facts
    /\ removed \in BOOLEAN /\ native_closed \in BOOLEAN
    /\ authority \in {"admitted", "revoked", "quiesced"}
    /\ work \in [Domains -> 0 .. MaxGeneration]
    /\ answers \in Seq(Answers)
    /\ answered \subseteq Tickets /\ held \subseteq Tickets
    /\ watching \in [Observers -> Tickets \cup {NoTicket}]
    /\ observer \in [Observers -> {"unused", "waiting", "removed", "called", "lost"}]
    /\ frames \in Seq(Frames)

\* The tickets begun and not settled are exactly the pending ones, one per domain
\* and the newest of it, and none is left once the window is removed: no order of
\* requests, answers, quiescence and removal leaves a caller with a ticket that
\* can never settle, and a pending generation is newer than the committed one, which
\* settle_from_terminal_facts asserts (begin, settle_all).
UnsettledIsPending ==
    /\ \A d \in Domains, g \in Generations :
          g <= last_generation[d] /\ terminal[<<d, g>>] = "none"
              <=> g = pending[d] /\ g = last_generation[d]
    /\ \A d \in Domains : pending[d] # 0 => committed_generation[d] < pending[d]
    /\ removed => \A d \in Domains : pending[d] = 0

\* A ticket handed to a caller reports success only if the backend answered that
\* very generation, never on account of an older answer still queued
\* ("queued mutations settle only through on_window_mutation_observation").
OutcomeFromOwnAnswer ==
    \A t \in held : terminal[t] \in {"exact", "adjusted"} => t \in answered

\* Quiescence is one-way: whatever snapshots arrive later, a quiesced window never
\* again reports that it accepts pointer input or activation, and nothing is
\* pending that could grant it.
QuiescedStaysQuiet ==
    authority = "quiesced" => \A d \in Gated : ~facts[d] /\ pending[d] = 0

\* An observer of a ticket that is settled, or whose answer is queued, is called, unless
\* it cancels or the panic of a bounds observer frees it: no settlement, subscription or
\* panicking sibling callback in between forgets it (subscribe, settle, deliver).
AnswerReachesObserver ==
    \A o \in Observers :
        (observer[o] = "waiting"
           /\ (watching[o] \in answered \/ terminal[watching[o]] # "none"))
            ~> (observer[o] # "waiting")
===============================================================================

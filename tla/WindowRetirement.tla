-------------------------- MODULE WindowRetirement --------------------------
(***************************************************************************)
(* crates/gpui/src/app/cell.rs: the barriers that keep the application     *)
(* alive until the platform has really let go.  A pointer-capture release  *)
(* has a barrier from its reservation until the platform released the      *)
(* pointer, the retries are used up, or the native window is gone; a       *)
(* removed window has one until its native window is gone, and may have to *)
(* wait for the windows it is the anchor of.                               *)
(*                                                                         *)
(* Everything runs on the main thread.  `queue` is the critical part of    *)
(* the ingress (see NativeIngress): commands and events in order.  A panic *)
(* of a dispatched command is handled like a rejection.                    *)
(***************************************************************************)
EXTENDS Naturals, FiniteSets, Sequences, SequencesExt, Retain

CONSTANTS
    Windows,
    Fragile,           \* windows whose native window may go without being asked to
    Captured,          \* windows that may hold the pointer
    NoToken,
    MaxReleases,       \* bound on reserved release generations
    MaxContinuations,  \* bound on continuations of one release
    MaxRetries         \* the length of POINTER_CAPTURE_RELEASE_RETRY_DELAYS

Tokens == 1 .. MaxReleases

ASSUME RetirementConstants ==
    /\ IsFiniteSet(Windows) /\ Fragile \subseteq Windows /\ Captured \subseteq Windows
    /\ MaxReleases \in Nat /\ MaxContinuations \in Nat /\ MaxRetries \in Nat
    /\ NoToken \notin Tokens

VARIABLES
    registered,    \* windows of the application, which native queries find
    native,        \* native windows that exist
    phase,         \* WindowPresentationShutdownPhase of each window's ticket
    observed,      \* observed_native_window_terminals
    retirements,   \* native_window_retirements: the state of each barrier
    dependencies,  \* native_window_retirement_dependencies
    next_release,  \* next_pointer_capture_release_generation
    releases,      \* pointer_capture_releases
    retries,       \* pointer_capture_release_retries
    timers,        \* delayed retries of releases: token and epoch
    queue,
    delivering,    \* the completion whose continuations are running, or NoToken
    hand,          \* continuations it has taken and not called yet
    attached, called,  \* history: continuations given to a release, and called
    required,      \* history: the dependencies an anchor was made to wait for
    orphaned       \* history: retirements whose owner a panic destroyed

windowVars == <<registered, native, phase, observed, retirements, dependencies, required,
                orphaned>>
releaseVars == <<next_release, releases, retries, timers>>
deliveryVars == <<delivering, hand, attached, called>>
retirementVars == <<windowVars, releaseVars, queue, deliveryVars>>

Barriers == [window : Windows, drag : BOOLEAN,
             state : {"logical", "queued", "retry", "native", "completion", "delivering"},
             terminal : {"none", "not_required", "released", "failed", "native_terminal"},
             attempts : 0 .. MaxRetries + 1, continuations : 0 .. MaxContinuations]
Items == [kind : {"release", "completion"}, id : Tokens]
             \cup [kind : {"retire", "closed"}, id : Windows]

TypeOK ==
    /\ registered \subseteq Windows /\ native \subseteq Windows
    /\ phase \in [Windows -> {"claimed", "quiesced", "terminal", "before_quiesce"}]
    /\ observed \subseteq Windows
    /\ DOMAIN retirements \subseteq Windows
    /\ \A w \in DOMAIN retirements : retirements[w] \in {"waiting", "queued", "retry", "awaiting"}
    /\ dependencies \in [Windows -> SUBSET Windows]
    /\ required \in [Windows -> SUBSET Windows] /\ orphaned \subseteq Windows
    /\ next_release \in 1 .. MaxReleases + 1
    /\ DOMAIN releases \subseteq Tokens /\ \A t \in DOMAIN releases : releases[t] \in Barriers
    /\ retries \in Seq(Tokens) /\ timers \subseteq Tokens \X (1 .. MaxRetries)
    /\ queue \in Seq(Items)
    /\ delivering \in Tokens \cup {NoToken} /\ hand \in 0 .. MaxContinuations
    /\ attached \in [Tokens -> 0 .. MaxContinuations]
    /\ called \in [Tokens -> 0 .. MaxContinuations]

Init ==
    /\ registered = Windows /\ native = Windows
    /\ phase = [w \in Windows |-> "claimed"] /\ observed = {}
    /\ retirements = <<>>
    /\ dependencies = [w \in Windows |-> {}] /\ required = [w \in Windows |-> {}]
    /\ orphaned = {}
    /\ next_release = 1 /\ releases = <<>> /\ retries = <<>> /\ timers = {}
    /\ queue = <<>> /\ delivering = NoToken /\ hand = 0
    /\ attached = [t \in Tokens |-> 0] /\ called = [t \in Tokens |-> 0]

Item(kind, id) == [kind |-> kind, id |-> id]
Without(map, keys) == Restrict(map, DOMAIN map \ keys)
With(map, key, value) ==
    [k \in DOMAIN map \cup {key} |-> IF k = key THEN value ELSE map[k]]

-----------------------------------------------------------------------------
(* Release barriers.                                                         *)

ReleasesOf(w) == {t \in DOMAIN releases : releases[t].window = w}
InState(ts, states) == {t \in ts : releases[t].state \in states}
Drags(ts) == {t \in ts : releases[t].drag}

\* Mutant: the terminal that was queued first stays.
FirstTerminalStays(b, terminal) == b.terminal

\* The terminal a queued completion keeps: only the end of the native window outranks it.
Outranked(b, terminal) == IF terminal = "native_terminal" THEN terminal ELSE b.terminal

\* complete_native_pointer_capture_release of the tokens ts, between what is queued before
\* and after it.  A plain release is over, one of a captured drag owes its continuations.
Complete(ts, terminal, before, after) ==
    LET over == ts \ Drags(ts)
        due == InState(Drags(ts), {"logical", "queued", "retry", "native"})
    IN  /\ releases' = [t \in DOMAIN releases \ over |->
                LET b == releases[t] IN
                IF t \in due THEN [b EXCEPT !.state = "completion", !.terminal = terminal]
                ELSE IF t \in ts /\ b.state = "completion"
                THEN [b EXCEPT !.terminal = Outranked(b, terminal)]
                ELSE b]
        /\ queue' = before \o SetToSeq({Item("completion", t) : t \in due}) \o after
        /\ retries' = Kept(retries, Tokens \ (over \cup due))

\* reserve_native_pointer_capture_release, and with a continuation
\* reserve_native_captured_drag_release, which has to call it even when the window is gone.
Reserve(w, drag, continued) ==
    LET t == next_release
        b == [window |-> w, drag |-> drag, state |-> "logical", terminal |-> "none",
              attempts |-> 0, continuations |-> IF continued THEN 1 ELSE 0]
    IN  /\ next_release <= MaxReleases /\ w \in Captured /\ (continued => drag)
        /\ next_release' = next_release + 1
        /\ attached' = [attached EXCEPT ![t] = b.continuations]
        /\ IF w \notin observed
           THEN releases' = With(releases, t, b) /\ UNCHANGED queue
           ELSE IF continued
           THEN /\ releases' = With(releases, t, [b EXCEPT !.state = "completion",
                                                          !.terminal = "native_terminal"])
                /\ queue' = Append(queue, Item("completion", t))
           ELSE UNCHANGED <<releases, queue>>
        /\ UNCHANGED <<windowVars, retries, timers, delivering, hand, called>>

\* attach_native_captured_drag_release_continuation
Attach(t) ==
    /\ t \in DOMAIN releases /\ releases[t].drag /\ attached[t] < MaxContinuations
    /\ releases' = [releases EXCEPT ![t].continuations = @ + 1]
    /\ attached' = [attached EXCEPT ![t] = @ + 1]
    /\ UNCHANGED <<windowVars, next_release, retries, timers, queue, delivering, hand, called>>

\* settle_native_pointer_capture_release, when a window flushes its pointer cancellations.
SettleRelease(t, needed) ==
    /\ t \in DOMAIN releases
    /\ releases[t].window \in registered /\ releases[t].state = "logical"
    /\ IF ~needed THEN Complete({t}, "not_required", queue, <<>>)
       ELSE IF releases[t].window \in observed THEN Complete({t}, "native_terminal", queue, <<>>)
       ELSE /\ releases' = [releases EXCEPT ![t].state = "queued"]
            /\ queue' = Append(queue, Item("release", t))
            /\ UNCHANGED retries
    /\ UNCHANGED <<windowVars, next_release, timers, deliveryVars>>

\* abandon_native_pointer_capture_release, when the window of a drag is already removed.
Abandon(t) ==
    /\ t \in DOMAIN releases
    /\ releases[t].window \notin registered /\ releases[t].state = "logical"
    /\ IF releases[t].window \in observed THEN Complete({t}, "native_terminal", queue, <<>>)
       ELSE /\ releases' = [releases EXCEPT ![t].state = "native"]
            /\ UNCHANGED <<queue, retries>>
    /\ UNCHANGED <<windowVars, next_release, timers, deliveryVars>>

\* defer_native_pointer_capture_release_retry
Defer(t, rest) ==
    LET epoch == releases[t].attempts + 1 IN
    IF epoch <= MaxRetries
    THEN /\ releases' = [releases EXCEPT ![t].state = "retry", ![t].attempts = epoch]
         /\ retries' = Append(retries, t) /\ queue' = rest
         /\ timers' = timers \cup {<<t, epoch>>}
    ELSE Complete({t}, "failed", rest, <<>>) /\ UNCHANGED timers

\* The commands of the releases that are due, in the order in which they wait.
Dispatched(due) ==
    LET again == Kept(retries, due)
    IN  [i \in 1 .. Len(again) |-> Item("release", again[i])]

\* Mutant: what a trigger does not dispatch is not kept.
RetryForgets(matching, due, rest) ==
    /\ releases' = [t \in DOMAIN releases |->
                        IF t \in due THEN [releases[t] EXCEPT !.state = "queued"]
                        ELSE releases[t]]
    /\ queue' = rest \o Dispatched(due)
    /\ retries' = Kept(retries, Tokens \ matching)

\* retry_pending_pointer_capture_releases: of the retries the trigger matches, those that
\* are due are dispatched and the others are kept while their barrier waits for a retry.
Retry(matching, due, rest) ==
    /\ releases' = [t \in DOMAIN releases |->
                        IF t \in due THEN [releases[t] EXCEPT !.state = "queued"]
                        ELSE releases[t]]
    /\ queue' = rest \o Dispatched(due)
    /\ retries' = Kept(retries, (Tokens \ matching)
                                  \cup (InState(DOMAIN releases, {"retry"}) \ due))

\* The delayed trigger: only the newest epoch dispatches.
RetryTimer(t, epoch) ==
    /\ <<t, epoch>> \in timers
    /\ timers' = timers \ {<<t, epoch>>}
    /\ Retry({t}, {u \in InState(DOMAIN releases, {"retry"}) :
                        u = t /\ releases[u].attempts = epoch}, queue)
    /\ UNCHANGED <<windowVars, next_release, deliveryVars>>

RetryProgress(w, rest) ==
    Retry(ReleasesOf(w), InState(ReleasesOf(w), {"retry"}), rest)

\* An event of the window that permits a retry: activation, hover, a close request.
Progress(w) ==
    /\ w \in native /\ InState(ReleasesOf(w), {"retry"}) # {}
    /\ RetryProgress(w, queue)
    /\ UNCHANGED <<windowVars, next_release, timers, deliveryVars>>

-----------------------------------------------------------------------------
(* Retirement barriers.                                                      *)

\* Mutant: a window may anchor a window that, through others, anchors it.
ReachesDirectly(from, to) == from = to

\* native_retirement_dependency_reaches
Reaches(from, to) ==
    \E path \in BoundedSeq(Windows, Cardinality(Windows)) :
        /\ path # <<>> /\ path[1] = from /\ path[Len(path)] = to
        /\ \A i \in 1 .. Len(path) - 1 : path[i + 1] \in dependencies[path[i]]

\* register_native_window_retirement_dependencies; an error changes nothing.
Register(anchor, windows) ==
    LET alive == windows \ observed IN
    /\ anchor \in registered /\ anchor \notin DOMAIN retirements
    /\ alive # {} /\ alive \subseteq registered \cup DOMAIN retirements
    /\ \A w \in alive : ~Reaches(w, anchor)
    /\ dependencies' = [dependencies EXCEPT ![anchor] = @ \cup alive]
    /\ required' = [required EXCEPT ![anchor] = @ \cup alive]
    /\ UNCHANGED <<registered, native, phase, observed, retirements, orphaned, releaseVars,
                   queue, deliveryVars>>

\* Anchors that wait and may go on are queued.
GoOn(barriers, anchors) ==
    [w \in DOMAIN barriers |->
        IF w \in anchors /\ barriers[w] = "waiting" THEN "queued" ELSE barriers[w]]
RetireItems(barriers, anchors) ==
    SetToSeq({Item("retire", w) : w \in {a \in anchors \cap DOMAIN barriers :
                                              barriers[a] = "waiting"}})

\* cancel_native_window_retirement_dependencies
CancelDependencies(anchor) ==
    /\ dependencies[anchor] # {}
    /\ dependencies' = [dependencies EXCEPT ![anchor] = {}]
    /\ required' = [required EXCEPT ![anchor] = {}]
    /\ retirements' = GoOn(retirements, {anchor})
    /\ queue' = queue \o RetireItems(retirements, {anchor})
    /\ UNCHANGED <<registered, native, phase, observed, orphaned, releaseVars, deliveryVars>>

\* Mutant: the dependencies are looked at when they are registered only.
FirstStateQueued(w) == "queued"

\* enqueue_window_retirement: the state of the new barrier.
FirstState(w) == IF dependencies[w] # {} THEN "waiting" ELSE "queued"

\* Window::remove_window and finish_window_update: enqueue_window_retirement.
RemoveWindow(w) ==
    /\ w \in registered
    /\ registered' = registered \ {w}
    /\ retirements' = With(retirements, w, FirstState(w))
    /\ LET rest == IF FirstState(w) = "queued" THEN Append(queue, Item("retire", w)) ELSE queue
       IN  IF w \in observed THEN Complete(ReleasesOf(w), "native_terminal", rest, <<>>)
           ELSE /\ releases' = [t \in DOMAIN releases |->
                        IF t \in InState(ReleasesOf(w), {"logical"})
                        THEN [releases[t] EXCEPT !.state = "native"] ELSE releases[t]]
                /\ queue' = rest /\ UNCHANGED retries
    /\ UNCHANGED <<native, phase, observed, dependencies, required, orphaned, next_release,
                   timers, deliveryVars>>

\* WindowPresentationShutdownTicket::acknowledge_quiesced
Quiesced(p) == IF p = "claimed" THEN "quiesced" ELSE p

\* WindowPresentationShutdownTicket::acknowledge_native_terminal
Acknowledged(p) == IF p \in {"quiesced", "terminal"} THEN "terminal" ELSE "before_quiesce"

\* release_native_window_retirement_dependencies: anchors that waited for w alone.
Ready(w) == {a \in Windows \ {w} : dependencies[a] = {w}}

\* settle_native_window_terminal acknowledges the terminal on the ticket of the barrier,
\* which was in phase p.
AcknowledgeTerminal(w, p, barriers) ==
    phase' = IF w \in barriers THEN [phase EXCEPT ![w] = Acknowledged(p)] ELSE phase

\* settle_native_window_terminal.  Whether the ticket acknowledges the terminal or reports
\* a protocol violation, the barrier goes.
SettleTerminal(w, barriers, rest) ==
    /\ observed' = observed \cup {w}
    /\ dependencies' = [a \in Windows |-> IF a = w THEN {} ELSE dependencies[a] \ {w}]
    /\ retirements' = GoOn(Without(barriers, {w}), Ready(w))
    /\ Complete(ReleasesOf(w), "native_terminal", rest,
                RetireItems(Without(barriers, {w}), Ready(w)))

Awaiting(w) == w \in DOMAIN retirements /\ retirements[w] = "awaiting"

\* The native window goes: by itself, or because its retirement was accepted.  Some
\* backends acknowledge the terminal on the ticket at once.
NativeDestroy(w) ==
    /\ w \in native /\ (w \in Fragile \/ Awaiting(w))
    /\ native' = native \ {w}
    /\ \E p \in {phase[w], Acknowledged(phase[w])} : phase' = [phase EXCEPT ![w] = p]
    /\ RetryProgress(w, Append(queue, Item("closed", w)))
    /\ UNCHANGED <<registered, observed, retirements, dependencies, required, orphaned,
                   next_release, timers, deliveryVars>>

\* The retry delay of a retirement is over: retry_native_window_retirement.
RetireTimer(w) ==
    /\ w \in DOMAIN retirements /\ retirements[w] = "retry"
    /\ retirements' = [retirements EXCEPT ![w] = "queued"]
    /\ queue' = Append(queue, Item("retire", w))
    /\ UNCHANGED <<registered, native, phase, observed, dependencies, required, orphaned,
                   releaseVars, deliveryVars>>

-----------------------------------------------------------------------------
(* The drain: drain_native_work pops one item at a time, in order.           *)

IsNext(kind, id) ==
    delivering = NoToken /\ queue # <<>> /\ Head(queue) = Item(kind, id)

\* NativeWindowEvent::Closed removes the window and settles its terminal.
DeliverClosed(w) ==
    /\ IsNext("closed", w)
    /\ registered' = registered \ {w}
    /\ IF w \in registered
       THEN /\ SettleTerminal(w, With(retirements, w, FirstState(w)),
                   IF FirstState(w) = "queued" THEN Append(Tail(queue), Item("retire", w))
                   ELSE Tail(queue))
            /\ AcknowledgeTerminal(w, phase[w], {w})
       ELSE /\ SettleTerminal(w, retirements, Tail(queue))
            /\ AcknowledgeTerminal(w, phase[w], DOMAIN retirements)
    /\ UNCHANGED <<native, required, orphaned, next_release, timers, deliveryVars>>

\* Work whose barrier has moved on.
Stale ==
    /\ delivering = NoToken /\ queue # <<>>
    /\ LET item == Head(queue) IN
       \/ /\ item.kind = "release"
          /\ item.id \notin InState(DOMAIN releases, {"queued"})
       \/ /\ item.kind = "completion"
          /\ item.id \notin InState(DOMAIN releases, {"completion"})
       \/ /\ item.kind = "retire"
          /\ ~(item.id \in DOMAIN retirements /\ retirements[item.id] = "queued")
    /\ queue' = Tail(queue)
    /\ UNCHANGED <<windowVars, releaseVars, deliveryVars>>

ReleaseDispatched(t) ==
    IsNext("release", t) /\ t \in InState(DOMAIN releases, {"queued"})

\* The platform released the pointer.
Released(t) ==
    /\ ReleaseDispatched(t)
    /\ Complete({t}, "released", Tail(queue), <<>>)
    /\ UNCHANGED <<windowVars, next_release, timers, deliveryVars>>

\* The native window of the pointer is gone.
ReleaseFindsTerminal(t) ==
    /\ ReleaseDispatched(t) /\ releases[t].window \notin native
    /\ SettleTerminal(releases[t].window, retirements, Tail(queue))
    /\ AcknowledgeTerminal(releases[t].window, phase[releases[t].window], DOMAIN retirements)
    /\ UNCHANGED <<registered, native, required, orphaned, next_release, timers, deliveryVars>>

\* The platform rejected the release, or panicked.
ReleaseRejected(t) ==
    /\ ReleaseDispatched(t)
    /\ Defer(t, Tail(queue))
    /\ UNCHANGED <<windowVars, next_release, deliveryVars>>

\* begin_native_captured_drag_release_completion
BeginCompletion(t) ==
    /\ IsNext("completion", t) /\ t \in InState(DOMAIN releases, {"completion"})
    /\ queue' = Tail(queue) /\ delivering' = t
    /\ releases' = [releases EXCEPT ![t].state = "delivering"]
    /\ UNCHANGED <<windowVars, next_release, retries, timers, hand, attached, called>>

\* take_native_captured_drag_release_continuations
TakeContinuations ==
    /\ delivering # NoToken /\ hand = 0 /\ releases[delivering].continuations > 0
    /\ hand' = releases[delivering].continuations
    /\ releases' = [releases EXCEPT ![delivering].continuations = 0]
    /\ UNCHANGED <<windowVars, next_release, retries, timers, queue, delivering, attached,
                   called>>

\* The continuation at the front of the hand returns, or panics.
CallContinuation ==
    /\ hand > 0
    /\ hand' = hand - 1
    /\ called' = [called EXCEPT ![delivering] = @ + 1]
    /\ UNCHANGED <<windowVars, releaseVars, queue, delivering, attached>>

Drained == hand = 0 /\ releases[delivering].continuations = 0

\* finish_native_captured_drag_release_completion
FinishCompletion ==
    /\ delivering # NoToken /\ Drained
    /\ releases' = Without(releases, {delivering}) /\ delivering' = NoToken
    /\ UNCHANGED <<windowVars, next_release, retries, timers, queue, hand, attached, called>>

Retiring(w) ==
    /\ IsNext("retire", w) /\ w \in DOMAIN retirements /\ retirements[w] = "queued"
    /\ UNCHANGED <<registered, native, required, next_release, timers, deliveryVars>>

\* NativeWindowRetirement::retire: the presentation is quiesced first.
Quiesces(w) == phase[w] # "before_quiesce"

\* The platform accepted: the native window goes later, unless it is known to be gone.
RetireAccepted(w) ==
    /\ Retiring(w) /\ Quiesces(w)
    /\ IF w \in observed
       THEN /\ SettleTerminal(w, retirements, Tail(queue))
            /\ AcknowledgeTerminal(w, Quiesced(phase[w]), {w})
       ELSE /\ phase' = [phase EXCEPT ![w] = Quiesced(@)]
            /\ retirements' = [retirements EXCEPT ![w] = "awaiting"]
            /\ queue' = Tail(queue)
            /\ UNCHANGED <<observed, dependencies, releases, retries>>
    /\ UNCHANGED orphaned

\* The platform says that the native window is gone.
RetireFindsTerminal(w) ==
    /\ Retiring(w) /\ Quiesces(w) /\ w \notin native
    /\ SettleTerminal(w, retirements, Tail(queue))
    /\ AcknowledgeTerminal(w, Quiesced(phase[w]), {w})
    /\ UNCHANGED orphaned

\* defer_native_window_retirement_retry: the presentation or the platform refused, or
\* the attempt panicked and the owner is still there.
RetireRejected(w) ==
    /\ Retiring(w)
    /\ \E p \in {phase[w], Quiesced(phase[w])} : phase' = [phase EXCEPT ![w] = p]
    /\ retirements' = [retirements EXCEPT ![w] = "retry"]
    /\ queue' = Tail(queue)
    /\ UNCHANGED <<observed, dependencies, releases, retries, orphaned>>

\* The owner panicked when it was dropped, after the platform had accepted.
RetirePanics(w) ==
    /\ Retiring(w) /\ Quiesces(w)
    /\ phase' = [phase EXCEPT ![w] = Quiesced(@)]
    /\ retirements' = [retirements EXCEPT ![w] = "awaiting"]
    /\ orphaned' = orphaned \cup {w}
    /\ queue' = Tail(queue)
    /\ UNCHANGED <<observed, dependencies, releases, retries>>

\* Code of the application runs between two items and inside a continuation.
Application ==
  /\ delivering = NoToken \/ hand > 0
  /\ \/ \E w \in Windows :
            \/ \E drag, continued \in BOOLEAN : Reserve(w, drag, continued)
            \/ \E windows \in SUBSET Windows : Register(w, windows)
            \/ CancelDependencies(w) \/ RemoveWindow(w)
     \/ \E t \in Tokens :
            Attach(t) \/ Abandon(t) \/ \E needed \in BOOLEAN : SettleRelease(t, needed)

Drain ==
    \/ Stale \/ TakeContinuations \/ CallContinuation \/ FinishCompletion
    \/ \E w \in Windows : DeliverClosed(w) \/ RetireAccepted(w) \/ RetireFindsTerminal(w)
                              \/ RetireRejected(w) \/ RetirePanics(w)
    \/ \E t \in Tokens : Released(t) \/ ReleaseFindsTerminal(t) \/ ReleaseRejected(t)
                              \/ BeginCompletion(t)

Next ==
    \/ Application \/ Drain
    \/ \E w \in Windows : NativeDestroy(w) \/ Progress(w) \/ RetireTimer(w)
    \/ \E t \in Tokens, epoch \in 1 .. MaxRetries : RetryTimer(t, epoch)

Spec == Init /\ [][Next]_retirementVars

\* The queue is drained, timers fire, an open pointer cancellation is flushed, a platform
\* that accepted a retirement destroys the window, and it does not reject for ever.
Fairness ==
    /\ WF_retirementVars(Drain)
    /\ WF_retirementVars(\E t \in Tokens, epoch \in 1 .. MaxRetries : RetryTimer(t, epoch))
    /\ \A t \in Tokens :
        WF_retirementVars(Abandon(t) \/ SettleRelease(t, TRUE) \/ SettleRelease(t, FALSE))
    /\ \A w \in Windows :
        /\ WF_retirementVars(RetireTimer(w))
        /\ SF_retirementVars(RetireAccepted(w))
        /\ WF_retirementVars(Awaiting(w) /\ NativeDestroy(w))

LiveSpec == Spec /\ Fairness

-----------------------------------------------------------------------------

Queued(kind, id) == Cardinality({i \in DOMAIN queue : queue[i] = Item(kind, id)})

\* Whoever has to move a barrier on exists, whatever timer, event, terminal, attachment or
\* cancellation moved it last: a queued barrier has its item, a retry its timer and its
\* command, a completion its item, and a window that waits for dependencies has some.
BarriersHaveOwners ==
    /\ \A t \in DOMAIN releases :
        LET b == releases[t] IN
        /\ b.state = "queued" => Queued("release", t) > 0
        /\ b.state = "retry" => <<t, b.attempts>> \in timers
                                /\ Cardinality({i \in DOMAIN retries : retries[i] = t}) = 1
        /\ b.state = "completion" => Queued("completion", t) = 1
        /\ b.state = "delivering" <=> delivering = t
        /\ b.state = "native" => b.window \in DOMAIN retirements
    /\ \A w \in DOMAIN retirements :
        /\ retirements[w] = "queued" => Queued("retire", w) > 0
        /\ retirements[w] = "waiting" <=> dependencies[w] # {}

\* A native window that is not known to be gone is offered to the platform for destruction
\* only when every window it was made to wait for has been seen to be gone.
DependenciesFirst ==
    \A w \in DOMAIN retirements \ observed :
        retirements[w] # "waiting" => required[w] \subseteq observed

\* The continuations of a drag that are called after its native window was seen to be gone
\* are told so, whatever outcome the release had before.
TerminalIsNews ==
    \A t \in DOMAIN releases :
        releases[t].state = "completion" /\ releases[t].window \in observed
            => releases[t].terminal = "native_terminal"

\* A retirement whose owner a panic destroyed after its terminal had been seen: nothing
\* settles it any more.
Stranded == \E w \in DOMAIN retirements : w \in orphaned \cap observed

\* The release of a window that stays ends.  Once the application has removed its windows,
\* every barrier goes, anchors that wait for one another included, and each continuation
\* has been called.
BarriersSettle ==
    /\ \A t \in Tokens : []<>(t \in DOMAIN releases => releases[t].window \notin registered)
    /\ registered = {} ~> \/ DOMAIN releases = {} /\ DOMAIN retirements = {} /\ called = attached
                          \/ Stranded
=============================================================================

---------------------------- MODULE NativeIngress ----------------------------
(***************************************************************************)
(* crates/gpui/src/app/native_event_ingress.rs and the parts of cell.rs    *)
(* that run it: the one queue through which native callbacks, platform     *)
(* commands and accessibility requests reach the application, and the      *)
(* convergence that the end of an App borrow starts.                       *)
(*                                                                         *)
(* Everything but the accessibility thread runs on the main thread, but    *)
(* re-enters itself: code of the application and of the platform may pump  *)
(* native callbacks and foreground tasks.  The call stack is `stack`, a    *)
(* frame per call that is in progress, and `unwinding` is a panic on its   *)
(* way down.  The generations of drains and wakes are not modelled as      *)
(* numbers: a wake whose ticket was taken is counted in `stale`.           *)
(***************************************************************************)
EXTENDS Naturals, FiniteSets, Sequences, SequencesExt, Retain

CONSTANTS
    Kinds,        \* kinds of work the environment enqueues
    Budget,       \* MAX_NATIVE_WORK_PER_DRAIN
    MaxSequence,  \* bound on reserved sequences
    MaxUnwinds,   \* bound on panics of application code and commands
    MaxBorrows,   \* bound on updates and critical callbacks
    MaxDepth      \* bound on the call stack

ASSUME IngressConstants ==
    /\ Kinds \subseteq {"event", "frame", "command", "completion"}
    /\ Budget \in Nat \ {0} /\ MaxSequence \in Nat /\ MaxUnwinds \in Nat
    /\ MaxBorrows \in Nat /\ MaxDepth \in Nat

VARIABLES
    next_sequence,
    staged,          \* staged_accessibility: sequences, oldest first
    stager,          \* the accessibility thread: "idle", or "send" after staging
    token,           \* the capacity-one channel to the importer
    pending,
    phase, remaining,
    scheduled_wake,  \* a wake holds the current ticket
    stale,           \* spawned wakes whose ticket was taken
    unwind_recovery_scheduled, post_borrow_convergence_scheduled,
    requested,       \* post_borrow_convergence_requested
    converging,      \* app_borrow_release_convergence_active
    retained,        \* retained_post_borrow_panic
    fenced, terminated,
    stack, unwinding,
    settled,         \* the disposition recorded for each sequence
    handled,         \* history: the sequence of the last handler that started
    panics, borrows

sequencerVars == <<next_sequence, staged, stager, token>>
queueVars == <<pending, phase, remaining, scheduled_wake, stale>>
releaseVars == <<unwind_recovery_scheduled, post_borrow_convergence_scheduled, requested,
                 converging, retained>>
fenceVars == <<fenced, terminated>>
stackVars == <<stack, unwinding>>
historyVars == <<settled, handled>>
boundVars == <<panics, borrows>>
ingressVars == <<sequencerVars, queueVars, releaseVars, fenceVars, stackVars, historyVars,
                 boundVars>>

Reservable == 1 .. MaxSequence
Critical == {"completion"}
Events == {"event", "frame"}
Envelopes == [sequence : Reservable, kind : {"event", "frame", "command", "completion"}]

\* A call in progress.  `sequence` is the work it handles, the cutoff of an input, or
\* the budget of a convergence; `flag` is the root of an input barrier, the shared
\* budget of a drain, or a panic a convergence holds.
Frames == [kind : {"borrow", "critical", "deliver", "command", "lease", "input", "drain",
                   "work", "released", "converge"},
           stage : {"run", "live", "stale", "none", "post", "prior", "after", "return",
                    "first", "critical", "second", "end"},
           sequence : 0 .. MaxSequence + Budget, flag : BOOLEAN]

IngressTypeOK ==
    /\ next_sequence \in 1 .. MaxSequence + 1
    /\ staged \in Seq(Reservable) /\ stager \in {"idle", "send"} /\ token \in BOOLEAN
    /\ pending \in Seq(Envelopes)
    /\ phase \in {"idle", "blocked", "draining", "command", "input"}
    /\ remaining \in 0 .. Budget
    /\ scheduled_wake \in BOOLEAN /\ stale \in Nat
    /\ unwind_recovery_scheduled \in BOOLEAN
    /\ post_borrow_convergence_scheduled \in BOOLEAN
    /\ requested \in BOOLEAN /\ converging \in BOOLEAN /\ retained \in BOOLEAN
    /\ fenced \in BOOLEAN /\ terminated \in BOOLEAN
    /\ stack \in Seq(Frames) /\ unwinding \in BOOLEAN
    /\ settled \in [Reservable -> {"unused", "pending", "delivered", "coalesced", "closed",
                                   "failed", "rejected"}]
    /\ handled \in 0 .. MaxSequence
    /\ panics \in 0 .. MaxUnwinds /\ borrows \in 0 .. MaxBorrows

Frame(kind, stage, sequence, flag) ==
    [kind |-> kind, stage |-> stage, sequence |-> sequence, flag |-> flag]

Top == stack[Len(stack)]
TopIs(kind) == ~unwinding /\ stack # <<>> /\ Top.kind = kind
Below == Front(stack)
PushFrame(frame) == Append(stack, frame)
Replace(frame) == Append(Below, frame)
OnStack(kind) == \E i \in 1 .. Len(stack) : stack[i].kind = kind

LeaseActive == OnStack("lease")
Holding == {"borrow", "critical", "deliver"}
AppIdle == \A i \in 1 .. Len(stack) : stack[i].kind \notin Holding

\* Where native callbacks and foreground tasks may run: in the event loop, and where
\* code of the application or of the platform may call into it.
Pumping == ~unwinding /\ (stack # <<>> => Top.kind \in Holding \cup {"command", "lease"})
Nestable == Pumping /\ Len(stack) < MaxDepth

Settled(sequences, disposition) ==
    [n \in Reservable |-> IF n \in sequences THEN disposition ELSE settled[n]]
In(work) == {work[i].sequence : i \in 1 .. Len(work)}

-----------------------------------------------------------------------------
IngressInit ==
    /\ next_sequence = 1 /\ staged = <<>> /\ stager = "idle" /\ token = FALSE
    /\ pending = <<>> /\ phase = "idle" /\ remaining = 0
    /\ scheduled_wake = FALSE /\ stale = 0
    /\ unwind_recovery_scheduled = FALSE /\ post_borrow_convergence_scheduled = FALSE
    /\ requested = FALSE /\ converging = FALSE /\ retained = FALSE
    /\ fenced = FALSE /\ terminated = FALSE
    /\ stack = <<>> /\ unwinding = FALSE
    /\ settled = [n \in Reservable |-> "unused"] /\ handled = 0
    /\ panics = 0 /\ borrows = 0

-----------------------------------------------------------------------------
(* The queue *)

\* schedule_wake_if_needed, after the queue has become `work` and the phase `next`.
WakeFor(work, next) == scheduled_wake \/ (~terminated /\ work # <<>> /\ next = "idle")

\* Taking the ticket of a scheduled wake leaves a task that no longer owns the drain.
TakeWake == scheduled_wake' = FALSE /\ stale' = stale + (IF scheduled_wake THEN 1 ELSE 0)

StagedWork ==
    [i \in 1 .. Len(staged) |-> [sequence |-> staged[i], kind |-> "event"]]

\* enqueue_staged_accessibility: the fence and the end of the queue close them.
Refuses(kind) == terminated \/ (fenced /\ kind \notin Critical)
Imported == IF Refuses("event") THEN pending ELSE pending \o StagedWork
ImportSettled == IF Refuses("event") THEN Settled(Range(staged), "closed") ELSE settled

\* Mutant: a local sequence is taken without looking at the staged callbacks.
ReservedAlone == [work |-> pending, staged |-> staged, settled |-> settled]

\* reserve_sequence: the staged callbacks enter the queue before the new sequence.
Reserved == [work |-> Imported, staged |-> <<>>, settled |-> ImportSettled]

\* Coalescing with the back of the queue.
Coalesces(work, kind) == kind = "frame" /\ work # <<>> /\ Last(work).kind = "frame"

Enqueued(work, envelope) ==
    Append(IF Coalesces(work, envelope.kind) THEN Front(work) ELSE work, envelope)

\* enqueue_work for the next local sequence, behind the staged callbacks.
Accept(kind) ==
    LET n == next_sequence
        work == Reserved.work
        next == Enqueued(work, [sequence |-> n, kind |-> kind])
    IN  /\ n \in Reservable
        /\ next_sequence' = n + 1
        /\ staged' = Reserved.staged
        /\ IF Refuses(kind)
           THEN /\ pending' = work
                /\ settled' = [Reserved.settled EXCEPT ![n] = "closed"]
                /\ UNCHANGED scheduled_wake
           ELSE /\ pending' = next
                /\ settled' = [m \in Reservable |->
                                  IF m = n THEN "pending"
                                  ELSE IF Coalesces(work, kind) /\ m = Last(work).sequence
                                  THEN "coalesced"
                                  ELSE Reserved.settled[m]]
                /\ scheduled_wake' = WakeFor(next, phase)

\* A native callback or the application enqueues work; the completion of a shutdown
\* is only asked for behind the fence, and once.
Enqueue(kind) ==
    /\ Pumping
    /\ kind = "completion" => fenced /\ ~\E i \in 1 .. Len(pending) :
                                              pending[i].kind = "completion"
    /\ Accept(kind)
    /\ UNCHANGED <<stager, token, phase, remaining, stale, releaseVars, fenceVars, stackVars,
                   handled, boundVars>>

\* The accessibility thread, under the sequencer's lock.
Stage ==
    /\ stager = "idle" /\ ~terminated /\ next_sequence \in Reservable
    /\ staged' = Append(staged, next_sequence)
    /\ settled' = [settled EXCEPT ![next_sequence] = "pending"]
    /\ next_sequence' = next_sequence + 1
    /\ stager' = "send"
    /\ UNCHANGED <<token, queueVars, releaseVars, fenceVars, stackVars, handled, boundVars>>

\* wake_importer: try_send into a channel of capacity one.
Send ==
    /\ stager = "send" /\ stager' = "idle"
    /\ token' = TRUE
    /\ UNCHANGED <<next_sequence, staged, queueVars, releaseVars, fenceVars, stackVars,
                   historyVars, boundVars>>

\* The importer task, which ends with the queue.
Import ==
    /\ Pumping /\ token /\ token' = FALSE
    /\ IF terminated THEN UNCHANGED <<staged, pending, settled, scheduled_wake>>
       ELSE /\ staged' = <<>>
            /\ pending' = Imported /\ settled' = ImportSettled
            /\ scheduled_wake' = IF staged = <<>> \/ fenced THEN scheduled_wake
                                 ELSE WakeFor(Imported, phase)
    /\ UNCHANGED <<next_sequence, stager, phase, remaining, stale, releaseVars, fenceVars,
                   stackVars, handled, boundVars>>

\* begin_shutdown: only critical work stays in the queue, in its order.
BeginShutdown ==
    /\ ~unwinding /\ stack # <<>> /\ Top.kind \in Holding
    /\ ~fenced /\ ~terminated
    /\ fenced' = TRUE
    /\ pending' = Kept(pending, {e \in Envelopes : e.kind \in Critical})
    /\ settled' = Settled({e.sequence : e \in {f \in Range(pending) : f.kind \notin Critical}},
                          "closed")
    /\ UNCHANGED <<sequencerVars, phase, remaining, scheduled_wake, stale, releaseVars,
                   terminated, stackVars, handled, boundVars>>

\* terminate.
Terminate ==
    /\ terminated' = TRUE
    /\ staged' = <<>> /\ pending' = <<>>
    /\ unwind_recovery_scheduled' = FALSE

-----------------------------------------------------------------------------
(* The tasks of the foreground executor *)

RunWake ==
    /\ Nestable /\ scheduled_wake
    /\ stack' = PushFrame(Frame("work", "live", 0, FALSE))
    /\ UNCHANGED <<sequencerVars, queueVars, releaseVars, fenceVars, unwinding, historyVars,
                   boundVars>>

RunStaleWake ==
    /\ Nestable /\ stale > 0
    /\ stale' = stale - 1
    /\ stack' = PushFrame(Frame("work", "stale", 0, FALSE))
    /\ UNCHANGED <<sequencerVars, pending, phase, remaining, scheduled_wake, releaseVars,
                   fenceVars, unwinding, historyVars, boundVars>>

\* recover_native_work_after_unwind.
RunRecovery ==
    /\ Nestable /\ unwind_recovery_scheduled
    /\ unwind_recovery_scheduled' = FALSE
    /\ stack' = PushFrame(Frame("released", "run", 0, FALSE))
    /\ UNCHANGED <<sequencerVars, queueVars, post_borrow_convergence_scheduled, requested,
                   converging, retained, fenceVars, unwinding, historyVars, boundVars>>

\* run_post_borrow_convergence_from_wake.
RunConvergence ==
    /\ Nestable /\ post_borrow_convergence_scheduled
    /\ post_borrow_convergence_scheduled' = FALSE
    /\ stack' = PushFrame(Frame("released", "run", 0, FALSE))
    /\ UNCHANGED <<sequencerVars, queueVars, unwind_recovery_scheduled, requested, converging,
                   retained, fenceVars, unwinding, historyVars, boundVars>>

-----------------------------------------------------------------------------
(* Borrows of the App *)

\* An update of the application, through AppRefMut.
Borrow ==
    /\ Nestable /\ AppIdle /\ borrows < MaxBorrows
    /\ borrows' = borrows + 1
    /\ stack' = PushFrame(Frame("borrow", "run", 0, FALSE))
    /\ UNCHANGED <<sequencerVars, queueVars, releaseVars, fenceVars, unwinding, historyVars,
                   panics>>

\* Dropping the AppRefMut; the close request it delivered inline, if any, settles.
BorrowEnds ==
    /\ TopIs("borrow")
    /\ settled' = Settled({Top.sequence}, "delivered")
    /\ stack' = Replace(Frame("released", "run", 0, FALSE))
    /\ UNCHANGED <<sequencerVars, queueVars, releaseVars, fenceVars, unwinding, handled,
                   boundVars>>

\* can_deliver_inline.
DeliversInline(work) ==
    ~terminated /\ work = <<>> /\ phase = "idle" /\ ~scheduled_wake

\* dispatch_window_should_close: the request is delivered at once when nothing is
\* ahead of it, and the queue is drained behind it.
ShouldClose ==
    /\ Nestable /\ next_sequence \in Reservable
    /\ IF AppIdle /\ DeliversInline(Reserved.work)
       THEN /\ next_sequence' = next_sequence + 1
            /\ staged' = Reserved.staged /\ pending' = Reserved.work
            /\ settled' = [Reserved.settled EXCEPT ![next_sequence] = "pending"]
            /\ handled' = next_sequence
            /\ stack' = stack \o <<Frame("work", "none", 0, FALSE),
                                   Frame("borrow", "run", next_sequence, FALSE)>>
            /\ UNCHANGED scheduled_wake
       ELSE Accept("event") /\ UNCHANGED <<stack, handled>>
    /\ UNCHANGED <<stager, token, phase, remaining, stale, releaseVars, fenceVars, unwinding,
                   boundVars>>

\* app_borrow_released: not inside a lease, a borrow or another convergence.
BorrowReleased ==
    /\ TopIs("released")
    /\ IF LeaseActive \/ ~AppIdle \/ converging
       THEN /\ requested' = TRUE /\ stack' = Below
            /\ UNCHANGED <<converging, retained, phase>>
       ELSE /\ requested' = FALSE /\ converging' = TRUE /\ retained' = FALSE
            /\ phase' = IF phase = "blocked" THEN "idle" ELSE phase
            /\ stack' = Replace(Frame("converge", "first", Budget, retained))
    /\ UNCHANGED <<sequencerVars, pending, remaining, scheduled_wake, stale,
                   unwind_recovery_scheduled, post_borrow_convergence_scheduled, fenceVars,
                   unwinding, historyVars, boundVars>>

\* The stage of a convergence after one that drained native work; a panic that the
\* drain retained is merged.
NextStage == [Top EXCEPT !.stage = IF @ = "first" THEN "critical" ELSE "end",
                         !.flag = @ \/ retained]

\* A native work pass of the convergence, within the budget both passes share.
ConvergePass ==
    /\ TopIs("converge") /\ Top.stage \in {"first", "second"}
    /\ retained' = FALSE
    /\ IF Top.sequence = 0 \/ terminated \/ pending = <<>>
       THEN /\ stack' = Replace(NextStage)
            /\ UNCHANGED <<phase, remaining, scheduled_wake, stale>>
       ELSE /\ TakeWake
            /\ IF phase # "idle"
               THEN stack' = Replace(NextStage) /\ UNCHANGED <<phase, remaining>>
               ELSE /\ phase' = "draining" /\ remaining' = Top.sequence
                    /\ stack' = Replace(NextStage) \o <<Frame("drain", "run", 0, TRUE)>>
    /\ UNCHANGED <<sequencerVars, pending, unwind_recovery_scheduled,
                   post_borrow_convergence_scheduled, requested, converging, fenceVars,
                   unwinding, historyVars, boundVars>>

\* drain_pre_shutdown_critical_callbacks runs a wave of callbacks that hold the App,
\* and asks for another convergence when more are ready.
ConvergeCritical ==
    /\ TopIs("converge") /\ Top.stage = "critical"
    /\ \/ /\ borrows < MaxBorrows /\ borrows' = borrows + 1
          /\ stack' = Replace([Top EXCEPT !.stage = "second"])
                        \o <<Frame("critical", "run", 0, FALSE)>>
          /\ requested' \in {requested, TRUE}
       \/ /\ stack' = Replace([Top EXCEPT !.stage = "second"])
          /\ UNCHANGED <<borrows, requested>>
    /\ UNCHANGED <<sequencerVars, queueVars, unwind_recovery_scheduled,
                   post_borrow_convergence_scheduled, converging, retained, fenceVars,
                   unwinding, historyVars, panics>>

CriticalEnds ==
    /\ TopIs("critical")
    /\ stack' = Below
    /\ UNCHANGED <<sequencerVars, queueVars, releaseVars, fenceVars, unwinding, historyVars,
                   boundVars>>

\* Mutant: a request made during the convergence is forgotten.
ConvergeEndsOnce ==
    /\ TopIs("converge") /\ Top.stage = "end"
    /\ converging' = FALSE /\ retained' = FALSE
    /\ unwinding' = (Top.flag \/ retained)
    /\ stack' = Below
    /\ UNCHANGED <<sequencerVars, pending, phase, remaining, scheduled_wake, stale,
                   unwind_recovery_scheduled, post_borrow_convergence_scheduled, requested,
                   fenceVars, historyVars, boundVars>>

\* Dropping AppBorrowReleaseConvergence; the first panic goes on to the caller.
ConvergeEnds ==
    /\ TopIs("converge") /\ Top.stage = "end"
    /\ converging' = FALSE /\ retained' = FALSE
    /\ unwinding' = (Top.flag \/ retained)
    /\ stack' = Below
    /\ IF requested
       THEN TakeWake /\ post_borrow_convergence_scheduled' = TRUE
       ELSE /\ scheduled_wake' = WakeFor(pending, phase)
            /\ UNCHANGED <<stale, post_borrow_convergence_scheduled>>
    /\ UNCHANGED <<sequencerVars, pending, phase, remaining, unwind_recovery_scheduled,
                   requested, fenceVars, historyVars, boundVars>>

-----------------------------------------------------------------------------
(* Drains *)

\* postpone_drain: a wake gives up its ticket, a call without one takes it away.
Postpone ==
    IF Top.stage = "stale" THEN UNCHANGED <<scheduled_wake, stale>>
    ELSE /\ scheduled_wake' = FALSE
         /\ stale' = stale + (IF Top.stage = "none" /\ scheduled_wake THEN 1 ELSE 0)

\* drain_native_work: postponed inside a convergence or a lease, otherwise a pass.
StartWork ==
    /\ TopIs("work") /\ Top.stage # "post"
    /\ LET post == [Top EXCEPT !.stage = "post"]
       IN  \/ /\ converging
              /\ Postpone /\ requested' = TRUE
              /\ stack' = Below /\ UNCHANGED <<phase, remaining>>
           \/ /\ ~converging /\ LeaseActive
              /\ Postpone
              /\ stack' = Replace(post) /\ UNCHANGED <<phase, remaining, requested>>
           \/ /\ ~converging /\ ~LeaseActive
              /\ IF terminated \/ pending = <<>>
                 THEN /\ scheduled_wake' = (scheduled_wake /\ Top.stage # "live")
                      /\ UNCHANGED stale
                 ELSE Postpone
              /\ IF ~terminated /\ pending # <<>> /\ Top.stage # "stale" /\ phase = "idle"
                 THEN /\ phase' = "draining" /\ remaining' = Budget
                      /\ stack' = Replace(post) \o <<Frame("drain", "run", 0, FALSE)>>
                 ELSE stack' = Replace(post) /\ UNCHANGED <<phase, remaining>>
              /\ UNCHANGED requested
    /\ UNCHANGED <<sequencerVars, pending, unwind_recovery_scheduled,
                   post_borrow_convergence_scheduled, converging, retained, fenceVars,
                   unwinding, historyVars, boundVars>>

\* After the pass: converge before a panic may escape.
FinishWork ==
    /\ TopIs("work") /\ Top.stage = "post"
    /\ stack' = IF retained \/ requested THEN Replace(Frame("released", "run", 0, FALSE))
                ELSE Below
    /\ UNCHANGED <<sequencerVars, queueVars, releaseVars, fenceVars, unwinding, historyVars,
                   boundVars>>

\* The frame under a drain gets back what is left of a shared budget.
AfterDrain ==
    IF Top.flag /\ Len(stack) > 1
    THEN [Below EXCEPT ![Len(stack) - 1].sequence = remaining] ELSE Below

Looping == TopIs("drain") /\ Top.stage = "run"
FirstPending == Head(pending)
Pops == pending # <<>> /\ remaining > 0

\* The queue is empty, the budget is used up or the pass was left: finish_drain.
FinishDrain ==
    /\ TopIs("drain") /\ (Top.stage = "return" \/ ~Pops)
    /\ phase' = "idle" /\ remaining' = 0
    /\ scheduled_wake' = WakeFor(pending, "idle")
    /\ stack' = AfterDrain
    /\ UNCHANGED <<sequencerVars, pending, stale, releaseVars, fenceVars, unwinding,
                   historyVars, boundVars>>

\* Mutant: the work that was popped is dropped.
PutBackNothing == Tail(pending)

\* push_front of what was popped.
PutBack == pending

\* block_on_app: the App is borrowed below this drain.
DrainBlocks ==
    /\ Looping /\ Pops /\ FirstPending.kind # "completion" /\ ~AppIdle
    /\ pending' = PutBack
    /\ phase' = "blocked" /\ remaining' = 0
    /\ TakeWake
    /\ stack' = AfterDrain
    /\ UNCHANGED <<sequencerVars, releaseVars, fenceVars, unwinding, historyVars, boundVars>>

\* An event is delivered under a borrow that does not converge when it ends.
DrainEvent ==
    /\ Looping /\ Pops /\ FirstPending.kind \in Events /\ AppIdle
    /\ pending' = Tail(pending) /\ remaining' = remaining - 1
    /\ handled' = FirstPending.sequence
    /\ stack' = PushFrame(Frame("deliver", "run", FirstPending.sequence, FALSE))
    /\ UNCHANGED <<sequencerVars, phase, scheduled_wake, stale, releaseVars, fenceVars,
                   unwinding, settled, boundVars>>

DeliverEnds ==
    /\ TopIs("deliver")
    /\ settled' = Settled({Top.sequence}, "delivered")
    /\ stack' = Below
    /\ UNCHANGED <<sequencerVars, queueVars, releaseVars, fenceVars, unwinding, handled,
                   boundVars>>

\* A command runs without the App, and may pump callbacks.
DrainCommand ==
    /\ Looping /\ Pops /\ FirstPending.kind = "command" /\ AppIdle
    /\ pending' = Tail(pending) /\ remaining' = remaining - 1
    /\ phase' = "command"
    /\ stack' = PushFrame(Frame("command", "run", FirstPending.sequence, FALSE))
    /\ UNCHANGED <<sequencerVars, scheduled_wake, stale, releaseVars, fenceVars, unwinding,
                   historyVars, boundVars>>

CommandEnds ==
    /\ TopIs("command")
    /\ settled' = Settled({Top.sequence}, "delivered")
    /\ phase' = "draining"
    /\ stack' = Below
    /\ UNCHANGED <<sequencerVars, pending, remaining, scheduled_wake, stale, releaseVars,
                   fenceVars, unwinding, handled, boundVars>>

\* The completion of a shutdown ends the queue or lifts the fence.
DrainCompletion ==
    /\ Looping /\ Pops /\ FirstPending.kind = "completion"
    /\ \/ /\ Terminate
          /\ settled' = [n \in Reservable |->
                            IF n = FirstPending.sequence THEN "delivered"
                            ELSE IF n \in In(pending) \cup Range(staged) THEN "closed"
                            ELSE settled[n]]
          /\ stale' = stale + (IF scheduled_wake THEN 1 ELSE 0) /\ scheduled_wake' = FALSE
          /\ UNCHANGED fenced
       \/ /\ fenced' = FALSE
          /\ pending' = Tail(pending)
          /\ settled' = Settled({FirstPending.sequence}, "delivered")
          /\ UNCHANGED <<terminated, staged, unwind_recovery_scheduled, scheduled_wake, stale>>
    /\ remaining' = remaining - 1
    /\ UNCHANGED <<next_sequence, stager, token, phase, post_borrow_convergence_scheduled,
                   requested, converging, retained, stackVars, handled, boundVars>>

-----------------------------------------------------------------------------
(* Input *)

\* begin_input_barrier.
Barrier ==
    IF phase \in {"idle", "blocked"} THEN "root"
    ELSE IF phase = "command" THEN "nested" ELSE "refused"

\* A native callback that needs an answer runs under a lease:
\* dispatch_native_window_input reserves its sequence and opens the barrier.
InputBegins ==
    LET n == next_sequence
        leased == PushFrame(Frame("lease", "run", 0, FALSE))
        wake == IF Reserved.work = pending THEN scheduled_wake
                ELSE WakeFor(Reserved.work, phase)
    IN  /\ Nestable /\ n \in Reservable
        /\ next_sequence' = n + 1
        /\ staged' = Reserved.staged /\ pending' = Reserved.work
        /\ settled' = [Reserved.settled EXCEPT
                          ![n] = IF Barrier = "refused" THEN "rejected" ELSE "pending"]
        /\ phase' = IF Barrier = "root" THEN "input" ELSE phase
        /\ stale' = stale + (IF Barrier = "root" /\ wake THEN 1 ELSE 0)
        /\ scheduled_wake' = (wake /\ Barrier # "root")
        /\ stack' = IF Barrier = "refused" THEN leased
                    ELSE Append(leased, Frame("input", "prior", n, Barrier = "root"))
        /\ UNCHANGED <<stager, token, remaining, releaseVars, fenceVars, unwinding, handled,
                       boundVars>>

\* event_before_index: the events older than the input, past the commands.
PriorEvents ==
    {i \in 1 .. Len(pending) : /\ pending[i].kind \in Events
                               /\ \A j \in 1 .. i : pending[j].sequence < Top.sequence}

AtBarrier == TopIs("input") /\ Top.stage = "prior"

\* pop_event_before: the barrier of a nested input uses the budget of the drain.
InputPrior ==
    /\ AtBarrier /\ PriorEvents # {} /\ AppIdle /\ (Top.flag \/ remaining > 0)
    /\ LET i == CHOOSE j \in PriorEvents : \A k \in PriorEvents : j <= k
       IN  /\ pending' = RemoveAt(pending, i)
           /\ handled' = pending[i].sequence
           /\ stack' = PushFrame(Frame("deliver", "run", pending[i].sequence, FALSE))
    /\ remaining' = IF Top.flag THEN remaining ELSE remaining - 1
    /\ UNCHANGED <<sequencerVars, phase, scheduled_wake, stale, releaseVars, fenceVars,
                   unwinding, settled, boundVars>>

\* What the input has to wait for.
Ahead == PriorEvents

\* The handler of the input.
InputHandled ==
    /\ AtBarrier /\ Ahead = {} /\ AppIdle /\ ~terminated
    /\ handled' = Top.sequence
    /\ stack' = Append(Replace([Top EXCEPT !.stage = "after"]),
                       Frame("deliver", "run", Top.sequence, FALSE))
    /\ UNCHANGED <<sequencerVars, queueVars, releaseVars, fenceVars, unwinding, settled,
                   boundVars>>

\* The App is borrowed, the budget is used up or the application quits; dropping a root
\* barrier schedules a wake.
InputRejected ==
    /\ AtBarrier
    /\ \/ ~AppIdle
       \/ PriorEvents # {} /\ ~Top.flag /\ remaining = 0
       \/ PriorEvents = {} /\ terminated
    /\ settled' = Settled({Top.sequence}, "rejected")
    /\ phase' = IF Top.flag THEN "idle" ELSE phase
    /\ scheduled_wake' = IF Top.flag THEN WakeFor(pending, "idle") ELSE scheduled_wake
    /\ stack' = Below
    /\ UNCHANGED <<sequencerVars, pending, remaining, stale, releaseVars, fenceVars, unwinding,
                   handled, boundVars>>

\* finish_without_wake, and the drain that follows a root input.
InputEnds ==
    /\ TopIs("input") /\ Top.stage = "after"
    /\ phase' = IF Top.flag THEN "idle" ELSE phase
    /\ stack' = IF Top.flag THEN Replace(Frame("work", "none", 0, FALSE)) ELSE Below
    /\ UNCHANGED <<sequencerVars, pending, remaining, scheduled_wake, stale, releaseVars,
                   fenceVars, unwinding, historyVars, boundVars>>

LastLease == \A i \in 1 .. Len(stack) - 1 : stack[i].kind # "lease"

\* Mutant: a lease ends like any other callback.
LeaseEndsQuietly ==
    /\ TopIs("lease")
    /\ stack' = Below
    /\ UNCHANGED <<sequencerVars, queueVars, releaseVars, fenceVars, unwinding, historyVars,
                   boundVars>>

\* Dropping the last NativeCallbackLease releases the borrow.
LeaseEnds ==
    /\ TopIs("lease")
    /\ stack' = IF LastLease THEN Replace(Frame("released", "run", 0, FALSE)) ELSE Below
    /\ UNCHANGED <<sequencerVars, queueVars, releaseVars, fenceVars, unwinding, historyVars,
                   boundVars>>

-----------------------------------------------------------------------------
(* Panics *)

\* Code of the application or of a command panics.
Panic ==
    /\ ~unwinding /\ stack # <<>> /\ Top.kind \in Holding \cup {"command"}
    /\ panics < MaxUnwinds /\ panics' = panics + 1
    /\ unwinding' = TRUE
    /\ UNCHANGED <<sequencerVars, queueVars, releaseVars, fenceVars, stack, historyVars,
                   borrows>>

Unwinds(kind) == unwinding /\ stack # <<>> /\ Top.kind = kind

\* schedule_drain_after_unwind, for a borrow and for the last lease.
Recovers == ~terminated

\* The panic drops a borrow of the App, a lease, or the rest of a call.
UnwindCode ==
    /\ \/ Unwinds("borrow")
       \/ Unwinds("lease")
       \/ Unwinds("deliver")
       \/ Unwinds("work") /\ Top.stage # "post"
    /\ settled' = Settled(IF Top.kind \in {"borrow", "deliver"} THEN {Top.sequence} ELSE {},
                          "failed")
    /\ unwind_recovery_scheduled' =
          (\/ unwind_recovery_scheduled
           \/ Recovers /\ (Top.kind = "borrow" \/ (Top.kind = "lease" /\ LastLease)))
    /\ stack' = Below
    /\ UNCHANGED <<sequencerVars, queueVars, post_borrow_convergence_scheduled, requested,
                   converging, retained, fenceVars, unwinding, handled, boundVars>>

\* The barrier of an input and the lease of a drain are dropped: a root barrier and a
\* drain give the queue back.
UnwindQueue ==
    /\ Unwinds("input") \/ Unwinds("drain")
    /\ LET owns == Top.kind = "drain" \/ Top.flag
       IN  /\ phase' = IF owns THEN "idle" ELSE phase
           /\ scheduled_wake' = IF owns THEN WakeFor(pending, "idle") ELSE scheduled_wake
           /\ remaining' = IF Top.kind = "drain" THEN 0 ELSE remaining
    /\ settled' = Settled(IF Top.kind = "input" /\ Top.stage = "prior" THEN {Top.sequence}
                          ELSE {}, "failed")
    /\ stack' = IF Top.kind = "drain" THEN AfterDrain ELSE Below
    /\ UNCHANGED <<sequencerVars, pending, stale, releaseVars, fenceVars, unwinding, handled,
                   boundVars>>

\* The panic is caught: a command fails and its pass returns, drain_native_work retains
\* it, a convergence holds it until its last stage, the event loop drops it.
Catch ==
    /\ unwinding /\ unwinding' = FALSE
    /\ \/ /\ Unwinds("command")
          /\ settled' = Settled({Top.sequence}, "failed")
          /\ phase' = "draining" /\ retained' = TRUE
          /\ stack' = [Below EXCEPT ![Len(Below)].stage = "return"]
       \/ /\ Unwinds("work") /\ Top.stage = "post"
          /\ retained' = TRUE /\ UNCHANGED <<settled, phase, stack>>
       \/ /\ Unwinds("critical")
          /\ stack' = [Below EXCEPT ![Len(Below)].flag = TRUE]
          /\ UNCHANGED <<settled, phase, retained>>
       \/ /\ Unwinds("converge")
          /\ stack' = Replace([Top EXCEPT !.flag = TRUE])
          /\ UNCHANGED <<settled, phase, retained>>
       \/ stack = <<>> /\ UNCHANGED <<settled, phase, retained, stack>>
    /\ UNCHANGED <<sequencerVars, pending, remaining, scheduled_wake, stale,
                   unwind_recovery_scheduled, post_borrow_convergence_scheduled, requested,
                   converging, fenceVars, handled, boundVars>>

-----------------------------------------------------------------------------
Tasks == RunWake \/ RunStaleWake \/ RunRecovery \/ RunConvergence \/ Import

\* The calls that are in progress go on.
Running ==
    \/ BorrowEnds \/ BorrowReleased \/ ConvergePass \/ ConvergeCritical \/ CriticalEnds
    \/ ConvergeEnds \/ StartWork \/ FinishWork \/ FinishDrain \/ DrainBlocks \/ DrainEvent
    \/ DeliverEnds \/ DrainCommand \/ CommandEnds \/ DrainCompletion \/ InputPrior
    \/ InputHandled \/ InputRejected \/ InputEnds \/ LeaseEnds
    \/ UnwindCode \/ UnwindQueue \/ Catch

IngressNext ==
    \/ \E kind \in Kinds : Enqueue(kind)
    \/ Stage \/ Send \/ BeginShutdown
    \/ Borrow \/ ShouldClose \/ InputBegins \/ Panic
    \/ Tasks \/ Running

IngressSpec == IngressInit /\ [][IngressNext]_ingressVars

\* The main thread keeps running: calls return and the event loop runs its tasks.
IngressLiveSpec ==
    /\ IngressSpec
    /\ WF_ingressVars(Running) /\ WF_ingressVars(Tasks) /\ WF_ingressVars(Send)

-----------------------------------------------------------------------------
(* Properties *)

\* Handlers of events, close requests and inputs start in the order in which the
\* callbacks were sequenced: nothing overtakes an older one, whichever path takes it.
HandlersInOrder == [][handled' # handled => handled' > handled]_ingressVars

\* An accepted envelope is in exactly one place until its disposition is recorded, and
\* the queue is drained by one call at a time, which the phase names.
WorkAccounted ==
    /\ \A n \in Reservable :
          (settled[n] = "pending") <=>
          1 = Cardinality({i \in 1 .. Len(pending) : pending[i].sequence = n})
                + Cardinality({i \in 1 .. Len(staged) : staged[i] = n})
                + Cardinality({i \in 1 .. Len(stack) : stack[i].sequence = n /\
                                  (\/ stack[i].kind \in {"borrow", "deliver", "command"}
                                   \/ stack[i].kind = "input" /\ stack[i].stage = "prior")})
    /\ Cardinality({i \in 1 .. Len(stack) : stack[i].kind = "drain"})
         + Cardinality({i \in 1 .. Len(stack) : stack[i].kind = "input" /\ stack[i].flag})
         = IF phase \in {"draining", "command", "input"} THEN 1 ELSE 0
    /\ converging <=> OnStack("converge")

\* When the event loop is idle, queued work has a task that will drain it, and staged
\* callbacks have one that will import them.
NoStrandedWork ==
    stack = <<>> /\ ~unwinding =>
        /\ pending # <<>> => \/ phase = "idle" /\ scheduled_wake
                             \/ unwind_recovery_scheduled
                             \/ post_borrow_convergence_scheduled
        /\ staged # <<>> => token \/ stager = "send"
        /\ phase = "idle" \/ (phase = "blocked" /\ unwind_recovery_scheduled)

\* Every accepted envelope gets a disposition.
WorkSettles == \A n \in Reservable : settled[n] = "pending" ~> settled[n] # "pending"
=============================================================================

---------------------------- MODULE ShutdownFence ----------------------------
(***************************************************************************)
(* crates/gpui/src/app/cell.rs and app.rs: the shutdown of an application. *)
(* A shutdown raises a fence; a completion item of the ingress takes it    *)
(* through its stages, parks it when something is not settled and is       *)
(* queued again by a timer or by progress.  Code of the application runs   *)
(* inside several of the stages and may schedule more work, remove         *)
(* windows, reserve capture releases and ask for another shutdown.         *)
(*                                                                         *)
(* The barriers themselves are WindowRetirement: here a release is only    *)
(* counted and a window is retiring until its terminal settles.  A window  *)
(* is checked out only inside an update, so it shows as a borrowed App.    *)
(* Only the timer of the newest retry epoch has an effect: `armed`.        *)
(***************************************************************************)
EXTENDS Naturals, FiniteSets

CONSTANTS
    Windows,
    Fragile,        \* windows whose native window may go without being asked to
    Callbacks,      \* shutdown-critical callbacks
    MaxShutdowns,   \* bound on shutdown generations
    MaxReleases,    \* bound on reserved capture releases
    WaveBudget,     \* SHUTDOWN_TERMINAL_CONVERGENCE_WAVE_BUDGET
    DebugAssertions \* the build evaluates debug_assert!

ASSUME FenceConstants ==
    /\ IsFiniteSet(Windows) /\ Fragile \subseteq Windows /\ IsFiniteSet(Callbacks)
    /\ MaxShutdowns \in Nat /\ MaxReleases \in Nat /\ WaveBudget \in Nat \ {0}
    /\ DebugAssertions \in BOOLEAN

VARIABLES
    status,      \* of each window: in the registry, retiring, or gone
    phase,       \* WindowPresentationShutdownPhase of each window's ticket
    closed,      \* windows whose Closed event is queued
    releases, reserved,  \* pointer_capture_releases, and all reserved so far
    critical,    \* where each critical callback is
    borrowed,    \* an update holds the App
    generation, fence,
    requested,   \* shutdown_terminate_ingress_requested
    queued,      \* shutdown_completion_queued
    armed,       \* the retry timer of the current epoch is running
    stage,       \* of advance_shutdown_completion; "parked" when it is not running
    waves,       \* terminal waves of this attempt
    ingress, quitting,
    window_open_barrier_depth,
    wanted       \* history: a shutdown of this generation asked to terminate the ingress

windowVars == <<status, phase, closed>>
fenceVars == <<generation, fence, requested, queued, armed, wanted>>
appVars == <<ingress, quitting, window_open_barrier_depth>>
vars == <<windowVars, releases, reserved, critical, borrowed, fenceVars, stage, waves, appVars>>

\* Stages in which code of the application runs, and the others.
CodeStages == {"initial", "before_wave", "after_wave", "flush", "terminal_wave"}
Stages == CodeStages \cup {"parked", "claim", "quiesce_first", "before", "captures",
    "quiesce_again", "clear", "after", "barriers", "terminal", "quiesce_last",
    "terminal_after", "final"}

NoFence == [active |-> FALSE, terminate |-> FALSE, prepared |-> FALSE, flushed |-> FALSE,
            claimed |-> FALSE, shutdowns |-> {}, cleared |-> FALSE, was_quitting |-> FALSE]

TypeOK ==
    /\ status \in [Windows -> {"unopened", "registered", "retiring", "gone"}]
    /\ phase \in [Windows -> {"claimed", "quiesced", "terminal", "before_quiesce"}]
    /\ closed \subseteq Windows
    /\ releases \in 0 .. MaxReleases /\ reserved \in releases .. MaxReleases
    /\ critical \in [Callbacks -> {"new", "protected", "before", "after", "wave", "ran", "lost"}]
    /\ borrowed \in BOOLEAN /\ generation \in 0 .. MaxShutdowns
    /\ fence \in [active : BOOLEAN, terminate : BOOLEAN, prepared : BOOLEAN, flushed : BOOLEAN,
                  claimed : BOOLEAN, shutdowns : SUBSET Windows, cleared : BOOLEAN,
                  was_quitting : BOOLEAN]
    /\ requested \in BOOLEAN /\ queued \in BOOLEAN /\ armed \in BOOLEAN /\ wanted \in BOOLEAN
    /\ stage \in Stages /\ waves \in 0 .. WaveBudget
    /\ ingress \in {"open", "fenced", "terminated"} /\ quitting \in BOOLEAN
    /\ window_open_barrier_depth \in 0 .. 1

Init ==
    /\ status = [w \in Windows |-> "unopened"]
    /\ phase = [w \in Windows |-> "claimed"] /\ closed = {}
    /\ releases = 0 /\ reserved = 0
    /\ critical = [c \in Callbacks |-> "new"]
    /\ borrowed = FALSE /\ generation = 0 /\ fence = NoFence
    /\ requested = FALSE /\ queued = FALSE /\ armed = FALSE /\ wanted = FALSE
    /\ stage = "parked" /\ waves = 0
    /\ ingress = "open" /\ quitting = FALSE /\ window_open_barrier_depth = 0

Registered == {w \in Windows : status[w] = "registered"}
RetiringWindows == {w \in Windows : status[w] = "retiring"}
Native(w) == status[w] \in {"registered", "retiring"} /\ w \notin closed
In(place) == {c \in Callbacks : critical[c] = place}
Moved(from, to) == [c \in Callbacks |-> IF critical[c] = from THEN to ELSE critical[c]]

\* active_shutdown_generation finds the fence where it is parked, or the generation that
\* NativeShutdownEffectFlushOwnership::begin sets while an attempt holds the fence.  That
\* assignment is the argument of a debug_assert!: a build without them never makes it.
Owned == fence.active /\ (stage = "parked" \/ DebugAssertions)

\* request_active_shutdown_completion: one completion at a time, and none while the
\* fence is taken by the one that is running.
Request == queued' = (queued \/ (fence.active /\ fence.prepared /\ stage = "parked"))

-----------------------------------------------------------------------------
(* What code of the application may do, in an update or inside a stage.      *)

UserCode == IF stage = "parked" THEN borrowed ELSE stage \in CodeStages

Borrow ==
    /\ ~borrowed /\ stage = "parked" /\ ingress # "terminated"
    /\ borrowed' = TRUE
    /\ UNCHANGED <<windowVars, releases, reserved, critical, fenceVars, stage, waves, appVars>>

\* The quit observers run inside the update that began the shutdown.
Return ==
    /\ borrowed /\ stage = "parked" /\ (fence.active => fence.prepared)
    /\ borrowed' = FALSE
    /\ UNCHANGED <<windowVars, releases, reserved, critical, fenceVars, stage, waves, appVars>>

\* App::open_window, refused behind the window-open barrier and once the App quits.
OpenWindow(w) ==
    /\ UserCode /\ status[w] = "unopened" /\ window_open_barrier_depth = 0 /\ ~quitting
    /\ status' = [status EXCEPT ![w] = "registered"]
    /\ UNCHANGED <<phase, closed, releases, reserved, critical, borrowed, fenceVars, stage,
                   waves, appVars>>

RemoveWindow(w) ==
    /\ UserCode /\ status[w] = "registered"
    /\ status' = [status EXCEPT ![w] = "retiring"]
    /\ UNCHANGED <<phase, closed, releases, reserved, critical, borrowed, fenceVars, stage,
                   waves, appVars>>

ReserveRelease ==
    /\ UserCode /\ reserved < MaxReleases
    /\ releases' = releases + 1 /\ reserved' = reserved + 1
    /\ UNCHANGED <<windowVars, critical, borrowed, fenceVars, stage, waves, appVars>>

\* A release barrier is removed: by the drain, or at once when no release is required.
ReleaseEnds ==
    /\ stage = "parked" \/ UserCode
    /\ releases > 0
    /\ releases' = releases - 1 /\ Request
    /\ UNCHANGED <<windowVars, reserved, critical, borrowed, generation, fence, requested,
                   armed, wanted, stage, waves, appVars>>

\* defer_shutdown_critical_before_window_registry_clear_or_run_now, and the delayed
\* variant: outside a shutdown the callback is protected, after the clear it runs at once
\* or joins the callbacks that run after it.
ScheduleBefore(c) ==
    /\ UserCode /\ critical[c] = "new"
    /\ \E place \in IF ~Owned THEN {"protected"}
                    ELSE IF fence.cleared THEN {"ran", "after"} ELSE {"before"} :
           critical' = [critical EXCEPT ![c] = place]
    /\ Request
    /\ UNCHANGED <<windowVars, releases, reserved, borrowed, generation, fence, requested,
                   armed, wanted, stage, waves, appVars>>

\* defer_shutdown_critical_after_window_registry_clear panics when it finds no shutdown.
ScheduleAfter(c) ==
    /\ UserCode /\ critical[c] = "new" /\ fence.active
    /\ critical' = [critical EXCEPT ![c] = IF Owned THEN "after" ELSE "lost"] /\ Request
    /\ UNCHANGED <<windowVars, releases, reserved, borrowed, generation, fence, requested,
                   armed, wanted, stage, waves, appVars>>

\* The deferred slot or the convergence claims a protected callback.
RunProtected(c) ==
    /\ critical[c] = "protected" /\ stage = "parked"
    /\ critical' = [critical EXCEPT ![c] = "ran"]
    /\ UNCHANGED <<windowVars, releases, reserved, borrowed, fenceVars, stage, waves, appVars>>

\* Mutant: a shutdown that joins the one in progress is only counted while it is parked.
JoinParkedOnly(terminate) ==
    /\ fence' = IF stage = "parked" THEN [fence EXCEPT !.terminate = @ \/ terminate] ELSE fence
    /\ UNCHANGED <<requested, critical>>

\* begin_shutdown_fence with a fence that is parked or held by an attempt.  An attempt it
\* does not see makes it begin a generation, which the assertion of
\* NativeShutdownCriticalState::begin stops after the protected callbacks were taken.
Join(terminate) ==
    \/ /\ stage = "parked"
       /\ fence' = [fence EXCEPT !.terminate = @ \/ terminate]
       /\ UNCHANGED <<requested, critical>>
    \/ /\ stage # "parked" /\ Owned
       /\ requested' = (requested \/ terminate)
       /\ UNCHANGED <<fence, critical>>
    \/ /\ ~Owned
       /\ critical' = Moved("protected", "lost")
       /\ UNCHANGED <<fence, requested>>

JoinShutdown(terminate) ==
    /\ UserCode /\ fence.active /\ Join(terminate)
    /\ wanted' = (wanted \/ terminate)
    /\ UNCHANGED <<windowVars, releases, reserved, borrowed, generation, queued, armed, stage,
                   waves, appVars>>

\* begin_shutdown_with_window_open_barrier: the new fence owns what was protected.
BeginShutdown(terminate) ==
    /\ UserCode /\ ~fence.active /\ generation < MaxShutdowns
    /\ generation' = generation + 1
    /\ fence' = [NoFence EXCEPT !.active = TRUE, !.terminate = terminate,
                                !.was_quitting = quitting]
    /\ wanted' = terminate /\ queued' = FALSE
    /\ critical' = Moved("protected", "before")
    /\ ingress' = "fenced"
    /\ window_open_barrier_depth' = window_open_barrier_depth + 1
    /\ UNCHANGED <<windowVars, releases, reserved, borrowed, requested, armed, stage, waves,
                   quitting>>

\* finish_shutdown_preparation, after the quit observers.
FinishPreparation ==
    /\ fence.active /\ ~fence.prepared
    /\ fence' = [fence EXCEPT !.prepared = TRUE] /\ queued' = TRUE
    /\ UNCHANGED <<windowVars, releases, reserved, critical, borrowed, generation, requested,
                   armed, wanted, stage, waves, appVars>>

-----------------------------------------------------------------------------
(* The native windows and the drain, while no attempt is running.            *)

Acknowledged(p) == CASE p = "claimed" -> "before_quiesce" [] p = "quiesced" -> "terminal"
                     [] OTHER -> p

\* The native window goes, and its backend may acknowledge the terminal itself.
NativeDestroy(w) ==
    /\ Native(w) /\ (w \in Fragile \/ (status[w] = "retiring" /\ phase[w] = "quiesced"))
    /\ closed' = closed \cup {w}
    /\ \E p \in {phase[w], Acknowledged(phase[w])} : phase' = [phase EXCEPT ![w] = p]
    /\ UNCHANGED <<status, releases, reserved, critical, borrowed, fenceVars, stage, waves,
                   appVars>>

\* The Closed event takes the window from the registry and settles its retirement.
DeliverClosed(w) ==
    /\ stage = "parked" /\ ~borrowed /\ w \in closed /\ ingress # "terminated"
    /\ closed' = closed \ {w} /\ status' = [status EXCEPT ![w] = "gone"]
    /\ phase' = [phase EXCEPT ![w] = IF status[w] = "gone" THEN @ ELSE Acknowledged(@)]
    /\ Request
    /\ UNCHANGED <<releases, reserved, critical, borrowed, generation, fence, requested, armed,
                   wanted, stage, waves, appVars>>

\* A retirement item quiesces the presentation and drops the window.  When the native
\* window has gone already it settles at once, with the Closed event still queued.
Retire(w) ==
    /\ stage = "parked" /\ status[w] = "retiring"
    /\ phase[w] \in {"claimed", "quiesced", "terminal"}
    /\ phase[w] = "claimed" \/ w \in closed
    /\ phase' = [phase EXCEPT ![w] = IF @ = "claimed" THEN "quiesced" ELSE @]
    /\ status' = [status EXCEPT ![w] = IF w \in closed THEN "gone" ELSE @]
    /\ Request
    /\ UNCHANGED <<closed, releases, reserved, critical, borrowed, generation, fence, requested,
                   armed, wanted, stage, waves, appVars>>

\* retry_shutdown_completion_from_wake
Timer ==
    /\ armed /\ armed' = FALSE /\ Request
    /\ UNCHANGED <<windowVars, releases, reserved, critical, borrowed, generation, fence,
                   requested, wanted, stage, waves, appVars>>

-----------------------------------------------------------------------------
(* advance_shutdown_completion                                               *)

\* Mutant: the fence is parked without a retry timer.
ParkUntimed(f) ==
    /\ stage' = "parked" /\ waves' = 0
    /\ fence' = [f EXCEPT !.terminate = @ \/ requested] /\ requested' = FALSE
    /\ UNCHANGED armed

\* park_shutdown_fence and defer_shutdown_completion_retry
Park(f) ==
    /\ stage' = "parked" /\ waves' = 0
    /\ fence' = [f EXCEPT !.terminate = @ \/ requested] /\ requested' = FALSE
    /\ armed' = TRUE

Continue(next, f) == stage' = next /\ fence' = f /\ UNCHANGED <<requested, armed, waves>>

Start ==
    /\ stage = "parked" /\ queued /\ queued' = FALSE
    /\ IF fence.claimed THEN Continue("quiesce_first", fence)
       ELSE IF borrowed THEN Park(fence)
       ELSE IF fence.flushed THEN Continue("claim", fence)
       ELSE Continue("initial", [fence EXCEPT !.flushed = TRUE])
    /\ UNCHANGED <<windowVars, releases, reserved, critical, borrowed, generation, wanted, appVars>>

\* prepare_shutdown_pointer_sessions and the first effect flush have run.
EndInitial ==
    /\ stage = "initial" /\ Continue("claim", fence)
    /\ UNCHANGED <<windowVars, releases, reserved, critical, borrowed, generation, queued,
                   wanted, appVars>>

\* prepare_presentation_shutdowns
Claim ==
    /\ stage = "claim"
    /\ Continue("quiesce_first", [fence EXCEPT !.claimed = TRUE, !.shutdowns = Registered])
    /\ UNCHANGED <<windowVars, releases, reserved, critical, borrowed, generation, queued,
                   wanted, appVars>>

\* Mutant: the tickets of windows that began to retire meanwhile are not taken over.
QuiescedWithoutRetiring(next, refused) ==
    LET tickets == fence.shutdowns
        f == fence
        after == [w \in Windows |-> IF w \in tickets \ refused /\ phase[w] = "claimed"
                                    THEN "quiesced" ELSE phase[w]]
    IN /\ phase' = after
       /\ IF \A w \in tickets : after[w] \in {"quiesced", "terminal"}
          THEN Continue(next, f) ELSE Park(f)

\* quiesce_shutdown_presentations: a backend may refuse any of the tickets, and a ticket
\* whose native window went first is refused for good.
Quiesced(next, refused) ==
    LET tickets == fence.shutdowns \cup RetiringWindows
        f == [fence EXCEPT !.shutdowns = tickets]
        after == [w \in Windows |-> IF w \in tickets \ refused /\ phase[w] = "claimed"
                                    THEN "quiesced" ELSE phase[w]]
    IN /\ phase' = after
       /\ IF \A w \in tickets : after[w] \in {"quiesced", "terminal"}
          THEN Continue(next, f) ELSE Park(f)

Quiesce(refused) ==
    /\ \/ stage = "quiesce_first" /\ Quiesced("before", refused)
       \/ stage = "quiesce_again" /\ Quiesced("clear", refused)
       \/ stage = "quiesce_last" /\ Quiesced("terminal_after", refused)
    /\ UNCHANGED <<status, closed, releases, reserved, critical, borrowed, generation, queued,
                   wanted, appVars>>

\* run_shutdown_critical_wave: Idle, Retry because the App is borrowed, or a wave.
Wave(place, wave, idle) ==
    /\ IF In(place) = {} THEN Continue(idle, fence) /\ UNCHANGED critical
       ELSE IF borrowed THEN Park(fence) /\ UNCHANGED critical
       ELSE Continue(wave, fence) /\ critical' = Moved(place, "wave")
    /\ UNCHANGED <<windowVars, releases, reserved, borrowed, generation, queued, wanted, appVars>>

BeforeWave == stage = "before" /\ Wave("before", "before_wave", "captures")
AfterWave == stage = "after" /\ Wave("after", "after_wave", "barriers")
TerminalWave == stage = "terminal_after" /\ Wave("after", "terminal_wave", "final")

RunCallback(c) ==
    /\ stage \in {"before_wave", "after_wave", "terminal_wave"} /\ critical[c] = "wave"
    /\ critical' = [critical EXCEPT ![c] = "ran"]
    /\ UNCHANGED <<windowVars, releases, reserved, borrowed, fenceVars, stage, waves, appVars>>

\* Drained, or Retry when the callbacks scheduled more of the same phase.
EndWave ==
    /\ In("wave") = {}
    /\ \/ /\ stage = "before_wave"
          /\ IF In("before") # {} THEN Park(fence) ELSE Continue("captures", fence)
       \/ /\ stage = "after_wave"
          /\ IF In("after") # {} THEN Park(fence) ELSE Continue("barriers", fence)
       \/ /\ stage = "terminal_wave"
          /\ IF In("after") # {} \/ waves + 1 = WaveBudget THEN Park(fence)
             ELSE /\ stage' = "terminal" /\ waves' = waves + 1
                  /\ UNCHANGED <<fence, requested, armed>>
    /\ UNCHANGED <<windowVars, releases, reserved, critical, borrowed, generation, queued,
                   wanted, appVars>>

Captures ==
    /\ stage = "captures"
    /\ IF releases > 0 THEN Park(fence) ELSE Continue("quiesce_again", fence)
    /\ UNCHANGED <<windowVars, releases, reserved, critical, borrowed, generation, queued,
                   wanted, appVars>>

\* What is looked at again, with the App borrowed, before the registry may be cleared.
ClearBlocked ==
    borrowed \/ ~(Registered \subseteq fence.shutdowns) \/ In("before") # {} \/ releases > 0

\* take_all_for_shutdown, and a retirement for every window it detaches.
Clear ==
    /\ stage = "clear"
    /\ IF fence.cleared THEN Continue("after", fence) /\ UNCHANGED status
       ELSE IF ClearBlocked
       THEN /\ Park([fence EXCEPT !.shutdowns = IF borrowed THEN @ ELSE @ \cup Registered])
            /\ UNCHANGED status
       ELSE /\ Continue("after", [fence EXCEPT !.cleared = TRUE])
            /\ status' = [w \in Windows |-> IF w \in Registered THEN "retiring" ELSE status[w]]
    /\ UNCHANGED <<phase, closed, releases, reserved, critical, borrowed, generation, queued,
                   wanted, appVars>>

BarriersClear == releases = 0 /\ RetiringWindows = {}

\* The terminate requests made so far join the fence, then both kinds of barrier count.
Barriers ==
    /\ stage = "barriers"
    /\ LET f == [fence EXCEPT !.terminate = @ \/ requested]
       IN IF BarriersClear
          THEN stage' = "terminal" /\ fence' = f /\ requested' = FALSE /\ UNCHANGED <<armed, waves>>
          ELSE Park(f)
    /\ UNCHANGED <<windowVars, releases, reserved, critical, borrowed, generation, queued,
                   wanted, appVars>>

Terminal ==
    /\ stage = "terminal"
    /\ IF borrowed THEN Park(fence) ELSE Continue("flush", fence)
    /\ UNCHANGED <<windowVars, releases, reserved, critical, borrowed, generation, queued,
                   wanted, appVars>>

EndFlush ==
    /\ stage = "flush" /\ stage' = "quiesce_last"
    /\ fence' = [fence EXCEPT !.terminate = @ \/ requested] /\ requested' = FALSE
    /\ UNCHANGED <<windowVars, releases, reserved, critical, borrowed, generation, queued, armed,
                   wanted, waves, appVars>>

\* Mutant: the work queued behind the completion is not looked at.
FinalBlockedByBarriers == ~BarriersClear \/ borrowed

\* has_pending_shutdown_critical_work: a Closed event behind the completion counts too.
FinalBlocked == ~BarriersClear \/ closed # {} \/ borrowed

Final ==
    /\ stage = "final"
    /\ IF FinalBlocked THEN Park(fence) /\ UNCHANGED appVars
       ELSE /\ stage' = "parked" /\ fence' = NoFence /\ armed' = FALSE /\ waves' = 0
            /\ quitting' = IF fence.terminate THEN TRUE ELSE fence.was_quitting
            /\ ingress' = IF fence.terminate THEN "terminated" ELSE "open"
            /\ window_open_barrier_depth' = window_open_barrier_depth - 1
            /\ UNCHANGED requested
    /\ UNCHANGED <<windowVars, releases, reserved, critical, borrowed, generation, queued, wanted>>

Advance ==
    \/ EndInitial \/ Claim \/ BeforeWave \/ AfterWave \/ TerminalWave \/ EndWave \/ Captures
    \/ Clear \/ Barriers \/ Terminal \/ EndFlush \/ Final
    \/ \E refused \in SUBSET Windows : Quiesce(refused)
    \/ \E c \in Callbacks : RunCallback(c)

Next ==
    \/ Borrow \/ Return \/ ReserveRelease \/ ReleaseEnds \/ FinishPreparation \/ Timer \/ Start
    \/ \E w \in Windows : OpenWindow(w) \/ RemoveWindow(w) \/ NativeDestroy(w)
                          \/ DeliverClosed(w) \/ Retire(w)
    \/ \E c \in Callbacks : ScheduleBefore(c) \/ ScheduleAfter(c) \/ RunProtected(c)
    \/ \E terminate \in BOOLEAN : JoinShutdown(terminate) \/ BeginShutdown(terminate)
    \/ Advance

Spec == Init /\ [][Next]_vars

\* Updates return and quit observers have a timeout; the drain is
\* FIFO, so an item an attempt overtakes is reached.  An attempt finds the App free
\* again and again, the retry timer too, and a backend does not refuse to quiesce for ever.
Fairness ==
    /\ WF_vars(Advance) /\ WF_vars(FinishPreparation) /\ SF_vars(Timer /\ ~borrowed)
    /\ SF_vars(Return) /\ SF_vars(ReleaseEnds)
    /\ SF_vars(Start /\ ~borrowed) /\ SF_vars(Quiesce({}))
    /\ \A w \in Windows :
          /\ SF_vars(Retire(w)) /\ SF_vars(DeliverClosed(w))
          /\ WF_vars(NativeDestroy(w) /\ status[w] = "retiring")

LiveSpec == Spec /\ Fairness

-----------------------------------------------------------------------------
\* The registry is cleared (take_all_for_shutdown) only when every window it still holds
\* or that is retiring has given up its presentation, no capture release is owed and no
\* callback that must run before the clear waits, whatever the code inside the stages did.
ClearedSafely ==
    [][~fence.cleared /\ fence'.cleared =>
         /\ \A w \in Windows : status[w] \in {"registered", "retiring"}
                                  => phase[w] \in {"quiesced", "terminal"}
         /\ releases = 0 /\ In("before") = {}]_vars

\* The fence goes (advance_shutdown_completion completes) only when nothing of the
\* shutdown is left: no window, no release, no Closed event, no critical callback.
CompletionIsFinal ==
    [][fence.active /\ ~fence'.active =>
         /\ releases = 0 /\ closed = {}
         /\ \A w \in Windows : status[w] \in {"unopened", "gone"}
         /\ \A c \in Callbacks : critical[c] \in {"new", "ran"}]_vars

\* A shutdown ends with the ingress terminated exactly when it, or a shutdown that joined
\* it at any moment (begin_shutdown_fence), asked for that.
NoTerminateLost ==
    [][fence.active /\ ~fence'.active => (ingress' = "terminated" <=> wanted)]_vars

\* A shutdown ends, unless a native window went between the claim of its ticket and its
\* quiescence: that ticket is refused for good, and the fence never drops it.
ShutdownCompletes ==
    fence.active ~> (~fence.active \/ \E w \in fence.shutdowns : phase[w] = "before_quiesce")

=============================================================================

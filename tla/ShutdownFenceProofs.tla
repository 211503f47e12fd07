------------------------- MODULE ShutdownFenceProofs --------------------------
(***************************************************************************)
(* Proofs about ShutdownFence, for any windows, callbacks and bounds.      *)
(***************************************************************************)
EXTENDS ShutdownFence, TLAPS

Fences == [active : BOOLEAN, terminate : BOOLEAN, prepared : BOOLEAN, flushed : BOOLEAN,
           claimed : BOOLEAN, shutdowns : SUBSET Windows, cleared : BOOLEAN,
           was_quitting : BOOLEAN]

LEMMA NoFenceType == NoFence \in Fences
BY DEF NoFence, Fences

\* What park_shutdown_fence leaves of a fence.
LEMMA ParkEffect ==
    ASSUME NEW f \in Fences, requested \in BOOLEAN, Park(f)
    PROVE  /\ fence' \in Fences
           /\ fence'.active = f.active /\ fence'.prepared = f.prepared
           /\ fence'.cleared = f.cleared /\ fence'.shutdowns = f.shutdowns
           /\ fence'.terminate <=> f.terminate \/ requested
           /\ stage' = "parked" /\ waves' = 0 /\ requested' = FALSE /\ armed' = TRUE
BY DEF Park, Fences

LEMMA RequestType ==
    ASSUME Request PROVE queued' \in BOOLEAN
BY DEF Request

TypeInv == TypeOK /\ waves < WaveBudget

WaveStages == {"before_wave", "after_wave", "terminal_wave"}
AfterClear == {"after", "after_wave", "barriers", "terminal", "flush", "quiesce_last",
               "terminal_after", "terminal_wave", "final"}

\* An attempt runs only for a prepared fence, with no second completion queued, and the
\* fence alone holds the window-open barrier.
FenceHeld ==
    /\ stage # "parked" => fence.prepared /\ ~queued
    /\ queued => fence.prepared
    /\ fence.prepared => fence.active
    /\ fence.cleared => fence.active
    /\ window_open_barrier_depth = IF fence.active THEN 1 ELSE 0

\* The clear cannot be undone: no window enters the registry, and what should run before
\* the clear runs at once or after it.
ClearLasts == fence.cleared => Registered = {} /\ In("before") = {}

\* What the stages passed so far have established and the code run since has not undone.
StageEstablished ==
    /\ stage = "clear" => \A w \in fence.shutdowns \cup RetiringWindows :
                              phase[w] \in {"quiesced", "terminal"}
    /\ stage \in AfterClear => fence.cleared
    /\ stage \notin WaveStages => In("wave") = {}
    /\ stage = "final" => In("after") = {}

\* A build with debug assertions sees the attempt in progress: no callback is protected
\* behind its back or lost, and every wish to terminate is in the fence or in `requested`,
\* where the last reading of it has left none.
AttemptSeen ==
    /\ stage \in {"parked", "quiesce_last", "terminal_after", "final"} => ~requested
    /\ DebugAssertions =>
          /\ In("lost") = {}
          /\ fence.active => In("protected") = {} /\ (wanted <=> fence.terminate \/ requested)

IInv == TypeInv /\ FenceHeld /\ ClearLasts /\ StageEstablished /\ AttemptSeen

\* The attempt's own variables after it parked or went on to another stage.
AttemptType ==
    /\ fence' \in Fences /\ requested' \in BOOLEAN /\ armed' \in BOOLEAN
    /\ stage' \in Stages /\ waves' \in 0 .. WaveBudget /\ waves' < WaveBudget

LEMMA ParkType ==
    ASSUME TypeInv, NEW f \in Fences, Park(f) PROVE AttemptType
<1>1. requested \in BOOLEAN
    BY DEF TypeInv, TypeOK
<1>2. 0 \in 0 .. WaveBudget /\ 0 < WaveBudget /\ "parked" \in Stages
    BY FenceConstants DEF Stages
<1> QED
    BY <1>1, <1>2, ParkEffect DEF AttemptType

LEMMA ContinueType ==
    ASSUME TypeInv, NEW f \in Fences, NEW next \in Stages, Continue(next, f)
    PROVE  AttemptType
BY DEF Continue, TypeInv, TypeOK, AttemptType

LEMMA TypeStep == TypeInv /\ FenceHeld /\ Next => TypeInv'
<1> SUFFICES ASSUME TypeInv, FenceHeld, Next PROVE TypeInv'
    OBVIOUS
<1>0. /\ fence \in Fences
      /\ requested \in BOOLEAN /\ queued \in BOOLEAN /\ armed \in BOOLEAN
    BY DEF TypeInv, TypeOK, Fences
<1>a. ASSUME AttemptType, queued' \in BOOLEAN,
             UNCHANGED <<windowVars, releases, reserved, critical, borrowed, generation,
                         wanted, appVars>>
      PROVE TypeInv'
    BY <1>a DEF AttemptType, TypeInv, TypeOK, Fences, windowVars, appVars
<1>1. CASE Borrow
    BY <1>1, FenceConstants DEF Borrow, TypeInv, TypeOK, windowVars, fenceVars, appVars
<1>2. CASE Return
    <2>1. borrowed' \in BOOLEAN
        BY <1>2 DEF Return
    <2> QED
        BY <1>2, <2>1 DEF Return, TypeInv, TypeOK, windowVars, fenceVars, appVars
<1>3. CASE ReserveRelease
    BY <1>3, FenceConstants DEF ReserveRelease, TypeInv, TypeOK, windowVars, fenceVars, appVars
<1>4. CASE ReleaseEnds
    <2>1. releases' \in 0 .. MaxReleases /\ reserved' \in releases' .. MaxReleases
        BY <1>4, FenceConstants DEF ReleaseEnds, TypeInv, TypeOK
    <2>2. queued' \in BOOLEAN
        BY <1>4, RequestType DEF ReleaseEnds
    <2> QED
        BY <1>4, <2>1, <2>2 DEF ReleaseEnds, TypeInv, TypeOK, windowVars, appVars
<1>5. CASE FinishPreparation
    <2>1. fence' \in Fences /\ queued' \in BOOLEAN
        BY <1>0, <1>5 DEF FinishPreparation, Fences
    <2> QED
        BY <1>5, <2>1 DEF FinishPreparation, TypeInv, TypeOK, Fences, windowVars, appVars
<1>6. CASE Timer
    <2>1. queued' \in BOOLEAN /\ armed' \in BOOLEAN
        BY <1>6, RequestType DEF Timer
    <2> QED
        BY <1>6, <2>1 DEF Timer, TypeInv, TypeOK, windowVars, appVars
<1>7. CASE Start
    <2>1. [fence EXCEPT !.flushed = TRUE] \in Fences
        BY <1>0 DEF Fences
    <2>2. {"quiesce_first", "claim", "initial"} \subseteq Stages
        BY DEF Stages, CodeStages
    <2>3. AttemptType
        BY <1>0, <1>7, <2>1, <2>2, ParkType, ContinueType DEF Start
    <2>4. queued' \in BOOLEAN
        BY <1>7 DEF Start
    <2> QED
        BY <1>7, <1>a, <2>3, <2>4 DEF Start
<1>8. ASSUME NEW w \in Windows, OpenWindow(w) PROVE TypeInv'
    BY <1>8 DEF OpenWindow, TypeInv, TypeOK, fenceVars, appVars
<1>9. ASSUME NEW w \in Windows, RemoveWindow(w) PROVE TypeInv'
    BY <1>9 DEF RemoveWindow, TypeInv, TypeOK, fenceVars, appVars
<1>10. ASSUME NEW w \in Windows, NativeDestroy(w) PROVE TypeInv'
    BY <1>10 DEF NativeDestroy, Acknowledged, TypeInv, TypeOK, fenceVars, appVars
<1>11. ASSUME NEW w \in Windows, DeliverClosed(w) PROVE TypeInv'
    BY <1>11, RequestType DEF DeliverClosed, Acknowledged, TypeInv, TypeOK, appVars
<1>12. ASSUME NEW w \in Windows, Retire(w) PROVE TypeInv'
    BY <1>12, RequestType DEF Retire, TypeInv, TypeOK, appVars
<1>13. ASSUME NEW c \in Callbacks, ScheduleBefore(c) PROVE TypeInv'
    BY <1>13, RequestType DEF ScheduleBefore, TypeInv, TypeOK, windowVars, appVars
<1>14. ASSUME NEW c \in Callbacks, ScheduleAfter(c) PROVE TypeInv'
    BY <1>14, RequestType DEF ScheduleAfter, TypeInv, TypeOK, windowVars, appVars
<1>15. ASSUME NEW c \in Callbacks, RunProtected(c) PROVE TypeInv'
    BY <1>15 DEF RunProtected, TypeInv, TypeOK, windowVars, fenceVars, appVars
<1>16. ASSUME NEW terminate \in BOOLEAN, JoinShutdown(terminate) PROVE TypeInv'
    <2>1. fence' \in Fences
        BY <1>0, <1>16 DEF JoinShutdown, Join, Fences
    <2>2. requested' \in BOOLEAN /\ wanted' \in BOOLEAN
        BY <1>0, <1>16 DEF JoinShutdown, Join
    <2>3. critical' \in [Callbacks -> {"new", "protected", "before", "after", "wave", "ran",
                                       "lost"}]
        BY <1>16 DEF JoinShutdown, Join, Moved, TypeInv, TypeOK
    <2> QED
        BY <1>16, <2>1, <2>2, <2>3 DEF JoinShutdown, TypeInv, TypeOK, Fences, windowVars, appVars
<1>17. ASSUME NEW terminate \in BOOLEAN, BeginShutdown(terminate) PROVE TypeInv'
    <2>0. window_open_barrier_depth = 0
        BY <1>17 DEF BeginShutdown, FenceHeld
    <2>1. fence' \in Fences
        BY <1>17, NoFenceType DEF BeginShutdown, Fences, TypeInv, TypeOK
    <2>2. queued' \in BOOLEAN /\ wanted' \in BOOLEAN
        BY <1>17 DEF BeginShutdown
    <2>3. critical' \in [Callbacks -> {"new", "protected", "before", "after", "wave", "ran",
                                       "lost"}]
        BY <1>17 DEF BeginShutdown, Moved, TypeInv, TypeOK
    <2> QED
        BY <1>17, <2>0, <2>1, <2>2, <2>3, FenceConstants DEF BeginShutdown, TypeInv, TypeOK, Fences,
           windowVars
<1>18. CASE EndInitial
    <2>1. AttemptType /\ queued' \in BOOLEAN
        BY <1>0, <1>18, ContinueType DEF EndInitial, Stages
    <2> QED
        BY <1>18, <1>a, <2>1 DEF EndInitial
<1>19. CASE Claim
    <2>1. [fence EXCEPT !.claimed = TRUE, !.shutdowns = Registered] \in Fences
        BY <1>0 DEF Fences, Registered
    <2>2. AttemptType /\ queued' \in BOOLEAN
        BY <1>0, <1>19, <2>1, ContinueType DEF Claim, Stages
    <2> QED
        BY <1>19, <1>a, <2>2 DEF Claim
<1>20. ASSUME NEW place, NEW wave \in Stages, NEW idle \in Stages, Wave(place, wave, idle)
       PROVE TypeInv'
    <2>1. AttemptType /\ queued' \in BOOLEAN
        BY <1>0, <1>20, ParkType, ContinueType DEF Wave
    <2>2. critical' \in [Callbacks -> {"new", "protected", "before", "after", "wave", "ran",
                                       "lost"}]
        BY <1>20 DEF Wave, Moved, TypeInv, TypeOK
    <2> QED
        BY <1>20, <2>1, <2>2 DEF Wave, AttemptType, TypeInv, TypeOK, Fences, windowVars, appVars
<1>21. CASE BeforeWave \/ AfterWave \/ TerminalWave
    BY <1>20, <1>21 DEF BeforeWave, AfterWave, TerminalWave, Stages, CodeStages
<1>22. CASE EndWave
    <2>1. AttemptType /\ queued' \in BOOLEAN
        <3>1. CASE stage = "terminal_wave" /\ ~(In("after") # {} \/ waves + 1 = WaveBudget)
            BY <1>0, <1>22, <3>1, FenceConstants DEF EndWave, AttemptType, TypeInv, TypeOK, Stages
        <3>2. CASE ~(stage = "terminal_wave" /\ ~(In("after") # {} \/ waves + 1 = WaveBudget))
            BY <1>0, <1>22, <3>2, ParkType, ContinueType DEF EndWave, Stages
        <3> QED
            BY <3>1, <3>2
    <2> QED
        BY <1>22, <1>a, <2>1 DEF EndWave
<1>23. CASE Captures \/ Terminal
    <2>1. AttemptType /\ queued' \in BOOLEAN
        BY <1>0, <1>23, ParkType, ContinueType DEF Captures, Terminal, Stages, CodeStages
    <2> QED
        BY <1>23, <1>a, <2>1 DEF Captures, Terminal
<1>24. CASE Clear
    <2>1. /\ [fence EXCEPT !.shutdowns = IF borrowed THEN @ ELSE @ \cup Registered] \in Fences
          /\ [fence EXCEPT !.cleared = TRUE] \in Fences
        BY <1>0 DEF Fences, Registered
    <2>2. AttemptType /\ queued' \in BOOLEAN
        BY <1>0, <1>24, <2>1, ParkType, ContinueType DEF Clear, Stages
    <2>3. status' \in [Windows -> {"unopened", "registered", "retiring", "gone"}]
        BY <1>24 DEF Clear, TypeInv, TypeOK
    <2> QED
        BY <1>24, <2>2, <2>3 DEF Clear, AttemptType, TypeInv, TypeOK, Fences, appVars
<1>25. CASE Barriers
    <2>1. [fence EXCEPT !.terminate = @ \/ requested] \in Fences
        BY <1>0 DEF Fences
    <2>2. AttemptType /\ queued' \in BOOLEAN
        <3>1. CASE BarriersClear
            BY <1>0, <1>25, <2>1, <3>1 DEF Barriers, AttemptType, Stages, TypeInv, TypeOK
        <3>2. CASE ~BarriersClear
            BY <1>0, <1>25, <2>1, <3>2, ParkType DEF Barriers
        <3> QED
            BY <3>1, <3>2
    <2> QED
        BY <1>25, <1>a, <2>2 DEF Barriers
<1>26. CASE EndFlush
    <2>1. [fence EXCEPT !.terminate = @ \/ requested] \in Fences
        BY <1>0 DEF Fences
    <2>2. AttemptType /\ queued' \in BOOLEAN
        BY <1>0, <1>26, <2>1 DEF EndFlush, AttemptType, Stages, TypeInv, TypeOK
    <2> QED
        BY <1>26, <1>a, <2>2 DEF EndFlush
<1>27. CASE Final
    <2>0. window_open_barrier_depth = 1
        BY <1>27 DEF Final, FenceHeld
    <2>1. CASE FinalBlocked
        <3>1. AttemptType /\ queued' \in BOOLEAN
            BY <1>0, <1>27, <2>1, ParkType DEF Final
        <3> QED
            BY <1>27, <1>a, <2>1, <3>1 DEF Final
    <2>2. CASE ~FinalBlocked
        <3>1. quitting' \in BOOLEAN /\ ingress' \in {"open", "fenced", "terminated"}
            BY <1>0, <1>27, <2>2 DEF Final, Fences
        <3>2. AttemptType /\ queued' \in BOOLEAN
            <4>1. 0 \in 0 .. WaveBudget /\ 0 < WaveBudget /\ "parked" \in Stages
                BY FenceConstants DEF Stages
            <4> QED
                BY <1>0, <1>27, <2>2, <4>1, NoFenceType DEF Final, AttemptType
        <3>3. window_open_barrier_depth' \in 0 .. 1
            BY <1>27, <2>0, <2>2 DEF Final
        <3> QED
            BY <1>27, <2>2, <3>1, <3>2, <3>3 DEF Final, AttemptType, TypeInv, TypeOK, Fences,
               windowVars
    <2> QED
        BY <2>1, <2>2
<1>28. ASSUME NEW refused \in SUBSET Windows, Quiesce(refused) PROVE TypeInv'
    <2> DEFINE tickets == fence.shutdowns \cup RetiringWindows
    <2>1. [fence EXCEPT !.shutdowns = tickets] \in Fences
        BY <1>0 DEF Fences, RetiringWindows
    <2>2. AttemptType /\ queued' \in BOOLEAN
        BY <1>0, <1>28, <2>1, ParkType, ContinueType DEF Quiesce, Quiesced, Stages
    <2>3. phase' \in [Windows -> {"claimed", "quiesced", "terminal", "before_quiesce"}]
        BY <1>28 DEF Quiesce, Quiesced, TypeInv, TypeOK
    <2> QED
        BY <1>28, <2>2, <2>3 DEF Quiesce, AttemptType, TypeInv, TypeOK, Fences, appVars
<1>29. ASSUME NEW c \in Callbacks, RunCallback(c) PROVE TypeInv'
    BY <1>29 DEF RunCallback, TypeInv, TypeOK, windowVars, fenceVars, appVars
<1> QED
    BY <1>1, <1>2, <1>3, <1>4, <1>5, <1>6, <1>7, <1>8, <1>9, <1>10, <1>11, <1>12, <1>13, <1>14,
       <1>15, <1>16, <1>17, <1>18, <1>19, <1>21, <1>22, <1>23, <1>24, <1>25, <1>26, <1>27, <1>28,
       <1>29 DEF Next, Advance

\* What a step may do to the fence: a shutdown begins, one completes, or the fence stays
\* active, keeps what it had reached, and is cleared only by the clear.
LEMMA FenceFrame ==
    ASSUME IInv, Next
    PROVE  \/ \E terminate \in BOOLEAN : BeginShutdown(terminate)
           \/ Final /\ ~FinalBlocked
           \/ /\ fence'.active = fence.active
              /\ fence.prepared => fence'.prepared
              /\ fence'.prepared => fence'.active
              /\ fence.cleared => fence'.cleared
              /\ fence'.cleared => fence.cleared \/ (Clear /\ ~ClearBlocked)
              /\ window_open_barrier_depth' = window_open_barrier_depth
<1> DEFINE Kept == /\ fence'.active = fence.active
                   /\ fence.prepared => fence'.prepared
                   /\ fence'.prepared => fence'.active
                   /\ fence.cleared => fence'.cleared
                   /\ fence'.cleared => fence.cleared \/ (Clear /\ ~ClearBlocked)
                   /\ window_open_barrier_depth' = window_open_barrier_depth
<1>0. /\ fence \in Fences /\ requested \in BOOLEAN
      /\ fence.prepared => fence.active
    BY DEF IInv, TypeInv, TypeOK, Fences, FenceHeld
<1>1. CASE fence' = fence /\ window_open_barrier_depth' = window_open_barrier_depth
    BY <1>0, <1>1
<1>2. ASSUME NEW f \in Fences, f.active = fence.active, f.prepared = fence.prepared,
             fence.cleared => f.cleared, f.cleared => fence.cleared \/ (Clear /\ ~ClearBlocked),
             Park(f) \/ fence' = f, window_open_barrier_depth' = window_open_barrier_depth
      PROVE Kept
    BY <1>0, <1>2, ParkEffect
<1>3. CASE FinishPreparation
    BY <1>0, <1>3 DEF FinishPreparation, appVars, Fences
<1>4. CASE Start
    <2>1. PICK f \in {fence, [fence EXCEPT !.flushed = TRUE]} : Park(f) \/ fence' = f
        BY <1>4 DEF Start, Continue
    <2>2. /\ f \in Fences /\ f.active = fence.active /\ f.prepared = fence.prepared
          /\ f.cleared = fence.cleared
        BY <1>0 DEF Fences
    <2> QED
        BY <1>2, <1>4, <2>1, <2>2 DEF Start, appVars
<1>5. ASSUME NEW terminate \in BOOLEAN, JoinShutdown(terminate) PROVE Kept
    BY <1>0, <1>5 DEF JoinShutdown, Join, appVars, Fences
<1>6. CASE EndInitial \/ BeforeWave \/ AfterWave \/ TerminalWave \/ EndWave \/ Captures \/ Terminal
    <2>1. Park(fence) \/ fence' = fence
        BY <1>6 DEF EndInitial, BeforeWave, AfterWave, TerminalWave, Wave, EndWave, Captures,
           Terminal, Continue
    <2>2. window_open_barrier_depth' = window_open_barrier_depth
        BY <1>6 DEF EndInitial, BeforeWave, AfterWave, TerminalWave, Wave, EndWave, Captures,
           Terminal, appVars
    <2> QED
        BY <1>0, <1>2, <2>1, <2>2
<1>7. CASE Claim
    <2> DEFINE f == [fence EXCEPT !.claimed = TRUE, !.shutdowns = Registered]
    <2>1. /\ f \in Fences /\ f.active = fence.active /\ f.prepared = fence.prepared
          /\ f.cleared = fence.cleared
        BY <1>0 DEF Fences, Registered
    <2>2. fence' = f
        BY <1>7 DEF Claim, Continue
    <2> QED
        BY <1>2, <1>7, <2>1, <2>2 DEF Claim, appVars
<1>8. ASSUME NEW refused \in SUBSET Windows, Quiesce(refused) PROVE Kept
    <2> DEFINE f == [fence EXCEPT !.shutdowns = fence.shutdowns \cup RetiringWindows]
    <2>1. /\ f \in Fences /\ f.active = fence.active /\ f.prepared = fence.prepared
          /\ f.cleared = fence.cleared
        BY <1>0 DEF Fences, RetiringWindows
    <2>2. Park(f) \/ fence' = f
        BY <1>8 DEF Quiesce, Quiesced, Continue
    <2> QED
        BY <1>2, <1>8, <2>1, <2>2 DEF Quiesce, appVars
<1>9. CASE Clear
    <2> DEFINE late == [fence EXCEPT !.shutdowns = IF borrowed THEN @ ELSE @ \cup Registered]
               done == [fence EXCEPT !.cleared = TRUE]
    <2>1. /\ late \in Fences /\ late.active = fence.active /\ late.prepared = fence.prepared
          /\ late.cleared = fence.cleared
          /\ done \in Fences /\ done.active = fence.active /\ done.prepared = fence.prepared
          /\ done.cleared
        BY <1>0 DEF Fences, Registered
    <2>2. \/ fence' = fence \/ Park(late)
          \/ fence' = done /\ ~ClearBlocked
        BY <1>9 DEF Clear, Continue
    <2> QED
        BY <1>0, <1>2, <1>9, <2>1, <2>2 DEF Clear, appVars
<1>10. CASE Barriers \/ EndFlush
    <2> DEFINE f == [fence EXCEPT !.terminate = @ \/ requested]
    <2>1. /\ f \in Fences /\ f.active = fence.active /\ f.prepared = fence.prepared
          /\ f.cleared = fence.cleared
        BY <1>0 DEF Fences
    <2>2. Park(f) \/ fence' = f
        BY <1>10 DEF Barriers, EndFlush
    <2> QED
        BY <1>2, <1>10, <2>1, <2>2 DEF Barriers, EndFlush, appVars
<1>11. CASE Final /\ FinalBlocked
    BY <1>0, <1>2, <1>11 DEF Final, appVars
<1> QED
    BY <1>1, <1>3, <1>4, <1>5, <1>6, <1>7, <1>8, <1>9, <1>10, <1>11 DEF Next, Advance, Borrow,
       Return, ReserveRelease, ReleaseEnds, Timer, OpenWindow, RemoveWindow, NativeDestroy,
       DeliverClosed, Retire, ScheduleBefore, ScheduleAfter, RunProtected, RunCallback,
       fenceVars, appVars

\* What a step may do to the queued completion and the stage.
LEMMA AttemptFrame ==
    ASSUME IInv, Next
    PROVE  /\ \/ queued' = queued \/ Request \/ FinishPreparation \/ queued' = FALSE
           /\ stage' = stage \/ (Start /\ queued /\ queued' = FALSE) \/ Advance
           /\ Advance => stage # "parked" /\ queued' = queued
           /\ \/ fence' = fence \/ FinishPreparation \/ Start \/ Advance
              \/ \E terminate \in BOOLEAN : JoinShutdown(terminate) \/ BeginShutdown(terminate)
<1>1. Advance => stage # "parked" /\ queued' = queued
    <2> SUFFICES ASSUME Advance PROVE stage # "parked" /\ queued' = queued
        OBVIOUS
    <2>1. CASE EndInitial \/ Claim \/ BeforeWave \/ AfterWave \/ TerminalWave \/ Captures
        BY <2>1 DEF EndInitial, Claim, BeforeWave, AfterWave, TerminalWave, Wave, Captures
    <2>2. CASE EndWave
        BY <2>2 DEF EndWave
    <2>3. CASE Clear \/ Barriers \/ Terminal \/ EndFlush \/ Final
        BY <2>3 DEF Clear, Barriers, Terminal, EndFlush, Final
    <2>4. ASSUME NEW refused \in SUBSET Windows, Quiesce(refused)
          PROVE stage # "parked" /\ queued' = queued
        BY <2>4 DEF Quiesce
    <2>5. ASSUME NEW c \in Callbacks, RunCallback(c) PROVE stage # "parked" /\ queued' = queued
        BY <2>5 DEF RunCallback, fenceVars
    <2> QED
        BY <2>1, <2>2, <2>3, <2>4, <2>5 DEF Advance
<1>2. stage' = stage \/ Start \/ Advance
    BY DEF Next, Borrow, Return, ReserveRelease, ReleaseEnds, FinishPreparation, Timer,
       OpenWindow, RemoveWindow, NativeDestroy, DeliverClosed, Retire, ScheduleBefore,
       ScheduleAfter, RunProtected, JoinShutdown, BeginShutdown
<1>3. Start => queued /\ queued' = FALSE
    BY DEF Start
<1>4. \/ queued' = queued \/ Request \/ FinishPreparation \/ queued' = FALSE
    BY <1>1, <1>3 DEF Next, Borrow, Return, ReserveRelease, ReleaseEnds, Timer, OpenWindow,
       RemoveWindow, NativeDestroy, DeliverClosed, Retire, ScheduleBefore, ScheduleAfter,
       RunProtected, JoinShutdown, BeginShutdown, fenceVars
<1>5. \/ fence' = fence \/ FinishPreparation \/ Start \/ Advance
      \/ \E terminate \in BOOLEAN : JoinShutdown(terminate) \/ BeginShutdown(terminate)
    BY DEF Next, Borrow, Return, ReserveRelease, ReleaseEnds, Timer, OpenWindow, RemoveWindow,
       NativeDestroy, DeliverClosed, Retire, ScheduleBefore, ScheduleAfter, RunProtected, fenceVars
<1> QED
    BY <1>1, <1>2, <1>3, <1>4, <1>5

LEMMA HeldStep == IInv /\ Next => FenceHeld'
<1> SUFFICES ASSUME IInv, Next PROVE FenceHeld'
    OBVIOUS
<1>0. /\ fence \in Fences /\ requested \in BOOLEAN /\ queued \in BOOLEAN
      /\ FenceHeld /\ window_open_barrier_depth \in {0, 1}
    BY DEF IInv, TypeInv, TypeOK, Fences
<1>1. ASSUME NEW terminate \in BOOLEAN, BeginShutdown(terminate) PROVE FenceHeld'
    <2>1. /\ fence'.active /\ ~fence'.prepared /\ ~fence'.cleared
        BY <1>1 DEF BeginShutdown, NoFence
    <2>2. ~fence.active /\ window_open_barrier_depth' = window_open_barrier_depth + 1
        BY <1>1 DEF BeginShutdown
    <2> QED
        BY <1>0, <1>1, <2>1, <2>2 DEF BeginShutdown, FenceHeld
<1>2. CASE Final /\ ~FinalBlocked
    <2>1. ~fence'.active /\ ~fence'.prepared /\ ~fence'.cleared
        BY <1>2 DEF Final, NoFence
    <2> QED
        BY <1>0, <1>2, <2>1 DEF Final, FenceHeld
<1>3. ASSUME ~ \E terminate \in BOOLEAN : BeginShutdown(terminate),
             ~(Final /\ ~FinalBlocked)
      PROVE FenceHeld'
    <2>1. /\ fence'.active = fence.active
          /\ fence.prepared => fence'.prepared
          /\ fence'.prepared => fence'.active
          /\ fence'.cleared => fence.cleared \/ (Clear /\ ~ClearBlocked)
          /\ window_open_barrier_depth' = window_open_barrier_depth
        BY <1>3, FenceFrame
    <2>2. fence'.cleared => fence'.active
        BY <1>0, <2>1 DEF FenceHeld, Clear
    <2>3. queued' => fence'.prepared
        <3>1. CASE FinishPreparation
            BY <1>0, <3>1 DEF FinishPreparation, Fences
        <3>2. CASE Request
            BY <1>0, <2>1, <3>2 DEF Request, FenceHeld
        <3> QED
            BY <1>0, <2>1, <3>1, <3>2, AttemptFrame DEF FenceHeld
    <2>4. stage' # "parked" => fence'.prepared /\ ~queued'
        <3>1. CASE Start
            BY <1>0, <2>1, <3>1 DEF Start, FenceHeld
        <3>2. CASE Advance
            BY <1>0, <2>1, <3>2, AttemptFrame DEF FenceHeld
        <3>3. CASE stage' = stage /\ ~Start /\ ~Advance
            <4>1. stage # "parked" => queued' = queued
                <5>1. Request /\ stage # "parked" => queued' = queued
                    BY <1>0 DEF Request
                <5>2. FinishPreparation => stage = "parked"
                    BY <1>0 DEF FinishPreparation, FenceHeld
                <5>3. stage # "parked" => ~queued
                    BY <1>0 DEF FenceHeld
                <5> QED
                    BY <1>0, <5>1, <5>2, <5>3, AttemptFrame
            <4> QED
                BY <1>0, <2>1, <3>3, <4>1 DEF FenceHeld
        <3> QED
            BY <3>1, <3>2, <3>3, AttemptFrame
    <2> QED
        BY <1>0, <2>1, <2>2, <2>3, <2>4 DEF FenceHeld
<1> QED
    BY <1>1, <1>2, <1>3

\* Which steps change the registry, the tickets and the critical callbacks.
LEMMA WindowFrame ==
    ASSUME Next
    PROVE  /\ \/ status' = status
              \/ \E w \in Windows : OpenWindow(w) \/ RemoveWindow(w) \/ DeliverClosed(w) \/ Retire(w)
              \/ Clear
           /\ \/ phase' = phase
              \/ \E w \in Windows : NativeDestroy(w) \/ DeliverClosed(w) \/ Retire(w)
              \/ \E refused \in SUBSET Windows : Quiesce(refused)
BY DEF Next, Advance, Borrow, Return, ReserveRelease, ReleaseEnds, FinishPreparation, Timer, Start,
   OpenWindow, RemoveWindow, NativeDestroy, ScheduleBefore, ScheduleAfter, RunProtected,
   JoinShutdown, BeginShutdown, EndInitial, Claim, BeforeWave, AfterWave, TerminalWave, Wave,
   EndWave, Captures, Barriers, Terminal, EndFlush, Final, Quiesce, RunCallback, Clear, windowVars

LEMMA CallbackFrame ==
    ASSUME Next
    PROVE  \/ critical' = critical
           \/ \E c \in Callbacks : ScheduleBefore(c) \/ ScheduleAfter(c) \/ RunProtected(c)
                                   \/ RunCallback(c)
           \/ \E terminate \in BOOLEAN : JoinShutdown(terminate) \/ BeginShutdown(terminate)
           \/ BeforeWave \/ AfterWave \/ TerminalWave
BY DEF Next, Advance, Borrow, Return, ReserveRelease, ReleaseEnds, FinishPreparation, Timer, Start,
   OpenWindow, RemoveWindow, NativeDestroy, DeliverClosed, Retire, EndInitial, Claim, EndWave,
   Captures, Barriers, Terminal, EndFlush, Final, Quiesce, Clear

LEMMA ClearStep == IInv /\ Next => ClearLasts'
<1> SUFFICES ASSUME IInv, Next PROVE ClearLasts'
    OBVIOUS
<1>0. /\ FenceHeld /\ ClearLasts /\ status \in [Windows -> {"unopened", "registered", "retiring", "gone"}]
      /\ critical \in [Callbacks -> {"new", "protected", "before", "after", "wave", "ran", "lost"}]
    BY DEF IInv, TypeInv, TypeOK
<1>1. ASSUME NEW terminate \in BOOLEAN, BeginShutdown(terminate) PROVE ClearLasts'
    BY <1>1 DEF BeginShutdown, NoFence, ClearLasts
<1>2. CASE Final /\ ~FinalBlocked
    BY <1>2 DEF Final, NoFence, ClearLasts
<1>3. CASE Clear /\ ~ClearBlocked
    <2>1. Registered' = {} /\ In("before")' = {}
        BY <1>0, <1>3 DEF Clear, ClearBlocked, Registered, In, ClearLasts
    <2> QED
        BY <2>1 DEF ClearLasts
<1>4. ASSUME fence.cleared, fence'.active = fence.active PROVE ClearLasts'
    <2>1. Registered = {} /\ In("before") = {} /\ window_open_barrier_depth = 1
        BY <1>0, <1>4 DEF ClearLasts, FenceHeld
    <2>2. Registered' = {}
        <3>1. CASE status' = status
            BY <2>1, <3>1 DEF Registered
        <3>2. ASSUME NEW w \in Windows,
                     OpenWindow(w) \/ RemoveWindow(w) \/ DeliverClosed(w) \/ Retire(w)
              PROVE Registered' = {}
            BY <1>0, <2>1, <3>2 DEF OpenWindow, RemoveWindow, DeliverClosed, Retire, Registered
        <3>3. CASE Clear
            BY <1>0, <2>1, <3>3 DEF Clear, Registered
        <3> QED
            BY <3>1, <3>2, <3>3, WindowFrame
    <2>3. In("before")' = {}
        <3>1. CASE critical' = critical
            BY <2>1, <3>1 DEF In
        <3>2. ASSUME NEW c \in Callbacks,
                     ScheduleAfter(c) \/ RunProtected(c) \/ RunCallback(c)
              PROVE In("before")' = {}
            BY <1>0, <2>1, <3>2 DEF ScheduleAfter, RunProtected, RunCallback, In
        <3>3. ASSUME NEW c \in Callbacks, ScheduleBefore(c) PROVE In("before")' = {}
            BY <1>0, <1>4, <2>1, <3>3 DEF ScheduleBefore, In
        <3>4. ASSUME NEW terminate \in BOOLEAN, JoinShutdown(terminate)
              PROVE In("before")' = {}
            BY <1>0, <2>1, <3>4 DEF JoinShutdown, Join, Moved, In
        <3>5. ~ \E terminate \in BOOLEAN : BeginShutdown(terminate)
            BY <1>0, <1>4 DEF BeginShutdown, FenceHeld
        <3>6. CASE BeforeWave \/ AfterWave \/ TerminalWave
            BY <1>0, <2>1, <3>6 DEF BeforeWave, AfterWave, TerminalWave, Wave, Moved, In
        <3> QED
            BY <3>1, <3>2, <3>3, <3>4, <3>5, <3>6, CallbackFrame
    <2> QED
        BY <2>2, <2>3 DEF ClearLasts
<1>5. CASE ~fence'.cleared
    BY <1>5 DEF ClearLasts
<1> QED
    BY <1>1, <1>2, <1>3, <1>4, <1>5, FenceFrame
\* The stages an attempt can go to, and which step takes it there.
LEMMA StageMoves ==
    ASSUME IInv, Next, stage' # stage
    PROVE  \/ stage' = "parked"
           \/ Start /\ stage' \in {"initial", "claim", "quiesce_first"}
           \/ stage' \in {"claim", "quiesce_first", "captures", "quiesce_again"}
                 /\ stage \notin WaveStages \cup AfterClear /\ critical' = critical
           \/ EndWave /\ stage = "before_wave" /\ stage' = "captures"
           \/ EndWave /\ stage \in AfterClear /\ stage' \in {"barriers", "terminal"}
           \/ BeforeWave /\ stage' \in {"before_wave", "captures"}
           \/ AfterWave /\ stage' \in {"after_wave", "barriers"}
           \/ TerminalWave /\ stage' = "terminal_wave"
           \/ TerminalWave /\ stage' = "final" /\ In("after") = {} /\ critical' = critical
           \/ Clear /\ stage' = "after"
           \/ stage \in {"barriers", "terminal", "flush"} /\ critical' = critical
                 /\ stage' \in {"terminal", "flush", "quiesce_last"}
           \/ \E refused \in SUBSET Windows :
                 /\ Quiesce(refused)
                 /\ \/ stage = "quiesce_first" /\ stage' = "before"
                    \/ stage = "quiesce_again" /\ stage' = "clear"
                    \/ stage = "quiesce_last" /\ stage' = "terminal_after"
<1> DEFINE Goal ==
           \/ stage' = "parked"
           \/ stage' \in {"claim", "quiesce_first", "captures", "quiesce_again"}
                 /\ stage \notin WaveStages \cup AfterClear /\ critical' = critical
           \/ EndWave /\ stage = "before_wave" /\ stage' = "captures"
           \/ EndWave /\ stage \in AfterClear /\ stage' \in {"barriers", "terminal"}
           \/ BeforeWave /\ stage' \in {"before_wave", "captures"}
           \/ AfterWave /\ stage' \in {"after_wave", "barriers"}
           \/ TerminalWave /\ stage' = "terminal_wave"
           \/ TerminalWave /\ stage' = "final" /\ In("after") = {} /\ critical' = critical
           \/ Clear /\ stage' = "after"
           \/ stage \in {"barriers", "terminal", "flush"} /\ critical' = critical
                 /\ stage' \in {"terminal", "flush", "quiesce_last"}
           \/ \E refused \in SUBSET Windows :
                 /\ Quiesce(refused)
                 /\ \/ stage = "quiesce_first" /\ stage' = "before"
                    \/ stage = "quiesce_again" /\ stage' = "clear"
                    \/ stage = "quiesce_last" /\ stage' = "terminal_after"
<1> USE DEF WaveStages, AfterClear
<1>1. CASE Start
    BY <1>1 DEF Start, Park, Continue
<1>2. CASE EndInitial \/ Claim \/ Captures
    BY <1>2 DEF EndInitial, Claim, Captures, Park, Continue
<1>3. CASE BeforeWave
    BY <1>3 DEF BeforeWave, Wave, Park, Continue
<1>4. CASE AfterWave
    BY <1>4 DEF AfterWave, Wave, Park, Continue
<1>5. CASE TerminalWave
    BY <1>5 DEF TerminalWave, Wave, Park, Continue
<1>6. CASE EndWave
    BY <1>6 DEF EndWave, Park, Continue
<1>7. CASE Clear
    BY <1>7 DEF Clear, Park, Continue
<1>8. CASE Barriers \/ Terminal \/ EndFlush
    BY <1>8 DEF Barriers, Terminal, EndFlush, Park, Continue
<1>9. CASE Final
    BY <1>9 DEF Final, Park
<1>10. ASSUME NEW refused \in SUBSET Windows, Quiesce(refused) PROVE Goal
    <2>1. \/ stage' = "parked"
          \/ stage = "quiesce_first" /\ stage' = "before"
          \/ stage = "quiesce_again" /\ stage' = "clear"
          \/ stage = "quiesce_last" /\ stage' = "terminal_after"
        BY <1>10 DEF Quiesce, Quiesced, Park, Continue
    <2> QED
        BY <1>10, <2>1
<1>11. ASSUME NEW c \in Callbacks, RunCallback(c) PROVE FALSE
    BY <1>11 DEF RunCallback
<1> QED
    BY <1>1, <1>2, <1>3, <1>4, <1>5, <1>6, <1>7, <1>8, <1>9, <1>10, <1>11, AttemptFrame
       DEF Advance

LEMMA StageStep == IInv /\ Next => StageEstablished'
<1> SUFFICES ASSUME IInv, Next PROVE StageEstablished'
    OBVIOUS
<1>0. /\ FenceHeld /\ StageEstablished
      /\ fence \in Fences /\ requested \in BOOLEAN
      /\ status \in [Windows -> {"unopened", "registered", "retiring", "gone"}]
      /\ phase \in [Windows -> {"claimed", "quiesced", "terminal", "before_quiesce"}]
      /\ critical \in [Callbacks -> {"new", "protected", "before", "after", "wave", "ran", "lost"}]
    BY DEF IInv, TypeInv, TypeOK, Fences
<1>1. stage' = "clear" => \A w \in (fence.shutdowns \cup RetiringWindows)' :
                             phase'[w] \in {"quiesced", "terminal"}
    <2>1. ASSUME NEW refused \in SUBSET Windows, Quiesce(refused), stage' = "clear"
          PROVE \A w \in (fence.shutdowns \cup RetiringWindows)' :
                   phase'[w] \in {"quiesced", "terminal"}
        <3> DEFINE f == [fence EXCEPT !.shutdowns = fence.shutdowns \cup RetiringWindows]
        <3>1. /\ \A w \in fence.shutdowns \cup RetiringWindows :
                    phase'[w] \in {"quiesced", "terminal"}
              /\ fence' = f
            BY <2>1 DEF Quiesce, Quiesced, Continue, Park
        <3>2. f.shutdowns = fence.shutdowns \cup RetiringWindows
            BY <1>0 DEF Fences
        <3>3. RetiringWindows' = RetiringWindows
            BY <2>1 DEF Quiesce, RetiringWindows
        <3> QED
            BY <3>1, <3>2, <3>3
    <2>2. ASSUME stage = "clear", stage' = "clear"
          PROVE \A w \in (fence.shutdowns \cup RetiringWindows)' :
                   phase'[w] \in {"quiesced", "terminal"}
        <3>1. fence' = fence
            <4>1. ~Advance
                BY <2>2 DEF Advance, EndInitial, Claim, BeforeWave, AfterWave, TerminalWave,
                   EndWave, Captures, Clear, Barriers, Terminal, EndFlush, Final, Quiesce,
                   RunCallback, Park, Continue
            <4>2. ~FinishPreparation /\ ~Start
                BY <1>0, <2>2 DEF FinishPreparation, Start, FenceHeld
            <4>3. ~ \E terminate \in BOOLEAN : JoinShutdown(terminate) \/ BeginShutdown(terminate)
                BY <2>2 DEF JoinShutdown, BeginShutdown, UserCode, CodeStages
            <4> QED
                BY <4>1, <4>2, <4>3, AttemptFrame
        <3>2. status' = status
            BY <1>0, <2>2, WindowFrame DEF OpenWindow, RemoveWindow, DeliverClosed, Retire,
               Clear, UserCode, CodeStages, Park, Continue
        <3>3. \A w \in Windows : phase[w] \in {"quiesced", "terminal"} =>
                                    phase'[w] \in {"quiesced", "terminal"}
            <4>1. ASSUME NEW w \in Windows, NativeDestroy(w)
                  PROVE \A v \in Windows : phase[v] \in {"quiesced", "terminal"} =>
                                              phase'[v] \in {"quiesced", "terminal"}
                BY <1>0, <4>1 DEF NativeDestroy, Acknowledged
            <4> QED
                BY <2>2, <4>1, WindowFrame DEF DeliverClosed, Retire, Quiesce
        <3> QED
            BY <1>0, <2>2, <3>1, <3>2, <3>3 DEF StageEstablished, RetiringWindows, Fences
    <2>3. stage' = "clear" => stage = "clear" \/ \E refused \in SUBSET Windows : Quiesce(refused)
        BY StageMoves DEF WaveStages, AfterClear
    <2> QED
        BY <2>1, <2>2, <2>3
<1>2. stage' \in AfterClear => fence'.cleared
    <2>1. CASE stage \in AfterClear /\ stage' \in AfterClear
        <3>1. fence.cleared /\ fence.active
            BY <1>0, <2>1 DEF StageEstablished, FenceHeld
        <3>2. ~ \E terminate \in BOOLEAN : BeginShutdown(terminate)
            BY <3>1 DEF BeginShutdown
        <3>3. ~(Final /\ ~FinalBlocked)
            BY <2>1 DEF Final, AfterClear
        <3> QED
            BY <3>1, <3>2, <3>3, FenceFrame
    <2>2. CASE stage \notin AfterClear /\ stage' \in AfterClear
        <3>1. Clear /\ stage' = "after"
            <4>1. ~AfterWave /\ ~TerminalWave
                BY <2>2 DEF AfterWave, TerminalWave, AfterClear
            <4> QED
                BY <2>2, <4>1, StageMoves DEF AfterClear
        <3> QED
            BY <1>0, <3>1 DEF Clear, Park, Continue, Fences
    <2> QED
        BY <2>1, <2>2
<1>3. stage' \notin WaveStages => In("wave")' = {}
    <2> SUFFICES ASSUME stage' \notin WaveStages PROVE In("wave")' = {}
        OBVIOUS
    <2>1. CASE stage \in WaveStages
        <3>1. Advance
            BY <2>1, AttemptFrame DEF Start, WaveStages
        <3>2. EndWave
            BY <2>1, <3>1 DEF Advance, EndInitial, Claim, BeforeWave, AfterWave, TerminalWave,
               Captures, Clear, Barriers, Terminal, EndFlush, Final, Quiesce, RunCallback,
               WaveStages
        <3> QED
            BY <3>2 DEF EndWave, In
    <2>2. CASE stage \notin WaveStages
        <3>0. In("wave") = {}
            BY <1>0, <2>2 DEF StageEstablished
        <3>1. CASE critical' = critical
            BY <3>0, <3>1 DEF In
        <3>2. ASSUME NEW c \in Callbacks, ScheduleBefore(c) \/ ScheduleAfter(c)
              PROVE In("wave")' = {}
            BY <1>0, <3>0, <3>2 DEF ScheduleBefore, ScheduleAfter, In
        <3>3. ASSUME NEW c \in Callbacks, RunProtected(c) \/ RunCallback(c)
              PROVE In("wave")' = {}
            BY <1>0, <3>0, <3>3 DEF RunProtected, RunCallback, In
        <3>4. ASSUME NEW terminate \in BOOLEAN,
                     JoinShutdown(terminate) \/ BeginShutdown(terminate)
              PROVE In("wave")' = {}
            BY <1>0, <3>0, <3>4 DEF JoinShutdown, Join, BeginShutdown, Moved, In
        <3>5. CASE BeforeWave \/ AfterWave \/ TerminalWave
            <4>1. critical' = critical
                BY <3>5 DEF BeforeWave, AfterWave, TerminalWave, Wave, Continue, WaveStages
            <4> QED
                BY <3>0, <4>1 DEF In
        <3> QED
            BY <3>1, <3>2, <3>3, <3>4, <3>5, CallbackFrame
    <2> QED
        BY <2>1, <2>2
<1>4. stage' = "final" => In("after")' = {}
    <2> SUFFICES ASSUME stage' = "final" PROVE In("after")' = {}
        OBVIOUS
    <2>1. CASE stage = "final"
        <3>1. In("after") = {} /\ fence.active
            BY <1>0, <2>1 DEF StageEstablished, FenceHeld
        <3>2. ~UserCode
            BY <2>1 DEF UserCode, CodeStages
        <3>3. critical' = critical
            BY <2>1, <3>1, <3>2, CallbackFrame DEF ScheduleBefore, ScheduleAfter, RunProtected,
               RunCallback, JoinShutdown, BeginShutdown, BeforeWave, AfterWave, TerminalWave
        <3> QED
            BY <3>1, <3>3 DEF In
    <2>2. CASE stage # "final"
        <3>1. In("after") = {} /\ critical' = critical
            BY <2>2, StageMoves
        <3> QED
            BY <3>1 DEF In
    <2> QED
        BY <2>1, <2>2
<1> QED
    BY <1>1, <1>2, <1>3, <1>4 DEF StageEstablished
\* Wishes to terminate: a step other than a shutdown's begin, join or end moves them from
\* `requested` to the fence and drops none.
LEMMA TerminateFrame ==
    ASSUME IInv, Next
    PROVE  \/ \E terminate \in BOOLEAN : BeginShutdown(terminate) \/ JoinShutdown(terminate)
           \/ Final /\ ~FinalBlocked
           \/ /\ wanted' = wanted
              /\ fence'.terminate \/ requested' <=> fence.terminate \/ requested
              /\ stage' \in {"parked", "quiesce_last", "terminal_after", "final"} => ~requested'
<1> DEFINE Read == {"parked", "quiesce_last", "terminal_after", "final"}
           Kept == /\ wanted' = wanted
                   /\ fence'.terminate \/ requested' <=> fence.terminate \/ requested
                   /\ stage' \in Read => ~requested'
<1>0. /\ fence \in Fences /\ requested \in BOOLEAN /\ wanted \in BOOLEAN
      /\ stage \in Read => ~requested
    BY DEF IInv, TypeInv, TypeOK, Fences, AttemptSeen
<1>1. CASE fence' = fence /\ requested' = requested /\ wanted' = wanted /\ stage' = stage
    BY <1>0, <1>1
<1>2. ASSUME NEW f \in Fences, f.terminate \/ requested <=> fence.terminate \/ requested,
             wanted' = wanted,
             \/ Park(f)
             \/ fence' = f /\ requested' = FALSE /\ (requested => f.terminate)
             \/ fence' = f /\ requested' = requested /\ (stage' \in Read => stage \in Read)
      PROVE Kept
    <2>1. CASE Park(f)
        <3>1. requested' = FALSE /\ (fence'.terminate <=> f.terminate \/ requested)
            BY <1>0, <2>1, ParkEffect
        <3> QED
            BY <1>2, <3>1
    <2>2. CASE fence' = f /\ requested' = FALSE /\ (requested => f.terminate)
        BY <1>2, <2>2
    <2>3. CASE fence' = f /\ requested' = requested /\ (stage' \in Read => stage \in Read)
        BY <1>0, <1>2, <2>3
    <2> QED
        BY <1>2, <2>1, <2>2, <2>3
<1>3. CASE FinishPreparation
    BY <1>0, <1>3 DEF FinishPreparation, Fences
<1>4. CASE Start
    <2> DEFINE f == [fence EXCEPT !.flushed = TRUE]
    <2>1. \/ Park(fence)
          \/ fence' = fence /\ requested' = requested /\ stage' \in {"quiesce_first", "claim"}
          \/ fence' = f /\ requested' = requested /\ stage' = "initial"
        BY <1>4 DEF Start, Continue
    <2>2. f \in Fences /\ f.terminate = fence.terminate
        BY <1>0 DEF Fences
    <2>3. wanted' = wanted
        BY <1>4 DEF Start
    <2>4. CASE Park(fence)
        BY <1>0, <1>2, <2>3, <2>4
    <2>5. CASE fence' = fence /\ requested' = requested /\ stage' \in {"quiesce_first", "claim"}
        BY <1>0, <1>2, <2>3, <2>5
    <2>6. CASE fence' = f /\ requested' = requested /\ stage' = "initial"
        BY <1>2, <2>2, <2>3, <2>6
    <2> QED
        BY <2>1, <2>4, <2>5, <2>6
<1>5. CASE EndInitial \/ BeforeWave \/ AfterWave \/ TerminalWave \/ Captures \/ Terminal
    <2>1. \/ Park(fence)
          \/ fence' = fence /\ requested' = requested /\ (stage' \in Read => stage \in Read)
        BY <1>5 DEF EndInitial, BeforeWave, AfterWave, TerminalWave, Wave, Captures, Terminal,
           Continue
    <2>2. wanted' = wanted
        BY <1>5 DEF EndInitial, BeforeWave, AfterWave, TerminalWave, Wave, Captures, Terminal
    <2> QED
        BY <1>0, <1>2, <2>1, <2>2
<1>6. CASE EndWave
    <2>1. \/ Park(fence)
          \/ fence' = fence /\ requested' = requested /\ stage' \notin Read
        BY <1>6 DEF EndWave, Continue
    <2> QED
        BY <1>0, <1>2, <1>6, <2>1 DEF EndWave
<1>7. CASE Claim
    <2> DEFINE f == [fence EXCEPT !.claimed = TRUE, !.shutdowns = Registered]
    <2>1. f \in Fences /\ f.terminate = fence.terminate
        BY <1>0 DEF Fences, Registered
    <2> QED
        BY <1>2, <1>7, <2>1 DEF Claim, Continue
<1>8. ASSUME NEW refused \in SUBSET Windows, Quiesce(refused) PROVE Kept
    <2> DEFINE f == [fence EXCEPT !.shutdowns = fence.shutdowns \cup RetiringWindows]
    <2>1. f \in Fences /\ f.terminate = fence.terminate
        BY <1>0 DEF Fences, RetiringWindows
    <2>2. \/ Park(f)
          \/ fence' = f /\ requested' = requested /\ (stage' \in Read => stage \in Read)
        BY <1>8 DEF Quiesce, Quiesced, Continue
    <2> QED
        BY <1>2, <1>8, <2>1, <2>2 DEF Quiesce
<1>9. CASE Clear
    <2> DEFINE late == [fence EXCEPT !.shutdowns = IF borrowed THEN @ ELSE @ \cup Registered]
               done == [fence EXCEPT !.cleared = TRUE]
    <2>1. /\ late \in Fences /\ late.terminate = fence.terminate
          /\ done \in Fences /\ done.terminate = fence.terminate
        BY <1>0 DEF Fences, Registered
    <2>2. \/ Park(late)
          \/ fence' \in {fence, done} /\ requested' = requested /\ stage' \notin Read
        BY <1>9 DEF Clear, Continue
    <2> QED
        BY <1>0, <1>2, <1>9, <2>1, <2>2 DEF Clear
<1>10. CASE Barriers \/ EndFlush
    <2> DEFINE f == [fence EXCEPT !.terminate = @ \/ requested]
    <2>1. f \in Fences /\ (f.terminate <=> fence.terminate \/ requested)
        BY <1>0 DEF Fences
    <2>2. Park(f) \/ (fence' = f /\ requested' = FALSE)
        <3>1. CASE Barriers
            BY <3>1 DEF Barriers
        <3>2. CASE EndFlush
            BY <3>2 DEF EndFlush
        <3> QED
            BY <1>10, <3>1, <3>2
    <2>3. wanted' = wanted
        BY <1>10 DEF Barriers, EndFlush
    <2> QED
        BY <1>0, <1>2, <2>1, <2>2, <2>3
<1>11. CASE Final /\ FinalBlocked
    BY <1>0, <1>2, <1>11 DEF Final
<1> QED
    BY <1>1, <1>3, <1>4, <1>5, <1>6, <1>7, <1>8, <1>9, <1>10, <1>11 DEF Next, Advance, Borrow,
       Return, ReserveRelease, ReleaseEnds, Timer, OpenWindow, RemoveWindow, NativeDestroy,
       DeliverClosed, Retire, ScheduleBefore, ScheduleAfter, RunProtected, RunCallback, fenceVars

LEMMA SeenStep == IInv /\ Next => AttemptSeen'
<1> SUFFICES ASSUME IInv, Next PROVE AttemptSeen'
    OBVIOUS
<1> DEFINE Read == {"parked", "quiesce_last", "terminal_after", "final"}
<1>0. /\ FenceHeld /\ AttemptSeen
      /\ fence \in Fences /\ requested \in BOOLEAN /\ wanted \in BOOLEAN
      /\ critical \in [Callbacks -> {"new", "protected", "before", "after", "wave", "ran", "lost"}]
    BY DEF IInv, TypeInv, TypeOK, Fences
<1>1. stage' \in Read => ~requested'
    <2>1. ASSUME NEW terminate \in BOOLEAN, BeginShutdown(terminate), stage' \in Read
          PROVE ~requested'
        BY <1>0, <2>1 DEF BeginShutdown, AttemptSeen
    <2>2. ASSUME NEW terminate \in BOOLEAN, JoinShutdown(terminate), stage' \in Read
          PROVE ~requested'
        BY <1>0, <2>2 DEF JoinShutdown, Join, AttemptSeen, UserCode, CodeStages
    <2>3. ASSUME Final, ~FinalBlocked PROVE ~requested'
        BY <1>0, <2>3 DEF Final, AttemptSeen
    <2> QED
        BY <2>1, <2>2, <2>3, TerminateFrame
<1>2. ASSUME DebugAssertions PROVE In("lost")' = {}
    <2>0. In("lost") = {} /\ (fence.active => Owned)
        BY <1>0, <1>2 DEF AttemptSeen, Owned
    <2>1. ASSUME NEW c \in Callbacks, ScheduleBefore(c) \/ ScheduleAfter(c)
          PROVE In("lost")' = {}
        BY <1>0, <2>0, <2>1 DEF ScheduleBefore, ScheduleAfter, In
    <2>2. ASSUME NEW c \in Callbacks, RunProtected(c) \/ RunCallback(c) PROVE In("lost")' = {}
        BY <1>0, <2>0, <2>2 DEF RunProtected, RunCallback, In
    <2>3. ASSUME NEW terminate \in BOOLEAN, JoinShutdown(terminate) PROVE In("lost")' = {}
        BY <1>0, <2>0, <2>3 DEF JoinShutdown, Join, In
    <2>4. ASSUME NEW terminate \in BOOLEAN, BeginShutdown(terminate) PROVE In("lost")' = {}
        BY <1>0, <2>0, <2>4 DEF BeginShutdown, Moved, In
    <2>5. CASE BeforeWave \/ AfterWave \/ TerminalWave
        BY <1>0, <2>0, <2>5 DEF BeforeWave, AfterWave, TerminalWave, Wave, Moved, In
    <2>6. CASE critical' = critical
        BY <2>0, <2>6 DEF In
    <2> QED
        BY <2>1, <2>2, <2>3, <2>4, <2>5, <2>6, CallbackFrame
<1>3. ASSUME DebugAssertions, fence'.active PROVE In("protected")' = {}
    <2>1. ASSUME NEW terminate \in BOOLEAN, BeginShutdown(terminate) PROVE In("protected")' = {}
        BY <1>0, <2>1 DEF BeginShutdown, Moved, In
    <2>2. ASSUME ~ \E terminate \in BOOLEAN : BeginShutdown(terminate)
          PROVE In("protected")' = {}
        <3>0. fence.active /\ Owned
            <4>1. Final /\ ~FinalBlocked => ~fence'.active
                BY DEF Final, NoFence
            <4> QED
                BY <1>3, <2>2, <4>1, FenceFrame DEF Owned
        <3>1. In("protected") = {}
            BY <1>0, <1>3, <3>0 DEF AttemptSeen
        <3>2. ASSUME NEW c \in Callbacks, ScheduleBefore(c) \/ ScheduleAfter(c)
              PROVE In("protected")' = {}
            BY <1>0, <3>0, <3>1, <3>2 DEF ScheduleBefore, ScheduleAfter, In
        <3>3. ASSUME NEW c \in Callbacks, RunProtected(c) \/ RunCallback(c)
              PROVE In("protected")' = {}
            BY <1>0, <3>1, <3>3 DEF RunProtected, RunCallback, In
        <3>4. ASSUME NEW terminate \in BOOLEAN, JoinShutdown(terminate)
              PROVE In("protected")' = {}
            BY <1>0, <3>1, <3>4 DEF JoinShutdown, Join, Moved, In
        <3>5. CASE BeforeWave \/ AfterWave \/ TerminalWave
            BY <1>0, <3>1, <3>5 DEF BeforeWave, AfterWave, TerminalWave, Wave, Moved, In
        <3>6. CASE critical' = critical
            BY <3>1, <3>6 DEF In
        <3> QED
            BY <2>2, <3>2, <3>3, <3>4, <3>5, <3>6, CallbackFrame
    <2> QED
        BY <2>1, <2>2
<1>4. ASSUME DebugAssertions, fence'.active
      PROVE wanted' <=> fence'.terminate \/ requested'
    <2>1. ASSUME NEW terminate \in BOOLEAN, BeginShutdown(terminate)
          PROVE wanted' <=> fence'.terminate \/ requested'
        <3>1. ~requested /\ requested' = requested
            BY <1>0, <2>1 DEF BeginShutdown, FenceHeld, AttemptSeen
        <3>2. wanted' = terminate /\ fence'.terminate = terminate
            BY <2>1 DEF BeginShutdown, NoFence
        <3> QED
            BY <3>1, <3>2
    <2>2. ASSUME NEW terminate \in BOOLEAN, JoinShutdown(terminate)
          PROVE wanted' <=> fence'.terminate \/ requested'
        <3>1. fence.active /\ Owned /\ (wanted <=> fence.terminate \/ requested)
            BY <1>0, <1>4, <2>2 DEF JoinShutdown, Owned, AttemptSeen
        <3>2. \/ (fence'.terminate <=> fence.terminate \/ terminate) /\ requested' = requested
              \/ fence'.terminate = fence.terminate /\ (requested' <=> requested \/ terminate)
            BY <1>0, <2>2, <3>1 DEF JoinShutdown, Join, Fences
        <3>3. wanted' <=> wanted \/ terminate
            BY <2>2 DEF JoinShutdown
        <3> QED
            BY <3>1, <3>2, <3>3
    <2>3. CASE Final /\ ~FinalBlocked
        BY <1>4, <2>3 DEF Final, NoFence
    <2>4. CASE /\ ~ \E terminate \in BOOLEAN : BeginShutdown(terminate)
               /\ ~(Final /\ ~FinalBlocked)
               /\ wanted' = wanted
               /\ fence'.terminate \/ requested' <=> fence.terminate \/ requested
        <3>1. fence.active
            BY <1>4, <2>4, FenceFrame
        <3> QED
            BY <1>0, <1>4, <2>4, <3>1 DEF AttemptSeen
    <2> QED
        BY <2>1, <2>2, <2>3, <2>4, TerminateFrame
<1> QED
    BY <1>1, <1>2, <1>3, <1>4 DEF AttemptSeen
LEMMA InitIInv == Init => IInv
<1> SUFFICES ASSUME Init PROVE IInv
    OBVIOUS
<1>1. TypeInv
    <2>1. fence \in Fences
        BY NoFenceType DEF Init
    <2>2. /\ releases \in 0 .. MaxReleases /\ reserved \in releases .. MaxReleases
          /\ generation \in 0 .. MaxShutdowns /\ waves \in 0 .. WaveBudget /\ waves < WaveBudget
          /\ window_open_barrier_depth \in 0 .. 1
        BY FenceConstants DEF Init
    <2>3. /\ borrowed \in BOOLEAN /\ requested \in BOOLEAN /\ queued \in BOOLEAN
          /\ armed \in BOOLEAN /\ wanted \in BOOLEAN /\ quitting \in BOOLEAN
        BY DEF Init
    <2> QED
        BY <2>1, <2>2, <2>3 DEF Init, TypeInv, TypeOK, Stages, Fences
<1>2. ~fence.active /\ ~fence.prepared /\ ~fence.cleared
    BY DEF Init, NoFence
<1>3. \A place \in {"lost", "protected", "wave", "after"} : In(place) = {}
    BY DEF Init, In
<1>4. FenceHeld /\ ClearLasts
    BY <1>2 DEF Init, FenceHeld, ClearLasts
<1>5. StageEstablished /\ AttemptSeen
    BY <1>2, <1>3 DEF Init, StageEstablished, AfterClear, AttemptSeen
<1> QED
    BY <1>1, <1>4, <1>5 DEF IInv

LEMMA StepIInv == IInv /\ [Next]_vars => IInv'
<1>1. IInv /\ Next => IInv'
    BY TypeStep, HeldStep, ClearStep, StageStep, SeenStep DEF IInv
<1>2. IInv /\ UNCHANGED vars => IInv'
    BY DEF vars, windowVars, fenceVars, appVars, IInv, TypeInv, TypeOK, FenceHeld, ClearLasts,
       StageEstablished, AttemptSeen, Registered, RetiringWindows, In
<1> QED
    BY <1>1, <1>2

LEMMA Invariant == Spec => []IInv
BY InitIInv, StepIInv, PTL DEF Spec
-----------------------------------------------------------------------------
\* The state of the fence stays well typed in every build: at most one window-open
\* barrier is held, and no attempt runs more terminal waves than its budget.
THEOREM TypeCorrect == Spec => []TypeOK
<1>1. IInv => TypeOK
    BY DEF IInv, TypeInv
<1> QED
    BY Invariant, <1>1, PTL

\* take_all_for_shutdown happens only with every window quiesced, no release owed and no
\* callback waiting to run before it, whatever the code in the stages did, in every build.
THEOREM ClearAlwaysSafe == Spec => ClearedSafely
<1> DEFINE Safe == ~fence.cleared /\ fence'.cleared =>
               /\ \A w \in Windows : status[w] \in {"registered", "retiring"}
                                        => phase[w] \in {"quiesced", "terminal"}
               /\ releases = 0 /\ In("before") = {}
<1>1. IInv /\ [Next]_vars => [Safe]_vars
    <2> SUFFICES ASSUME IInv, Next, ~fence.cleared, fence'.cleared
                 PROVE  /\ \A w \in Windows : status[w] \in {"registered", "retiring"}
                                                 => phase[w] \in {"quiesced", "terminal"}
                        /\ releases = 0 /\ In("before") = {}
        OBVIOUS
    <2>1. Clear /\ ~ClearBlocked
        <3>1. ~ \E terminate \in BOOLEAN : BeginShutdown(terminate)
            BY DEF BeginShutdown, NoFence
        <3>2. ASSUME Final, ~FinalBlocked PROVE FALSE
            BY <3>2 DEF Final, NoFence
        <3> QED
            BY <3>1, <3>2, FenceFrame
    <2>2. releases = 0 /\ In("before") = {} /\ Registered \subseteq fence.shutdowns
        BY <2>1 DEF ClearBlocked, IInv, TypeInv, TypeOK
    <2>3. \A w \in fence.shutdowns \cup RetiringWindows : phase[w] \in {"quiesced", "terminal"}
        BY <2>1 DEF Clear, IInv, StageEstablished
    <2> QED
        BY <2>2, <2>3 DEF Registered, RetiringWindows
<1> QED
    BY Invariant, <1>1, PTL DEF Spec, ClearedSafely

\* A fence goes only by completing, from the last stage with nothing blocking it.
LEMMA FenceGoes ==
    ASSUME IInv, Next, fence.active, ~fence'.active
    PROVE  Final /\ ~FinalBlocked
<1>1. ~ \E terminate \in BOOLEAN : BeginShutdown(terminate)
    BY DEF BeginShutdown
<1> QED
    BY <1>1, FenceFrame

\* With debug assertions, a shutdown that completes leaves no window, release, Closed event
\* or critical callback behind, although the code of its stages and of others' updates
\* went on adding them (has_pending_shutdown_critical_work and the barriers before it).
THEOREM CompletionAlwaysFinal ==
    ASSUME DebugAssertions PROVE Spec => CompletionIsFinal
<1> DEFINE Nothing == fence.active /\ ~fence'.active =>
               /\ releases = 0 /\ closed = {}
               /\ \A w \in Windows : status[w] \in {"unopened", "gone"}
               /\ \A c \in Callbacks : critical[c] \in {"new", "ran"}
<1>1. IInv /\ [Next]_vars => [Nothing]_vars
    <2> SUFFICES ASSUME IInv, Next, fence.active, ~fence'.active
                 PROVE  /\ releases = 0 /\ closed = {}
                        /\ \A w \in Windows : status[w] \in {"unopened", "gone"}
                        /\ \A c \in Callbacks : critical[c] \in {"new", "ran"}
        OBVIOUS
    <2>1. stage = "final" /\ releases = 0 /\ RetiringWindows = {} /\ closed = {}
        BY FenceGoes DEF Final, FinalBlocked, BarriersClear
    <2>2. Registered = {} /\ In("before") = {}
        BY <2>1 DEF IInv, StageEstablished, AfterClear, ClearLasts
    <2>3. In("wave") = {} /\ In("after") = {} /\ In("lost") = {} /\ In("protected") = {}
        BY <2>1 DEF IInv, StageEstablished, WaveStages, AttemptSeen
    <2>4. \A w \in Windows : status[w] \in {"unopened", "gone"}
        BY <2>1, <2>2 DEF Registered, RetiringWindows, IInv, TypeInv, TypeOK
    <2>5. \A c \in Callbacks : critical[c] \in {"new", "ran"}
        BY <2>2, <2>3 DEF In, IInv, TypeInv, TypeOK
    <2> QED
        BY <2>1, <2>4, <2>5
<1> QED
    BY Invariant, <1>1, PTL DEF Spec, CompletionIsFinal

\* With debug assertions, a shutdown terminates the ingress exactly when it or one that
\* joined it asked for that, at whatever stage it joined (begin_shutdown_fence).
THEOREM TerminateNeverLost ==
    ASSUME DebugAssertions PROVE Spec => NoTerminateLost
<1> DEFINE Kept == fence.active /\ ~fence'.active => (ingress' = "terminated" <=> wanted)
<1>1. IInv /\ [Next]_vars => [Kept]_vars
    <2> SUFFICES ASSUME IInv, Next, fence.active, ~fence'.active
                 PROVE  ingress' = "terminated" <=> wanted
        OBVIOUS
    <2>1. stage = "final" /\ ingress' = IF fence.terminate THEN "terminated" ELSE "open"
        BY FenceGoes DEF Final
    <2>2. wanted <=> fence.terminate
        BY <2>1 DEF IInv, AttemptSeen
    <2> QED
        BY <2>1, <2>2
<1> QED
    BY Invariant, <1>1, PTL DEF Spec, NoTerminateLost
===============================================================================

----------------------- MODULE WindowRetirementProofs -----------------------
(***************************************************************************)
(* Proofs about WindowRetirement, for any windows and any number of        *)
(* releases, retries and continuations.                                    *)
(***************************************************************************)
EXTENDS WindowRetirement, FiniteSetTheorems, FunctionTheorems, TLAPS

States == {"logical", "queued", "retry", "native", "completion", "delivering"}
Outcomes == {"none", "not_required", "released", "failed", "native_terminal"}
Records == [window : Windows, drag : BOOLEAN, state : States, terminal : Outcomes,
            attempts : Nat, continuations : Nat]

\* Each release has its record.
ReleasesTyped == \A t \in DOMAIN releases : releases[t] \in Records

\* A release whose native window has been seen to be gone is over or about to be: its
\* continuations are due, with that outcome, or being called.
Ends(b) == /\ b.state \in {"completion", "delivering"}
           /\ b.state = "completion" => b.terminal = "native_terminal"
SeenEnds == \A t \in DOMAIN releases : releases[t].window \in observed => Ends(releases[t])

ReleaseInv == ReleasesTyped /\ SeenEnds

\* A window that is not gone has each window it was made to wait for among the gone ones
\* or among its dependencies, and a barrier that does not wait has no dependency left.
RequiredIsKept ==
    \A w \in Windows \ observed : required[w] \subseteq observed \cup dependencies[w]
NoneLeft(barriers, deps) ==
    \A w \in DOMAIN barriers : barriers[w] # "waiting" => deps[w] = {}

DependencyInv ==
    /\ DOMAIN retirements \subseteq Windows
    /\ dependencies \in [Windows -> SUBSET Windows] /\ required \in [Windows -> SUBSET Windows]
    /\ RequiredIsKept
    /\ NoneLeft(retirements, dependencies)
-----------------------------------------------------------------------------
(* Releases.                                                                 *)

\* complete_native_pointer_capture_release changes the state and the terminal of the
\* releases it is called for, and ends those that owe nobody a call.
LEMMA Completed ==
    ASSUME ReleasesTyped, NEW ts \in SUBSET DOMAIN releases, NEW terminal \in Outcomes,
           NEW before, NEW after, Complete(ts, terminal, before, after)
    PROVE  /\ DOMAIN releases' \subseteq DOMAIN releases
           /\ \A t \in DOMAIN releases' :
                /\ releases'[t] \in Records /\ releases'[t].window = releases[t].window
                /\ t \notin ts => releases'[t] = releases[t]
                /\ t \in ts /\ terminal = "native_terminal" => Ends(releases'[t])
                /\ t \in ts /\ terminal # "native_terminal" /\ Ends(releases[t])
                     => Ends(releases'[t])
<1> DEFINE over == ts \ Drags(ts)
           due == InState(Drags(ts), {"logical", "queued", "retry", "native"})
<1>1. releases' = [t \in DOMAIN releases \ over |->
                LET b == releases[t] IN
                IF t \in due THEN [b EXCEPT !.state = "completion", !.terminal = terminal]
                ELSE IF t \in ts /\ b.state = "completion"
                THEN [b EXCEPT !.terminal = Outranked(b, terminal)]
                ELSE b]
    BY DEF Complete
<1>2. SUFFICES ASSUME NEW t \in DOMAIN releases'
               PROVE  /\ releases'[t] \in Records /\ releases'[t].window = releases[t].window
                      /\ t \notin ts => releases'[t] = releases[t]
                      /\ t \in ts /\ terminal = "native_terminal" => Ends(releases'[t])
                      /\ t \in ts /\ terminal # "native_terminal" /\ Ends(releases[t])
                           => Ends(releases'[t])
    BY <1>1
<1> DEFINE b == releases[t]
<1>3. t \in DOMAIN releases /\ t \notin over /\ b \in Records
    BY <1>1, <1>2 DEF ReleasesTyped
<1>4. CASE t \in due
    <2>1. releases'[t] = [b EXCEPT !.state = "completion", !.terminal = terminal] /\ t \in ts
        BY <1>1, <1>2, <1>4 DEF InState, Drags
    <2>2. b.state \in {"logical", "queued", "retry", "native"}
        BY <1>4 DEF InState
    <2> QED
        BY <1>3, <2>1, <2>2 DEF Records, States, Ends
<1>5. CASE t \notin due /\ t \in ts /\ b.state = "completion"
    <2>1. releases'[t] = [b EXCEPT !.terminal = Outranked(b, terminal)]
        BY <1>1, <1>2, <1>5
    <2> QED
        BY <1>3, <1>5, <2>1 DEF Records, States, Ends, Outranked
<1>6. CASE t \notin due /\ ~(t \in ts /\ b.state = "completion")
    <2>1. releases'[t] = b
        BY <1>1, <1>2, <1>6
    <2>2. t \in ts => b.state = "delivering"
        BY <1>3, <1>6 DEF InState, Drags, Records, States
    <2> QED
        BY <1>3, <2>1, <2>2 DEF Ends
<1> QED
    BY <1>4, <1>5, <1>6

\* A release that is completed with another outcome has a window that is not known to be
\* gone, and the end of a native window completes all its releases.
LEMMA CompleteKeeps ==
    ASSUME ReleaseInv, NEW ts \in SUBSET DOMAIN releases, NEW terminal \in Outcomes,
           NEW before, NEW after, Complete(ts, terminal, before, after),
           NEW w, observed' \in {observed, observed \cup {w}},
           observed' # observed => ts = ReleasesOf(w) /\ terminal = "native_terminal"
    PROVE  ReleaseInv'
<1>1. /\ DOMAIN releases' \subseteq DOMAIN releases
      /\ \A t \in DOMAIN releases' :
           /\ releases'[t] \in Records /\ releases'[t].window = releases[t].window
           /\ t \notin ts => releases'[t] = releases[t]
           /\ t \in ts /\ terminal = "native_terminal" => Ends(releases'[t])
           /\ t \in ts /\ terminal # "native_terminal" /\ Ends(releases[t]) => Ends(releases'[t])
    BY Completed DEF ReleaseInv
<1>2. ASSUME NEW t \in DOMAIN releases', releases'[t].window \in observed'
      PROVE  Ends(releases'[t])
    <2>1. CASE releases[t].window \in observed
        BY <1>1, <1>2, <2>1 DEF ReleaseInv, SeenEnds
    <2>2. CASE releases[t].window \notin observed
        BY <1>1, <1>2, <2>2 DEF ReleasesOf
    <2> QED
        BY <2>1, <2>2
<1> QED
    BY <1>1, <1>2 DEF ReleaseInv, ReleasesTyped, SeenEnds

\* A step that sees no window go, and moves records that have not ended, or keeps what
\* matters of them.
LEMMA MoveKeeps ==
    ASSUME ReleaseInv, observed' = observed,
           \A t \in DOMAIN releases' :
             /\ releases'[t] \in Records
             /\ \/ /\ t \in DOMAIN releases /\ releases'[t].window = releases[t].window
                   /\ Ends(releases[t]) => Ends(releases'[t])
                \/ releases'[t].window \notin observed
                \/ Ends(releases'[t])
    PROVE  ReleaseInv'
BY DEF ReleaseInv, ReleasesTyped, SeenEnds

LEMMA ReleaseInit == Init => ReleaseInv
BY DEF Init, ReleaseInv, ReleasesTyped, SeenEnds

\* A reservation for a window that is gone ends at once.
LEMMA ReserveReleases ==
    ASSUME ReleaseInv, NEW w \in Windows, NEW drag \in BOOLEAN, NEW continued \in BOOLEAN,
           Reserve(w, drag, continued)
    PROVE  ReleaseInv'
<1> DEFINE n == next_release
           b == [window |-> w, drag |-> drag, state |-> "logical", terminal |-> "none",
                 attempts |-> 0, continuations |-> IF continued THEN 1 ELSE 0]
           c == [b EXCEPT !.state = "completion", !.terminal = "native_terminal"]
<1>0. observed' = observed
    BY DEF Reserve, windowVars
<1>1. b \in Records /\ c \in Records /\ Ends(c) /\ b.window = w
    BY DEF Records, States, Outcomes, Ends
<1>2. \/ releases' = releases
      \/ w \notin observed /\ releases' = With(releases, n, b)
      \/ releases' = With(releases, n, c)
    BY DEF Reserve
<1> HIDE DEF b, c
<1>3. ASSUME NEW t \in DOMAIN releases'
      PROVE  /\ releases'[t] \in Records
             /\ \/ t \in DOMAIN releases /\ releases'[t] = releases[t]
                \/ releases'[t].window \notin observed
                \/ Ends(releases'[t])
    BY <1>1, <1>2, <1>3 DEF With, ReleaseInv, ReleasesTyped
<1> QED
    BY <1>0, <1>3, MoveKeeps

\* Records that are changed in place.
LEMMA EditKeeps ==
    ASSUME ReleaseInv, observed' = observed, DOMAIN releases' \subseteq DOMAIN releases,
           NEW ts, \A t \in ts \cap DOMAIN releases' :
                     /\ releases'[t] \in Records /\ releases'[t].window = releases[t].window
                     /\ Ends(releases[t]) => Ends(releases'[t]),
           \A t \in DOMAIN releases' \ ts : releases'[t] = releases[t]
    PROVE  ReleaseInv'
BY MoveKeeps DEF ReleaseInv, ReleasesTyped

\* The end of a native window ends its releases.
LEMMA SettleTerminalReleases ==
    ASSUME ReleaseInv, NEW w, NEW barriers, NEW rest, SettleTerminal(w, barriers, rest)
    PROVE  ReleaseInv'
<1>1. ReleasesOf(w) \in SUBSET DOMAIN releases /\ "native_terminal" \in Outcomes
    BY DEF ReleasesOf, Outcomes
<1>2. Complete(ReleasesOf(w), "native_terminal", rest,
               RetireItems(Without(barriers, {w}), Ready(w)))
      /\ observed' = observed \cup {w}
    BY DEF SettleTerminal
<1> QED
    BY <1>1, <1>2, CompleteKeeps

\* A retry moves releases that wait for it only.
LEMMA RetryReleases ==
    ASSUME ReleaseInv, observed' = observed, NEW matching, NEW rest,
           NEW due \in SUBSET InState(DOMAIN releases, {"retry"}), Retry(matching, due, rest)
    PROVE  ReleaseInv'
<1>1. releases' = [t \in DOMAIN releases |->
                      IF t \in due THEN [releases[t] EXCEPT !.state = "queued"]
                      ELSE releases[t]]
    BY DEF Retry
<1>2. ASSUME NEW t \in due
      PROVE  /\ releases'[t] \in Records /\ releases'[t].window = releases[t].window
             /\ ~Ends(releases[t])
    <2>1. releases[t] \in Records /\ releases[t].state = "retry" /\ t \in DOMAIN releases
        BY DEF ReleaseInv, ReleasesTyped, InState
    <2> QED
        BY <1>1, <2>1 DEF Records, States, Ends
<1>3. \A t \in DOMAIN releases' \ due : releases'[t] = releases[t]
    BY <1>1
<1> QED
    BY <1>1, <1>2, <1>3, EditKeeps

\* A record of which only one field moves on.
LEMMA StateEdit ==
    ASSUME ReleaseInv, observed' = observed, NEW t \in DOMAIN releases, NEW state \in States,
           releases' = [releases EXCEPT ![t].state = state],
           Ends(releases[t]) => state = "delivering"
    PROVE  ReleaseInv'
<1>1. releases[t] \in Records
    BY DEF ReleaseInv, ReleasesTyped
<1>2. releases'[t] = [releases[t] EXCEPT !.state = state] /\ DOMAIN releases' = DOMAIN releases
    OBVIOUS
<1>3. /\ releases'[t] \in Records /\ releases'[t].window = releases[t].window
      /\ Ends(releases[t]) => Ends(releases'[t])
    BY <1>1, <1>2 DEF Records, States, Ends
<1> DEFINE ts == {t}
<1>4. \A u \in DOMAIN releases' \ ts : releases'[u] = releases[u]
    OBVIOUS
<1>5. \A u \in ts \cap DOMAIN releases' :
        /\ releases'[u] \in Records /\ releases'[u].window = releases[u].window
        /\ Ends(releases[u]) => Ends(releases'[u])
    BY <1>3
<1>6. DOMAIN releases' \subseteq DOMAIN releases
    BY <1>2
<1> HIDE DEF ts
<1> QED
    BY <1>4, <1>5, <1>6, EditKeeps

\* A record of which the continuations change.
LEMMA ContinuationEdit ==
    ASSUME ReleaseInv, observed' = observed, NEW t, NEW n \in Nat,
           releases' = [releases EXCEPT ![t].continuations = n]
    PROVE  ReleaseInv'
<1>1. /\ DOMAIN releases' = DOMAIN releases
      /\ \A u \in DOMAIN releases' \ {t} : releases'[u] = releases[u]
    OBVIOUS
<1>2. ASSUME t \in DOMAIN releases
      PROVE  /\ releases'[t] \in Records /\ releases'[t].window = releases[t].window
             /\ Ends(releases[t]) => Ends(releases'[t])
    <2>1. releases[t] \in Records
        BY <1>2 DEF ReleaseInv, ReleasesTyped
    <2>2. releases'[t] = [releases[t] EXCEPT !.continuations = n]
        BY <1>2
    <2> QED
        BY <2>1, <2>2 DEF Records, Ends
<1>3. \A u \in {t} \cap DOMAIN releases' :
        /\ releases'[u] \in Records /\ releases'[u].window = releases[u].window
        /\ Ends(releases[u]) => Ends(releases'[u])
    BY <1>1, <1>2
<1> QED
    BY <1>1, <1>3, EditKeeps

\* Every step keeps the releases of the windows that are gone on their way.
LEMMA ReleaseStep == ReleaseInv /\ [Next]_retirementVars => ReleaseInv'
<1> SUFFICES ASSUME ReleaseInv, [Next]_retirementVars PROVE ReleaseInv'
    OBVIOUS
<1> USE DEF windowVars, releaseVars, deliveryVars
<1>same. ASSUME UNCHANGED <<releases, observed>> PROVE ReleaseInv'
    BY <1>same DEF ReleaseInv, ReleasesTyped, SeenEnds, Ends
<1>u. CASE UNCHANGED retirementVars
    BY <1>u, <1>same DEF retirementVars
<1>ts. \A t \in DOMAIN releases : {t} \in SUBSET DOMAIN releases
    OBVIOUS
<1>1. ASSUME NEW w \in Windows, NEW drag \in BOOLEAN, NEW continued \in BOOLEAN,
             Reserve(w, drag, continued)
      PROVE  ReleaseInv'
    BY <1>1, ReserveReleases
<1>2. ASSUME NEW w \in Windows, NEW windows, Register(w, windows) PROVE ReleaseInv'
    BY <1>2, <1>same DEF Register
<1>3. ASSUME NEW w \in Windows, CancelDependencies(w) PROVE ReleaseInv'
    BY <1>3, <1>same DEF CancelDependencies
<1>4. ASSUME NEW w \in Windows, RemoveWindow(w) PROVE ReleaseInv'
    <2>1. CASE w \in observed
        <3>1. PICK rest : Complete(ReleasesOf(w), "native_terminal", rest, <<>>)
            BY <1>4, <2>1 DEF RemoveWindow
        <3>2. ReleasesOf(w) \in SUBSET DOMAIN releases /\ "native_terminal" \in Outcomes
            BY DEF ReleasesOf, Outcomes
        <3> QED
            BY <1>4, <3>1, <3>2, CompleteKeeps DEF RemoveWindow
    <2>2. CASE w \notin observed
        <3> DEFINE ts == InState(ReleasesOf(w), {"logical"})
        <3>1. releases' = [t \in DOMAIN releases |->
                    IF t \in ts THEN [releases[t] EXCEPT !.state = "native"] ELSE releases[t]]
            BY <1>4, <2>2 DEF RemoveWindow
        <3>2. ASSUME NEW t \in ts
              PROVE  /\ releases'[t] \in Records /\ releases'[t].window = releases[t].window
                     /\ ~Ends(releases[t])
            <4>1. releases[t] \in Records /\ releases[t].state = "logical"
                  /\ t \in DOMAIN releases
                BY DEF ReleaseInv, ReleasesTyped, InState, ReleasesOf
            <4> QED
                BY <3>1, <4>1 DEF Records, States, Ends
        <3>3. \A t \in DOMAIN releases' \ ts : releases'[t] = releases[t]
            BY <3>1
        <3>4. observed' = observed
            BY <1>4 DEF RemoveWindow
        <3> HIDE DEF ts
        <3> QED
            BY <3>1, <3>2, <3>3, <3>4, EditKeeps
    <2> QED
        BY <2>1, <2>2
<1>5. ASSUME NEW t \in Tokens, Attach(t) PROVE ReleaseInv'
    <2>1. t \in DOMAIN releases /\ observed' = observed
          /\ releases' = [releases EXCEPT ![t].continuations = releases[t].continuations + 1]
        BY <1>5 DEF Attach
    <2>2. releases[t].continuations + 1 \in Nat
        BY <2>1 DEF ReleaseInv, ReleasesTyped, Records
    <2> QED
        BY <2>1, <2>2, ContinuationEdit
<1>6. ASSUME NEW t \in Tokens, Abandon(t) PROVE ReleaseInv'
    <2>1. t \in DOMAIN releases /\ observed' = observed /\ releases[t].state = "logical"
        BY <1>6 DEF Abandon
    <2>2. CASE releases[t].window \in observed
        <3>1. Complete({t}, "native_terminal", queue, <<>>) /\ "native_terminal" \in Outcomes
            BY <1>6, <2>2 DEF Abandon, Outcomes
        <3> QED
            BY <1>ts, <2>1, <3>1, CompleteKeeps
    <2>3. CASE releases[t].window \notin observed
        <3>1. releases' = [releases EXCEPT ![t].state = "native"] /\ "native" \in States
            BY <1>6, <2>3 DEF Abandon, States
        <3> QED
            BY <2>1, <3>1, StateEdit DEF Ends
    <2> QED
        BY <2>2, <2>3
<1>7. ASSUME NEW t \in Tokens, NEW needed \in BOOLEAN, SettleRelease(t, needed)
      PROVE ReleaseInv'
    <2>1. t \in DOMAIN releases /\ observed' = observed /\ releases[t].state = "logical"
        BY <1>7 DEF SettleRelease
    <2>2. CASE \E terminal \in Outcomes : Complete({t}, terminal, queue, <<>>)
        BY <1>ts, <2>1, <2>2, CompleteKeeps
    <2>3. CASE needed /\ releases[t].window \notin observed
        <3>1. releases' = [releases EXCEPT ![t].state = "queued"] /\ "queued" \in States
            BY <1>7, <2>3 DEF SettleRelease, States
        <3> QED
            BY <2>1, <3>1, StateEdit DEF Ends
    <2> QED
        BY <1>7, <2>2, <2>3 DEF SettleRelease, Outcomes
<1>8. CASE Stale \/ CallContinuation
    BY <1>8, <1>same DEF Stale, CallContinuation
<1>9. CASE TakeContinuations
    BY <1>9, ContinuationEdit DEF TakeContinuations
<1>10. CASE FinishCompletion
    <2>1. /\ observed' = observed /\ DOMAIN releases' \subseteq DOMAIN releases
          /\ \A t \in DOMAIN releases' : releases'[t] = releases[t]
        BY <1>10 DEF FinishCompletion, Without, Restrict
    <2> QED
        BY <2>1, MoveKeeps DEF ReleaseInv, ReleasesTyped
<1>11. ASSUME NEW w \in Windows, DeliverClosed(w) PROVE ReleaseInv'
    <2>1. PICK barriers, rest : SettleTerminal(w, barriers, rest)
        BY <1>11 DEF DeliverClosed
    <2> QED
        BY <2>1, SettleTerminalReleases
<1>12. ASSUME NEW w \in Windows, RetireAccepted(w) PROVE ReleaseInv'
    <2>1. CASE w \in observed
        BY <1>12, <2>1, SettleTerminalReleases DEF RetireAccepted
    <2>2. CASE w \notin observed
        BY <1>12, <2>2, <1>same DEF RetireAccepted
    <2> QED
        BY <2>1, <2>2
<1>13. ASSUME NEW w \in Windows, RetireFindsTerminal(w) PROVE ReleaseInv'
    BY <1>13, SettleTerminalReleases DEF RetireFindsTerminal
<1>14. ASSUME NEW w \in Windows, RetireRejected(w) \/ RetirePanics(w) PROVE ReleaseInv'
    BY <1>14, <1>same DEF RetireRejected, RetirePanics
<1>15. ASSUME NEW t \in Tokens, ReleaseDispatched(t)
       PROVE  t \in DOMAIN releases /\ releases[t].state = "queued"
    BY <1>15 DEF ReleaseDispatched, InState
<1>16. ASSUME NEW t \in Tokens, Released(t) PROVE ReleaseInv'
    <2>1. Complete({t}, "released", Tail(queue), <<>>) /\ "released" \in Outcomes
          /\ observed' = observed /\ t \in DOMAIN releases
        BY <1>15, <1>16 DEF Released, Outcomes
    <2> QED
        BY <1>ts, <2>1, CompleteKeeps
<1>17. ASSUME NEW t \in Tokens, ReleaseFindsTerminal(t) PROVE ReleaseInv'
    BY <1>17, SettleTerminalReleases DEF ReleaseFindsTerminal
<1>18. ASSUME NEW t \in Tokens, ReleaseRejected(t) PROVE ReleaseInv'
    <2> DEFINE epoch == releases[t].attempts + 1
    <2>1. t \in DOMAIN releases /\ releases[t].state = "queued" /\ observed' = observed
          /\ Defer(t, Tail(queue)) /\ releases[t] \in Records
        BY <1>15, <1>18 DEF ReleaseRejected, ReleaseInv, ReleasesTyped
    <2>2. CASE epoch <= MaxRetries
        <3>1. releases' = [releases EXCEPT ![t].state = "retry", ![t].attempts = epoch]
            BY <2>1, <2>2 DEF Defer
        <3>2. releases'[t] \in Records /\ releases'[t].window = releases[t].window
              /\ ~Ends(releases[t])
            BY <2>1, <3>1 DEF Records, States, Ends
        <3>3. DOMAIN releases' = DOMAIN releases
              /\ \A u \in DOMAIN releases' \ {t} : releases'[u] = releases[u]
            BY <3>1
        <3> QED
            BY <2>1, <3>2, <3>3, EditKeeps
    <2>3. CASE ~(epoch <= MaxRetries)
        <3>1. Complete({t}, "failed", Tail(queue), <<>>) /\ "failed" \in Outcomes
            BY <2>1, <2>3 DEF Defer, Outcomes
        <3> QED
            BY <1>ts, <2>1, <3>1, CompleteKeeps
    <2> QED
        BY <2>2, <2>3
<1>19. ASSUME NEW t \in Tokens, BeginCompletion(t) PROVE ReleaseInv'
    BY <1>19, StateEdit DEF BeginCompletion, InState, States
<1>20. ASSUME NEW w \in Windows, RetryProgress(w, queue) \/ RetryProgress(w, Append(queue, Item("closed", w))),
              observed' = observed
       PROVE  ReleaseInv'
    <2>1. InState(ReleasesOf(w), {"retry"}) \in SUBSET InState(DOMAIN releases, {"retry"})
        BY DEF InState, ReleasesOf
    <2> QED
        BY <1>20, <2>1, RetryReleases DEF RetryProgress
<1>21. ASSUME NEW w \in Windows, NativeDestroy(w) \/ Progress(w) PROVE ReleaseInv'
    BY <1>20, <1>21 DEF NativeDestroy, Progress
<1>22. ASSUME NEW w \in Windows, RetireTimer(w) PROVE ReleaseInv'
    BY <1>22, <1>same DEF RetireTimer
<1>23. ASSUME NEW t \in Tokens, NEW epoch, RetryTimer(t, epoch) PROVE ReleaseInv'
    BY <1>23, RetryReleases DEF RetryTimer
<1> QED
    BY <1>u, <1>1, <1>2, <1>3, <1>4, <1>5, <1>6, <1>7, <1>8, <1>9, <1>10, <1>11, <1>12, <1>13,
       <1>14, <1>16, <1>17, <1>18, <1>19, <1>21, <1>22, <1>23
       DEF Next, Application, Drain

\* The continuations of a drag that are called after its native window was seen to be gone
\* are told so, whatever outcome the release had before (cell.rs:
\* complete_native_pointer_capture_release, settle_native_window_terminal).
THEOREM GoneIsNews == Spec => []TerminalIsNews
<1>1. ReleaseInv => TerminalIsNews
    BY DEF ReleaseInv, SeenEnds, Ends, TerminalIsNews
<1> QED
    BY <1>1, ReleaseInit, ReleaseStep, PTL DEF Spec
-----------------------------------------------------------------------------
(* Dependencies.                                                             *)

LEMMA DependencyInit == Init => DependencyInv
BY DEF Init, DependencyInv, RequiredIsKept, NoneLeft

\* A step that leaves the dependencies alone, and lets only barriers without a dependency
\* go on.
LEMMA BarriersMove ==
    ASSUME DependencyInv, UNCHANGED <<observed, dependencies, required>>,
           DOMAIN retirements' \subseteq Windows,
           \A w \in DOMAIN retirements' :
             \/ w \in DOMAIN retirements /\ retirements'[w] = retirements[w]
             \/ retirements'[w] = "waiting" \/ dependencies[w] = {}
    PROVE  DependencyInv'
BY DEF DependencyInv, RequiredIsKept, NoneLeft

\* The end of a native window frees the anchors that waited for it alone.
LEMMA SettleTerminalDependencies ==
    ASSUME DependencyInv, UNCHANGED required, NEW w \in Windows, NEW barriers, NEW rest,
           DOMAIN barriers \subseteq Windows, NoneLeft(barriers, dependencies),
           SettleTerminal(w, barriers, rest)
    PROVE  DependencyInv'
<1> DEFINE left == Without(barriers, {w})
<1>1. /\ observed' = observed \cup {w}
      /\ dependencies' = [a \in Windows |-> IF a = w THEN {} ELSE dependencies[a] \ {w}]
      /\ retirements' = GoOn(left, Ready(w))
    BY DEF SettleTerminal
<1>2. DOMAIN left \subseteq DOMAIN barriers /\ \A a \in DOMAIN left : left[a] = barriers[a]
    BY DEF Without, Restrict
<1> HIDE DEF left
<1>3. dependencies' \in [Windows -> SUBSET Windows] /\ RequiredIsKept'
    BY <1>1 DEF DependencyInv, RequiredIsKept
<1>4. ASSUME NEW a \in DOMAIN retirements', retirements'[a] # "waiting"
      PROVE  a \in Windows /\ dependencies'[a] = {}
    <2>1. a \in DOMAIN barriers /\ a \in Windows
        BY <1>1, <1>2, <1>4 DEF GoOn
    <2>2. \/ a \in Ready(w) /\ left[a] = "waiting"
          \/ retirements'[a] = left[a]
        BY <1>1, <1>4 DEF GoOn
    <2>3. dependencies[a] = {} \/ dependencies[a] = {w}
        BY <1>1, <1>2, <1>4, <2>1, <2>2 DEF Ready, NoneLeft, GoOn
    <2> QED
        BY <1>1, <2>1, <2>3
<1>5. DOMAIN retirements' \subseteq Windows
    BY <1>1, <1>2 DEF GoOn
<1> QED
    BY <1>3, <1>4, <1>5 DEF DependencyInv, NoneLeft

\* A window that is removed waits if it has dependencies.
LEMMA FirstStateFits ==
    ASSUME DependencyInv, NEW w \in Windows
    PROVE  /\ DOMAIN With(retirements, w, FirstState(w)) \subseteq Windows
           /\ NoneLeft(With(retirements, w, FirstState(w)), dependencies)
BY DEF DependencyInv, NoneLeft, With, FirstState

\* Every step keeps the dependencies.
LEMMA DependencyStep == ReleaseInv /\ DependencyInv /\ [Next]_retirementVars => DependencyInv'
<1> SUFFICES ASSUME ReleaseInv, DependencyInv, [Next]_retirementVars PROVE DependencyInv'
    OBVIOUS
<1> USE DEF windowVars, releaseVars, deliveryVars
<1>same. ASSUME UNCHANGED <<retirements, observed, dependencies, required>>
         PROVE DependencyInv'
    BY <1>same DEF DependencyInv, RequiredIsKept, NoneLeft
<1>u. CASE UNCHANGED retirementVars
    BY <1>u, <1>same DEF retirementVars
<1>kept. DOMAIN retirements \subseteq Windows /\ NoneLeft(retirements, dependencies)
    BY DEF DependencyInv
<1>1. ASSUME NEW w \in Windows, NEW drag, NEW continued, Reserve(w, drag, continued)
      PROVE  DependencyInv'
    BY <1>1, <1>same DEF Reserve
<1>2. ASSUME NEW w \in Windows, NEW windows \in SUBSET Windows, Register(w, windows)
      PROVE DependencyInv'
    <2> DEFINE alive == windows \ observed
    <2>1. /\ dependencies' = [dependencies EXCEPT ![w] = dependencies[w] \cup alive]
          /\ required' = [required EXCEPT ![w] = required[w] \cup alive]
          /\ w \notin DOMAIN retirements /\ UNCHANGED <<observed, retirements>>
        BY <1>2 DEF Register
    <2> QED
        BY <2>1 DEF DependencyInv, RequiredIsKept, NoneLeft
<1>3. ASSUME NEW w \in Windows, CancelDependencies(w) PROVE DependencyInv'
    <2>1. /\ dependencies' = [dependencies EXCEPT ![w] = {}]
          /\ required' = [required EXCEPT ![w] = {}]
          /\ retirements' = GoOn(retirements, {w}) /\ observed' = observed
        BY <1>3 DEF CancelDependencies
    <2> QED
        BY <2>1 DEF DependencyInv, RequiredIsKept, NoneLeft, GoOn
<1>4. ASSUME NEW w \in Windows, RemoveWindow(w) PROVE DependencyInv'
    <2>1. retirements' = With(retirements, w, FirstState(w))
          /\ UNCHANGED <<observed, dependencies, required>>
        BY <1>4 DEF RemoveWindow
    <2> QED
        BY <2>1, FirstStateFits DEF DependencyInv, RequiredIsKept
<1>5. ASSUME NEW t \in Tokens, Attach(t) PROVE DependencyInv'
    BY <1>5, <1>same DEF Attach
<1>6. ASSUME NEW t \in Tokens, Abandon(t) PROVE DependencyInv'
    BY <1>6, <1>same DEF Abandon
<1>7. ASSUME NEW t \in Tokens, NEW needed, SettleRelease(t, needed) PROVE DependencyInv'
    BY <1>7, <1>same DEF SettleRelease
<1>8. CASE Stale \/ TakeContinuations \/ CallContinuation \/ FinishCompletion
    BY <1>8, <1>same DEF Stale, TakeContinuations, CallContinuation, FinishCompletion
<1>9. ASSUME NEW w \in Windows, DeliverClosed(w) PROVE DependencyInv'
    <2>1. CASE w \in registered
        <3>1. PICK rest : SettleTerminal(w, With(retirements, w, FirstState(w)), rest)
            BY <1>9, <2>1 DEF DeliverClosed
        <3>2. UNCHANGED required
            BY <1>9 DEF DeliverClosed
        <3> QED
            BY <3>1, <3>2, FirstStateFits, SettleTerminalDependencies
    <2>2. CASE w \notin registered
        BY <1>9, <1>kept, <2>2, SettleTerminalDependencies DEF DeliverClosed
    <2> QED
        BY <2>1, <2>2
<1>10. ASSUME NEW w \in Windows, Retiring(w)
       PROVE  UNCHANGED required /\ w \in DOMAIN retirements /\ dependencies[w] = {}
    BY <1>10 DEF Retiring, DependencyInv, NoneLeft
<1>11. ASSUME NEW w \in Windows, NEW state, dependencies[w] = {},
              retirements' = [retirements EXCEPT ![w] = state],
              UNCHANGED <<observed, dependencies, required>>
       PROVE  DependencyInv'
    BY <1>11, <1>kept, BarriersMove
<1>12. ASSUME NEW w \in Windows, RetireAccepted(w) PROVE DependencyInv'
    <2>0. Retiring(w)
        BY <1>12 DEF RetireAccepted
    <2>1. CASE w \in observed
        BY <1>10, <1>12, <1>kept, <2>0, <2>1, SettleTerminalDependencies DEF RetireAccepted
    <2>2. CASE w \notin observed
        BY <1>10, <1>11, <1>12, <2>0, <2>2 DEF RetireAccepted
    <2> QED
        BY <2>1, <2>2
<1>13. ASSUME NEW w \in Windows, RetireFindsTerminal(w) PROVE DependencyInv'
    BY <1>10, <1>13, <1>kept, SettleTerminalDependencies DEF RetireFindsTerminal
<1>14. ASSUME NEW w \in Windows, RetireRejected(w) PROVE DependencyInv'
    BY <1>10, <1>11, <1>14 DEF RetireRejected
<1>15. ASSUME NEW w \in Windows, RetirePanics(w) PROVE DependencyInv'
    BY <1>10, <1>11, <1>15 DEF RetirePanics
<1>16. ASSUME NEW t \in Tokens, Released(t) PROVE DependencyInv'
    BY <1>16, <1>same DEF Released
<1>17. ASSUME NEW t \in Tokens, ReleaseFindsTerminal(t) PROVE DependencyInv'
    <2>1. releases[t].window \in Windows
        BY <1>17 DEF ReleaseFindsTerminal, ReleaseDispatched, InState, ReleaseInv,
                     ReleasesTyped, Records
    <2> QED
        BY <1>17, <1>kept, <2>1, SettleTerminalDependencies DEF ReleaseFindsTerminal
<1>18. ASSUME NEW t \in Tokens, ReleaseRejected(t) PROVE DependencyInv'
    BY <1>18, <1>same DEF ReleaseRejected
<1>19. ASSUME NEW t \in Tokens, BeginCompletion(t) PROVE DependencyInv'
    BY <1>19, <1>same DEF BeginCompletion
<1>20. ASSUME NEW w \in Windows, NativeDestroy(w) \/ Progress(w) PROVE DependencyInv'
    BY <1>20, <1>same DEF NativeDestroy, Progress
<1>21. ASSUME NEW w \in Windows, RetireTimer(w) PROVE DependencyInv'
    <2>1. dependencies[w] = {}
        BY <1>21 DEF RetireTimer, DependencyInv, NoneLeft
    <2> QED
        BY <1>11, <1>21, <2>1 DEF RetireTimer
<1>22. ASSUME NEW t \in Tokens, NEW epoch, RetryTimer(t, epoch) PROVE DependencyInv'
    BY <1>22, <1>same DEF RetryTimer
<1> QED
    BY <1>u, <1>1, <1>2, <1>3, <1>4, <1>5, <1>6, <1>7, <1>8, <1>9, <1>12, <1>13, <1>14, <1>15,
       <1>16, <1>17, <1>18, <1>19, <1>20, <1>21, <1>22
       DEF Next, Application, Drain

\* A native window that is not known to be gone is offered to the platform for destruction
\* only when every window it was made to wait for has been seen to be gone, in whatever
\* order windows are removed, retried, cancelled and reported gone (cell.rs:
\* register_native_window_retirement_dependencies, settle_native_window_terminal).
THEOREM AnchorsWait == Spec => []DependenciesFirst
<1>1. DependencyInv => DependenciesFirst
    BY DEF DependencyInv, RequiredIsKept, NoneLeft, DependenciesFirst
<1> QED
    BY <1>1, ReleaseInit, ReleaseStep, DependencyInit, DependencyStep, PTL DEF Spec
-----------------------------------------------------------------------------
(* Sequences: what is in them, and what is there once.                      *)

Has(s, x) == \E i \in 1 .. Len(s) : s[i] = x
Once(s, x) == \E i \in 1 .. Len(s) : s[i] = x /\ \A j \in 1 .. Len(s) : s[j] = x => j = i

\* The places of a sequence that hold wanted elements are numbered by their rank.
LEMMA RanksCount ==
    ASSUME NEW n \in Nat, NEW places \in SUBSET (1 .. n)
    PROVE  /\ IsFiniteSet(places) /\ Cardinality(places) \in Nat
           /\ LET rank == [i \in places |-> Cardinality({j \in places : j <= i})] IN
              /\ rank \in [places -> 1 .. Cardinality(places)]
              /\ \A i, k \in places : rank[i] = rank[k] => i = k
              /\ \A k \in 1 .. Cardinality(places) : \E i \in places : rank[i] = k
<1> DEFINE upto(i) == {j \in places : j <= i}
           rank == [i \in places |-> Cardinality(upto(i))]
           N == Cardinality(places)
<1>0. IsFiniteSet(1 .. n)
    BY FS_Interval
<1>1. IsFiniteSet(places) /\ N \in Nat
    BY <1>0, FS_Subset, FS_CardinalityType
<1>2. ASSUME NEW i \in places
      PROVE  IsFiniteSet(upto(i)) /\ Cardinality(upto(i)) \in 1 .. N
    <2>1. upto(i) \in SUBSET places /\ i \in upto(i)
        OBVIOUS
    <2>2. IsFiniteSet(upto(i)) /\ Cardinality(upto(i)) <= N
        BY <1>1, <2>1, FS_Subset
    <2>3. Cardinality(upto(i)) \in Nat /\ Cardinality(upto(i)) # 0
        BY <2>1, <2>2, FS_CardinalityType, FS_EmptySet
    <2> QED
        BY <1>1, <2>2, <2>3
<1>3. ASSUME NEW i \in places, NEW k \in places, i < k
      PROVE  rank[i] # rank[k]
    <2>1. upto(i) \in SUBSET upto(k) /\ k \in upto(k) /\ k \notin upto(i)
        <3>1. i \in Nat /\ k \in Nat /\ \A j \in places : j \in Nat
            OBVIOUS
        <3>2. \A j \in places : j <= i => j <= k
            BY <1>3, <3>1
        <3>3. k <= k /\ ~(k <= i)
            BY <1>3, <3>1
        <3> QED
            BY <3>2, <3>3
    <2>2. Cardinality(upto(k)) = Cardinality(upto(i)) => upto(k) = upto(i)
        BY <1>2, <2>1, FS_Subset
    <2> QED
        BY <2>1, <2>2
<1>4. rank \in [places -> 1 .. N]
    BY <1>2
<1>5. \A i, k \in places : rank[i] = rank[k] => i = k
    <2>1. SUFFICES ASSUME NEW i \in places, NEW k \in places, i # k PROVE rank[i] # rank[k]
        OBVIOUS
    <2>2. i < k \/ k < i
        BY <2>1
    <2> HIDE DEF rank
    <2> QED
        BY <1>3, <2>2
<1>6. rank \in Injection(places, 1 .. N)
    <2> HIDE DEF rank
    <2> QED
        BY <1>4, <1>5 DEF Injection, IsInjective
<1>7. IsFiniteSet(1 .. N) /\ Cardinality(1 .. N) = N
    BY <1>1, FS_Interval
<1>8. rank \in Surjection(places, 1 .. N)
    <2> HIDE DEF rank, N
    <2> QED
        BY <1>6, <1>7, FS_Injection DEF N
<1>9. \A k \in 1 .. N : \E i \in places : rank[i] = k
    <2> HIDE DEF rank, N
    <2> QED
        BY <1>8 DEF Surjection
<1> QED
    BY <1>1, <1>4, <1>5, <1>9, Zenon

\* What retain keeps: the wanted elements, each at a place of its own.
Places(s, wanted) == {i \in 1 .. Len(s) : s[i] \in wanted}
Picks(from, s, wanted) ==
    LET N == Cardinality(Places(s, wanted)) IN
    /\ from \in [1 .. N -> Places(s, wanted)]
    /\ Kept(s, wanted) = [k \in 1 .. N |-> s[from[k]]]
    /\ \A k, l \in 1 .. N : from[k] = from[l] => k = l
    /\ \A i \in Places(s, wanted) : \E k \in 1 .. N : from[k] = i

\* Every place that is wanted is kept, and no other.
LEMMA KeptPlaces ==
    ASSUME NEW T, NEW s \in Seq(T), NEW wanted
    PROVE  Cardinality(Places(s, wanted)) \in Nat /\ \E from : Picks(from, s, wanted)
<1> DEFINE places == {i \in 1 .. Len(s) : s[i] \in wanted}
           Rank(i) == Cardinality({j \in places : j <= i})
           rank == [i \in places |-> Rank(i)]
           N == Cardinality(places)
           from == [k \in 1 .. N |-> CHOOSE i \in places : Rank(i) = k]
<1>1. Len(s) \in Nat /\ places \in SUBSET (1 .. Len(s))
    OBVIOUS
<1>2. IsFiniteSet(places) /\ N \in Nat
    <2> HIDE DEF places
    <2> QED
        BY <1>1, RanksCount, Zenon
<1>3. /\ rank \in [places -> 1 .. N] /\ \A a, b \in places : rank[a] = rank[b] => a = b
      /\ \A k \in 1 .. N : \E i \in places : rank[i] = k
    <2> HIDE DEF places
    <2> QED
        BY <1>1, RanksCount, Zenon
<1>4. ASSUME NEW k \in 1 .. N PROVE from[k] \in places /\ Rank(from[k]) = k
    <2>1. \E i \in places : Rank(i) = k
        BY <1>3
    <2> HIDE DEF places, Rank, N
    <2> QED
        BY <2>1
<1>5. Kept(s, wanted) = [k \in 1 .. N |-> s[from[k]]]
    BY DEF Kept
<1>6. ASSUME NEW i \in places PROVE \E k \in 1 .. N : from[k] = i
    <2>1. rank[i] \in 1 .. N /\ rank[i] = Rank(i)
        BY <1>3
    <2>2. from[Rank(i)] \in places /\ Rank(from[Rank(i)]) = Rank(i)
        BY <1>4, <2>1
    <2>3. rank[from[Rank(i)]] = rank[i]
        BY <2>1, <2>2
    <2> QED
        BY <1>3, <2>1, <2>2, <2>3
<1>7. \A k, l \in 1 .. N : from[k] = from[l] => k = l
    BY <1>4
<1>8. from \in [1 .. N -> places]
    BY <1>4
<1> HIDE DEF from, N, places
<1>9. places = Places(s, wanted) /\ N = Cardinality(Places(s, wanted))
    BY DEF places, N, Places
<1> QED
    BY <1>2, <1>5, <1>6, <1>7, <1>8, <1>9 DEF Picks

\* A wanted element is kept as often as it is there: at all, and once.
LEMMA KeptElements ==
    ASSUME NEW T, NEW s \in Seq(T), NEW wanted
    PROVE  /\ Kept(s, wanted) \in Seq(T)
           /\ \A x : Has(Kept(s, wanted), x) <=> x \in wanted /\ Has(s, x)
           /\ \A x \in wanted : Once(s, x) => Once(Kept(s, wanted), x)
<1> DEFINE places == Places(s, wanted)
           N == Cardinality(places)
           kept == Kept(s, wanted)
<1>0. N \in Nat /\ \E from : Picks(from, s, wanted)
    BY KeptPlaces
<1>1. PICK from : Picks(from, s, wanted)
    BY <1>0
<1>2. /\ from \in [1 .. N -> places]
      /\ kept = [k \in 1 .. N |-> s[from[k]]]
      /\ \A k, l \in 1 .. N : from[k] = from[l] => k = l
      /\ \A i \in places : \E k \in 1 .. N : from[k] = i
    BY <1>1 DEF Picks
<1>3. /\ \A i \in 1 .. Len(s) : s[i] \in T
      /\ \A i : i \in places <=> i \in 1 .. Len(s) /\ s[i] \in wanted
    BY DEF Places
<1> HIDE DEF N, kept, places
<1>4. /\ kept \in Seq(T) /\ Len(kept) = N
      /\ \A k \in 1 .. N : kept[k] = s[from[k]] /\ from[k] \in places
    BY <1>0, <1>2, <1>3
<1>6. ASSUME NEW x PROVE Has(kept, x) <=> x \in wanted /\ Has(s, x)
    <2>1. ASSUME NEW k \in 1 .. N, kept[k] = x PROVE x \in wanted /\ Has(s, x)
        BY <1>3, <1>4, <2>1 DEF Has
    <2>2. ASSUME NEW i \in 1 .. Len(s), s[i] = x, x \in wanted PROVE Has(kept, x)
        <3>1. PICK k \in 1 .. N : from[k] = i
            BY <1>2, <1>3, <2>2
        <3> QED
            BY <1>4, <2>2, <3>1 DEF Has
    <2> QED
        BY <1>4, <2>1, <2>2 DEF Has
<1>5. ASSUME NEW x \in wanted, Once(s, x) PROVE Once(kept, x)
    <2>1. PICK i \in 1 .. Len(s) : s[i] = x /\ \A j \in 1 .. Len(s) : s[j] = x => j = i
        BY <1>5 DEF Once
    <2>2. PICK k \in 1 .. N : from[k] = i
        BY <1>2, <1>3, <2>1
    <2>3. \A l \in 1 .. N : kept[l] = x => l = k
        BY <1>2, <1>3, <1>4, <2>1, <2>2
    <2>4. kept[k] = x
        BY <1>4, <2>1, <2>2
    <2> QED
        BY <1>4, <2>3, <2>4 DEF Once
<1> QED
    BY <1>4, <1>5, <1>6 DEF kept

\* A finite set in a sequence: each element once, in an order nobody promises.
LEMMA SetInSequence ==
    ASSUME NEW T, NEW S \in SUBSET T, IsFiniteSet(S)
    PROVE  /\ SetToSeq(S) \in Seq(T)
           /\ \A x : Has(SetToSeq(S), x) <=> x \in S
           /\ \A x \in S : Once(SetToSeq(S), x)
<1> DEFINE N == Cardinality(S)
           s == SetToSeq(S)
<1>1. N \in Nat /\ ExistsBijection(1 .. N, S)
    BY FS_CardinalityType
<1>2. \E f \in [1 .. N -> S] : IsInjective(f)
    <2>1. PICK f : f \in Bijection(1 .. N, S)
        BY <1>1 DEF ExistsBijection
    <2>2. f \in [1 .. N -> S] /\ IsInjective(f)
        BY <2>1 DEF Bijection, Injection
    <2> QED
        BY <2>2
<1>3. s \in [1 .. N -> S] /\ IsInjective(s)
    BY <1>2 DEF SetToSeq
<1> HIDE DEF s
<1>4. IsFiniteSet(1 .. N) /\ Cardinality(1 .. N) = N
    BY <1>1, FS_Interval
<1>5. s \in Injection(1 .. N, S)
    BY <1>3 DEF Injection
<1>6. s \in Surjection(1 .. N, S)
    <2> DEFINE M == 1 .. N
    <2>1. s \in Injection(M, S) /\ Cardinality(M) = Cardinality(S)
        BY <1>4, <1>5
    <2> HIDE DEF M
    <2>2. s \in Surjection(M, S)
        BY <2>1, FS_Injection
    <2> QED
        BY <2>2 DEF M
<1>7. \A x \in S : \E i \in 1 .. N : s[i] = x
    BY <1>6 DEF Surjection
<1>8. \A i, j \in 1 .. N : s[i] = s[j] => i = j
    BY <1>3 DEF IsInjective
<1>9. s \in Seq(T) /\ Len(s) = N
    BY <1>1, <1>3
<1>10. /\ \A x : Has(s, x) <=> x \in S
       /\ \A x \in S : Once(s, x)
    BY <1>3, <1>7, <1>8, <1>9 DEF Has, Once
<1> QED
    BY <1>9, <1>10 DEF s

\* What is in a sequence after an Append, a concatenation and a Tail.
LEMMA AppendElements ==
    ASSUME NEW T, NEW s \in Seq(T), NEW y \in T
    PROVE  /\ \A x : Has(Append(s, y), x) <=> Has(s, x) \/ x = y
           /\ \A x : x # y /\ Once(s, x) => Once(Append(s, y), x)
           /\ ~Has(s, y) => Once(Append(s, y), y)
BY DEF Has, Once

LEMMA ConcatElements ==
    ASSUME NEW T, NEW r \in Seq(T), NEW s \in Seq(T)
    PROVE  /\ r \o s \in Seq(T)
           /\ \A x : Has(r \o s, x) <=> Has(r, x) \/ Has(s, x)
           /\ \A x : Once(r, x) /\ ~Has(s, x) => Once(r \o s, x)
           /\ \A x : ~Has(r, x) /\ Once(s, x) => Once(r \o s, x)
<1> DEFINE q == r \o s
<1>1. /\ q \in Seq(T) /\ Len(q) = Len(r) + Len(s) /\ Len(r) \in Nat /\ Len(s) \in Nat
      /\ \A i \in 1 .. Len(r) : q[i] = r[i]
      /\ \A i \in 1 .. Len(s) : q[Len(r) + i] = s[i]
    OBVIOUS
<1>2. \A i \in 1 .. Len(q) : i \in 1 .. Len(r) \/ i - Len(r) \in 1 .. Len(s)
    BY <1>1
<1>3. /\ \A i \in 1 .. Len(r) : i \in 1 .. Len(q)
      /\ \A i \in 1 .. Len(s) : Len(r) + i \in 1 .. Len(q)
      /\ \A i \in 1 .. Len(q) : i - Len(r) \in 1 .. Len(s) => q[i] = s[i - Len(r)]
    BY <1>1
<1> HIDE DEF q
<1>4. ASSUME NEW x PROVE Has(q, x) <=> Has(r, x) \/ Has(s, x)
    BY <1>1, <1>2, <1>3 DEF Has
<1>5. ASSUME NEW x, Once(r, x), ~Has(s, x) PROVE Once(q, x)
    <2>1. PICK i \in 1 .. Len(r) : r[i] = x /\ \A j \in 1 .. Len(r) : r[j] = x => j = i
        BY <1>5 DEF Once
    <2>2. \A j \in 1 .. Len(q) : q[j] = x => j = i
        BY <1>1, <1>2, <1>3, <1>5, <2>1 DEF Has
    <2> QED
        BY <1>1, <1>3, <2>1, <2>2 DEF Once
<1>6. ASSUME NEW x, ~Has(r, x), Once(s, x) PROVE Once(q, x)
    <2>1. PICK i \in 1 .. Len(s) : s[i] = x /\ \A j \in 1 .. Len(s) : s[j] = x => j = i
        BY <1>6 DEF Once
    <2>2. ASSUME NEW j \in 1 .. Len(q), q[j] = x PROVE j = Len(r) + i
        <3>1. j \notin 1 .. Len(r)
            BY <1>1, <1>6, <2>2 DEF Has
        <3>2. j - Len(r) \in 1 .. Len(s) /\ s[j - Len(r)] = x
            BY <1>2, <1>3, <2>2, <3>1
        <3>3. j - Len(r) = i
            BY <2>1, <3>2
        <3> QED
            BY <1>1, <3>3
    <2> QED
        BY <1>1, <1>3, <2>1, <2>2 DEF Once
<1> QED
    BY <1>1, <1>4, <1>5, <1>6 DEF q

LEMMA TailElements ==
    ASSUME NEW T, NEW s \in Seq(T), s # <<>>
    PROVE  /\ Tail(s) \in Seq(T) /\ Head(s) \in T
           /\ \A x : Has(Tail(s), x) => Has(s, x)
           /\ \A x : x # Head(s) /\ Has(s, x) => Has(Tail(s), x)
           /\ \A x : x # Head(s) /\ Once(s, x) => Once(Tail(s), x)
           /\ Once(s, Head(s)) => ~Has(Tail(s), Head(s))
<1> DEFINE q == Tail(s)
<1>1. /\ q \in Seq(T) /\ Len(q) = Len(s) - 1 /\ Len(s) \in Nat /\ Len(s) > 0
      /\ Head(s) = s[1] /\ s[1] \in T
      /\ \A i \in 1 .. Len(q) : q[i] = s[i + 1]
    OBVIOUS
<1> HIDE DEF q
<1>2. /\ \A i \in 1 .. Len(q) : i + 1 \in 1 .. Len(s) /\ i + 1 # 1
      /\ \A i \in 1 .. Len(s) : i # 1 => i - 1 \in 1 .. Len(q) /\ q[i - 1] = s[i]
    BY <1>1
<1>3. /\ \A x : Has(q, x) => Has(s, x)
      /\ \A x : x # Head(s) /\ Has(s, x) => Has(q, x)
      /\ Once(s, Head(s)) => ~Has(q, Head(s))
    BY <1>1, <1>2 DEF Has, Once
<1>4. ASSUME NEW x, x # Head(s), Once(s, x) PROVE Once(q, x)
    <2>1. PICK i \in 1 .. Len(s) : s[i] = x /\ \A j \in 1 .. Len(s) : s[j] = x => j = i
        BY <1>4 DEF Once
    <2>2. i # 1 /\ i - 1 \in 1 .. Len(q) /\ q[i - 1] = x
        BY <1>1, <1>2, <1>4, <2>1
    <2>3. \A j \in 1 .. Len(q) : q[j] = x => j = i - 1
        BY <1>1, <1>2, <2>1
    <2> QED
        BY <2>2, <2>3 DEF Once
<1> QED
    BY <1>1, <1>3, <1>4 DEF q

\* Once is a count of one.
LEMMA OnceCounts ==
    ASSUME NEW T, NEW s \in Seq(T), NEW x
    PROVE  /\ Once(s, x) => Cardinality({i \in DOMAIN s : s[i] = x}) = 1
           /\ Has(s, x) => Cardinality({i \in DOMAIN s : s[i] = x}) > 0
<1> DEFINE places == {i \in DOMAIN s : s[i] = x}
<1>1. DOMAIN s = 1 .. Len(s) /\ Len(s) \in Nat
    OBVIOUS
<1>2. IsFiniteSet(1 .. Len(s)) /\ places \in SUBSET (1 .. Len(s))
    BY <1>1, FS_Interval
<1>3. IsFiniteSet(places)
    BY <1>2, FS_Subset
<1>4. Once(s, x) => \E i : places = {i}
    BY <1>1 DEF Once
<1>5. Has(s, x) => places # {}
    BY <1>1 DEF Has
<1> HIDE DEF places
<1>6. Once(s, x) => Cardinality(places) = 1
    BY <1>3, <1>4, FS_Singleton
<1>7. Has(s, x) => Cardinality(places) > 0
    BY <1>3, <1>5, FS_EmptySet, FS_CardinalityType
<1> QED
    BY <1>6, <1>7 DEF places
-----------------------------------------------------------------------------
(* Owners.                                                                   *)

\* What a barrier waits for is on its way.
State(t) == IF t \in DOMAIN releases THEN releases[t].state ELSE "over"
Owned(t) ==
    /\ State(t) = "queued" => Has(queue, Item("release", t))
    /\ IF State(t) = "retry" THEN Once(retries, t) /\ <<t, releases[t].attempts>> \in timers
       ELSE ~Has(retries, t)
    /\ IF State(t) = "completion" THEN Once(queue, Item("completion", t))
       ELSE ~Has(queue, Item("completion", t))

\* Only drags have continuations to deliver, one at a time.
DeliveryFits ==
    /\ delivering \in DOMAIN releases \cup {NoToken}
    /\ \A t \in DOMAIN releases :
         /\ releases[t].state \in {"completion", "delivering"} => releases[t].drag
         /\ releases[t].state = "delivering" <=> delivering = t

ReleaseOwners ==
    /\ queue \in Seq(Items) /\ retries \in Seq(Tokens)
    /\ next_release \in 1 .. MaxReleases + 1 /\ DOMAIN releases \subseteq 1 .. next_release - 1
    /\ \A t \in Tokens : Owned(t)
    /\ DeliveryFits

RetirementOwners ==
    \A w \in DOMAIN retirements :
        /\ retirements[w] = "queued" => Has(queue, Item("retire", w))
        /\ retirements[w] = "waiting" => dependencies[w] # {}

\* A window that left the application has a retirement until it is seen to be gone.
WindowOwners ==
    /\ \A t \in DOMAIN releases :
         releases[t].state = "native" => releases[t].window \notin registered
    /\ \A w \in Windows : w \in registered \cup observed \cup DOMAIN retirements

OwnerInv == ReleaseInv /\ DependencyInv /\ ReleaseOwners /\ RetirementOwners /\ WindowOwners

\* What complete_native_pointer_capture_release does with each of its tokens.
Waits == {"logical", "queued", "retry", "native"}
Over(ts) == ts \ Drags(ts)
Due(ts) == InState(Drags(ts), Waits)
Completion(t) == Item("completion", t)

\* Tokens of releases have been given out.
LEMMA TokensKnown ==
    ASSUME ReleaseOwners
    PROVE  /\ DOMAIN releases \subseteq Tokens
           /\ NoToken \notin DOMAIN releases
           /\ next_release \notin DOMAIN releases
BY RetirementConstants DEF ReleaseOwners, Tokens

\* Items of different barriers are different.
LEMMA ItemsDiffer ==
    /\ \A t, u : Item("completion", t) = Item("completion", u) => t = u
    /\ \A t, u : Item("release", t) = Item("release", u) => t = u
    /\ \A t, u : Item("retire", t) = Item("retire", u) => t = u
    /\ \A t, u : Item("completion", t) # Item("release", u)
    /\ \A t, u : Item("completion", t) # Item("retire", u)
    /\ \A t, u : Item("release", t) # Item("retire", u)
    /\ \A t, u : Item("closed", t) # Item("completion", u)
    /\ \A t, u : Item("closed", t) # Item("release", u)
    /\ \A t, u : Item("closed", t) # Item("retire", u)
BY DEF Item

LEMMA ItemsTyped ==
    /\ \A t \in Tokens : Item("release", t) \in Items /\ Item("completion", t) \in Items
    /\ \A w \in Windows : Item("retire", w) \in Items /\ Item("closed", w) \in Items
BY DEF Item, Items

\* Sets of tokens can be put in a sequence.
LEMMA TokenSetFinite == ASSUME NEW S \in SUBSET Tokens PROVE IsFiniteSet(S)
<1>1. IsFiniteSet(1 .. MaxReleases)
    BY RetirementConstants, FS_Interval
<1> QED
    BY <1>1, FS_Subset DEF Tokens

\* What complete_native_pointer_capture_release queues and which retries it drops.
LEMMA CompleteQueues ==
    ASSUME ReleaseOwners, NEW ts \in SUBSET DOMAIN releases, NEW terminal,
           NEW before \in Seq(Items), NEW after \in Seq(Items),
           Complete(ts, terminal, before, after)
    PROVE  /\ queue' \in Seq(Items) /\ retries' \in Seq(Tokens)
           /\ \A x : Has(queue', x) <=> \/ Has(before, x) \/ Has(after, x)
                                        \/ \E t \in Due(ts) : x = Completion(t)
           /\ \A t \in Due(ts) : ~Has(before, Completion(t)) /\ ~Has(after, Completion(t))
                                   => Once(queue', Completion(t))
           /\ \A x : /\ Once(before, x) /\ ~Has(after, x)
                     /\ \A t \in Due(ts) : x # Completion(t)
                     => Once(queue', x)
           /\ \A t \in Tokens : Has(retries', t)
                                  <=> Has(retries, t) /\ t \notin Over(ts) \cup Due(ts)
           /\ \A t \in Tokens : Once(retries, t) /\ t \notin Over(ts) \cup Due(ts)
                                  => Once(retries', t)
<1> DEFINE S == {Item("completion", t) : t \in Due(ts)}
           middle == SetToSeq(S)
           wanted == Tokens \ (Over(ts) \cup Due(ts))
           front == before \o middle
<1>1. queue' = before \o middle \o after /\ retries' = Kept(retries, wanted)
    BY DEF Complete, Over, Due, Waits
<1>2. Due(ts) \in SUBSET Tokens
    BY TokensKnown DEF Due, InState, Drags
<1>3. S \in SUBSET Items /\ IsFiniteSet(S)
    <2>1. IsFiniteSet(Due(ts))
        BY <1>2, TokenSetFinite
    <2>2. IsFiniteSet(S)
        <3> DEFINE f == [t \in Due(ts) |-> Item("completion", t)]
        <3>1. f \in Surjection(Due(ts), S)
            BY DEF Surjection
        <3> HIDE DEF f, S
        <3> QED
            BY <2>1, <3>1, FS_Surjection
    <2> QED
        BY <1>2, <2>2, ItemsTyped
<1>4. /\ middle \in Seq(Items) /\ \A x : Has(middle, x) <=> x \in S
      /\ \A x \in S : Once(middle, x)
    <2> HIDE DEF S
    <2> QED
        BY <1>3, SetInSequence
<1>5. /\ \A x : x \in S <=> \E t \in Due(ts) : x = Completion(t)
      /\ \A t \in Due(ts) : Completion(t) \in S
    BY DEF Completion
<1> HIDE DEF S, middle
<1>6. /\ front \in Seq(Items)
      /\ \A x : Has(front, x) <=> Has(before, x) \/ Has(middle, x)
      /\ \A x : Once(before, x) /\ ~Has(middle, x) => Once(front, x)
      /\ \A x : ~Has(before, x) /\ Once(middle, x) => Once(front, x)
    BY <1>4, ConcatElements
<1>c. queue' = front \o after
    BY <1>1
<1> HIDE DEF front
<1>7. /\ front \o after \in Seq(Items)
      /\ \A x : Has(front \o after, x) <=> Has(front, x) \/ Has(after, x)
      /\ \A x : Once(front, x) /\ ~Has(after, x) => Once(front \o after, x)
    BY <1>6, ConcatElements
<1>8. /\ queue' \in Seq(Items)
      /\ \A x : Has(queue', x) <=> Has(before, x) \/ Has(middle, x) \/ Has(after, x)
      /\ \A x : Once(before, x) /\ ~Has(middle, x) /\ ~Has(after, x) => Once(queue', x)
      /\ \A x : ~Has(before, x) /\ Once(middle, x) /\ ~Has(after, x) => Once(queue', x)
    BY <1>6, <1>7, <1>c
<1>9. retries \in Seq(Tokens)
    BY DEF ReleaseOwners
<1>10. /\ retries' \in Seq(Tokens)
       /\ \A t : Has(retries', t) <=> t \in wanted /\ Has(retries, t)
       /\ \A t \in wanted : Once(retries, t) => Once(retries', t)
    <2> HIDE DEF wanted
    <2> QED
        BY <1>1, <1>9, KeptElements
<1> QED
    BY <1>4, <1>5, <1>8, <1>10

\* Every token after a completion.
LEMMA CompleteStates ==
    ASSUME ReleaseInv, NEW ts \in SUBSET DOMAIN releases, NEW terminal \in Outcomes,
           NEW before, NEW after, Complete(ts, terminal, before, after)
    PROVE  /\ DOMAIN releases' = DOMAIN releases \ Over(ts)
           /\ \A t \in Over(ts) : State(t)' = "over"
           /\ \A t \in Due(ts) : State(t)' = "completion" /\ releases[t].drag /\ t \notin Over(ts)
           /\ \A t : t \notin Over(ts) /\ t \notin Due(ts) => State(t)' = State(t)
           /\ \A t \in DOMAIN releases' : /\ releases'[t].drag = releases[t].drag
                                          /\ releases'[t].window = releases[t].window
                                          /\ releases'[t].attempts = releases[t].attempts
<1>1. releases' = [t \in DOMAIN releases \ Over(ts) |->
                LET b == releases[t] IN
                IF t \in Due(ts) THEN [b EXCEPT !.state = "completion", !.terminal = terminal]
                ELSE IF t \in ts /\ b.state = "completion"
                THEN [b EXCEPT !.terminal = Outranked(b, terminal)]
                ELSE b]
    BY DEF Complete, Over, Due, Waits
<1>2. \A t \in Due(ts) : t \in DOMAIN releases /\ releases[t].drag /\ t \notin Over(ts)
    BY DEF Due, InState, Drags, Over
<1>3. DOMAIN releases' = DOMAIN releases \ Over(ts)
    BY <1>1
<1>4. ASSUME NEW t \in DOMAIN releases'
      PROVE  /\ releases'[t].drag = releases[t].drag
             /\ releases'[t].window = releases[t].window
             /\ releases'[t].attempts = releases[t].attempts
             /\ releases'[t].state = IF t \in Due(ts) THEN "completion" ELSE releases[t].state
    <2>1. releases[t] \in Records
        BY <1>3 DEF ReleaseInv, ReleasesTyped
    <2>2. \/ t \in Due(ts) /\ releases'[t] = [releases[t] EXCEPT !.state = "completion",
                                                                 !.terminal = terminal]
          \/ /\ t \notin Due(ts)
             /\ releases'[t] = [releases[t] EXCEPT !.terminal = Outranked(releases[t], terminal)]
          \/ t \notin Due(ts) /\ releases'[t] = releases[t]
        BY <1>1, <1>3
    <2> QED
        BY <2>1, <2>2 DEF Records
<1> QED
    BY <1>2, <1>3, <1>4 DEF State

\* The releases that are completed are the only ones that may leave the queue.
LEMMA CompleteOwners ==
    ASSUME ReleaseInv, ReleaseOwners, NEW ts \in SUBSET DOMAIN releases,
           NEW terminal \in Outcomes,
           NEW before \in Seq(Items), NEW after \in Seq(Items),
           Complete(ts, terminal, before, after),
           UNCHANGED <<timers, next_release, delivering>>,
           \A t \in Tokens : /\ Has(before, Completion(t)) => Has(queue, Completion(t))
                             /\ Once(queue, Completion(t)) => Once(before, Completion(t))
                             /\ ~Has(after, Completion(t)),
           \A t \in Tokens \ ts : Has(queue, Item("release", t)) => Has(before, Item("release", t))
    PROVE  ReleaseOwners'
<1>1. /\ queue' \in Seq(Items) /\ retries' \in Seq(Tokens)
      /\ \A x : Has(queue', x) <=> \/ Has(before, x) \/ Has(after, x)
                                   \/ \E t \in Due(ts) : x = Completion(t)
      /\ \A t \in Due(ts) : ~Has(before, Completion(t)) /\ ~Has(after, Completion(t))
                              => Once(queue', Completion(t))
      /\ \A x : /\ Once(before, x) /\ ~Has(after, x)
                /\ \A t \in Due(ts) : x # Completion(t)
                => Once(queue', x)
      /\ \A t \in Tokens : Has(retries', t) <=> Has(retries, t) /\ t \notin Over(ts) \cup Due(ts)
      /\ \A t \in Tokens : Once(retries, t) /\ t \notin Over(ts) \cup Due(ts) => Once(retries', t)
    BY CompleteQueues
<1>2. /\ DOMAIN releases' = DOMAIN releases \ Over(ts)
      /\ \A t \in Over(ts) : State(t)' = "over"
      /\ \A t \in Due(ts) : State(t)' = "completion" /\ releases[t].drag /\ t \notin Over(ts)
      /\ \A t : t \notin Over(ts) /\ t \notin Due(ts) => State(t)' = State(t)
      /\ \A t \in DOMAIN releases' : /\ releases'[t].drag = releases[t].drag
                                     /\ releases'[t].window = releases[t].window
                                     /\ releases'[t].attempts = releases[t].attempts
    BY CompleteStates
<1>3. DOMAIN releases \subseteq Tokens /\ NoToken \notin DOMAIN releases
    BY TokensKnown
<1>4. /\ \A t \in Due(ts) : State(t) \in Waits /\ t \in Tokens
      /\ \A t \in Over(ts) : State(t) \notin {"completion", "delivering"} /\ t \in Tokens
    BY <1>3 DEF Due, Over, InState, Drags, State, ReleaseOwners, DeliveryFits
<1>5. \A t \in ts : t \notin Over(ts) /\ t \notin Due(ts) => State(t) \in {"completion", "delivering"}
    <2>1. \A t \in ts : releases[t] \in Records
        BY DEF ReleaseInv, ReleasesTyped
    <2> QED
        BY <2>1 DEF Due, Over, InState, Drags, State, Waits, Records, States
<1>6. ASSUME NEW t \in Tokens PROVE Owned(t)'
    <2>1. Owned(t)
        BY DEF ReleaseOwners
    <2>2. CASE t \in Due(ts)
        <3>1. State(t)' = "completion" /\ State(t) # "completion"
            BY <1>2, <1>4, <2>2 DEF Waits
        <3>2. ~Has(before, Completion(t)) /\ ~Has(after, Completion(t))
            BY <2>1, <3>1 DEF Owned, Completion
        <3>3. Once(queue', Completion(t)) /\ ~Has(retries', t)
            BY <1>1, <2>2, <3>2
        <3> QED
            BY <3>1, <3>3 DEF Owned, Completion
    <2>3. CASE t \in Over(ts)
        <3>1. State(t)' = "over" /\ State(t) # "completion" /\ t \notin Due(ts)
            BY <1>2, <1>4, <2>3
        <3>2. ~Has(before, Completion(t)) /\ ~Has(after, Completion(t))
            BY <2>1, <3>1 DEF Owned, Completion
        <3>3. ~Has(queue', Completion(t)) /\ ~Has(retries', t)
            BY <1>1, <2>3, <3>1, <3>2, ItemsDiffer DEF Completion
        <3> QED
            BY <3>1, <3>3 DEF Owned, Completion
    <2>4. CASE t \notin Over(ts) /\ t \notin Due(ts)
        <3>1. State(t)' = State(t)
            BY <1>2, <2>4
        <3>2. /\ Has(retries', t) <=> Has(retries, t)
              /\ Once(retries, t) => Once(retries', t)
            BY <1>1, <2>4
        <3>3. \A u \in Due(ts) : Completion(t) # Completion(u)
            BY <2>4, ItemsDiffer DEF Completion
        <3>4. /\ Once(queue, Completion(t)) => Once(queue', Completion(t))
              /\ Has(queue', Completion(t)) => Has(queue, Completion(t))
            BY <1>1, <3>3
        <3>5. State(t) = "queued" => Has(queue', Item("release", t))
            <4>1. State(t) = "queued" => t \notin ts
                BY <1>5, <2>4
            <4> QED
                BY <1>1, <2>1, <4>1 DEF Owned
        <3>6. State(t) = "retry" => <<t, releases[t].attempts>> \in timers
                                    /\ releases'[t].attempts = releases[t].attempts
            BY <1>2, <2>1, <3>1 DEF Owned, State
        <3> QED
            BY <2>1, <3>1, <3>2, <3>4, <3>5, <3>6 DEF Owned, Completion
    <2> QED
        BY <2>2, <2>3, <2>4
<1>7. DeliveryFits'
    <2>1. ASSUME NEW t \in DOMAIN releases'
          PROVE  /\ releases'[t].state \in {"completion", "delivering"} => releases'[t].drag
                 /\ releases'[t].state = "delivering" <=> delivering' = t
        <3>1. t \in DOMAIN releases /\ State(t) = releases[t].state /\ State(t)' = releases'[t].state
              /\ releases'[t].drag = releases[t].drag /\ t \notin Over(ts)
            BY <1>2 DEF State
        <3>2. CASE t \in Due(ts)
            BY <1>2, <1>4, <3>1, <3>2 DEF ReleaseOwners, DeliveryFits, Waits
        <3>3. CASE t \notin Due(ts)
            BY <1>2, <3>1, <3>3 DEF ReleaseOwners, DeliveryFits
        <3> QED
            BY <3>2, <3>3
    <2>2. delivering' \in DOMAIN releases' \cup {NoToken}
        BY <1>2, <1>4 DEF ReleaseOwners, DeliveryFits, State
    <2> QED
        BY <2>1, <2>2 DEF DeliveryFits
<1> QED
    BY <1>1, <1>2, <1>6, <1>7 DEF ReleaseOwners

\* Barriers that keep their state, or move between states in which nothing is on the way.
Quiet == {"retry", "completion", "delivering"}
LEMMA OwnersStay ==
    ASSUME ReleaseOwners, queue' \in Seq(Items),
           UNCHANGED <<next_release, retries, timers, delivering>>,
           DOMAIN releases' = DOMAIN releases,
           \A t \in DOMAIN releases : /\ releases'[t].drag = releases[t].drag
                                      /\ releases'[t].attempts = releases[t].attempts,
           \A t \in Tokens :
             /\ State(t)' = State(t) \/ (State(t) \notin Quiet /\ State(t)' \notin Quiet)
             /\ State(t)' = "queued" => Has(queue', Item("release", t))
             /\ Once(queue, Completion(t)) => Once(queue', Completion(t))
             /\ Has(queue', Completion(t)) => Has(queue, Completion(t))
    PROVE  ReleaseOwners'
<1>1. ASSUME NEW t \in Tokens PROVE Owned(t)'
    <2>1. Owned(t) /\ retries' = retries /\ timers' = timers
        BY DEF ReleaseOwners
    <2>2. State(t)' = "retry" => releases'[t].attempts = releases[t].attempts
        BY DEF State
    <2>3. \/ State(t)' = State(t)
          \/ State(t) \notin Quiet /\ State(t)' \notin Quiet
        OBVIOUS
    <2>4. IF State(t)' = "retry" THEN Once(retries', t) /\ <<t, releases'[t].attempts>> \in timers'
          ELSE ~Has(retries', t)
        BY <2>1, <2>2, <2>3 DEF Owned, Quiet
    <2>5. IF State(t)' = "completion" THEN Once(queue', Item("completion", t))
          ELSE ~Has(queue', Item("completion", t))
        BY <2>1, <2>3 DEF Owned, Quiet, Completion
    <2> QED
        BY <2>4, <2>5 DEF Owned
<1>2. DeliveryFits'
    <2>1. ASSUME NEW t \in DOMAIN releases
          PROVE  /\ releases'[t].state \in {"completion", "delivering"} => releases'[t].drag
                 /\ releases'[t].state = "delivering" <=> delivering' = t
        <3>1. /\ State(t) = releases[t].state /\ State(t)' = releases'[t].state /\ t \in Tokens
              /\ releases'[t].drag = releases[t].drag
            BY TokensKnown DEF State
        <3>2. \/ State(t)' = State(t)
              \/ State(t) \notin Quiet /\ State(t)' \notin Quiet
            BY <3>1
        <3> QED
            BY <3>1, <3>2 DEF ReleaseOwners, DeliveryFits, Quiet
    <2> QED
        BY <2>1 DEF ReleaseOwners, DeliveryFits
<1> QED
    BY <1>1, <1>2 DEF ReleaseOwners

\* The releases stay as they are.
LEMMA OwnersIdle ==
    ASSUME ReleaseOwners, queue' \in Seq(Items),
           UNCHANGED <<next_release, releases, retries, timers, delivering>>,
           \A t \in Tokens :
             /\ State(t) = "queued" /\ Has(queue, Item("release", t))
                  => Has(queue', Item("release", t))
             /\ Once(queue, Completion(t)) => Once(queue', Completion(t))
             /\ Has(queue', Completion(t)) => Has(queue, Completion(t))
    PROVE  ReleaseOwners'
<1>1. \A t \in Tokens : Owned(t)
    BY DEF ReleaseOwners
<1>2. \A t \in Tokens : State(t)' = State(t)
    BY DEF State
<1> QED
    BY <1>1, <1>2, OwnersStay DEF Owned

\* The queue after the front item was popped, and behind a new one.
LEMMA Popped ==
    ASSUME ReleaseOwners, NEW kind, NEW id, IsNext(kind, id)
    PROVE  /\ Tail(queue) \in Seq(Items) /\ Item(kind, id) \in Items
           /\ \A x : Has(Tail(queue), x) => Has(queue, x)
           /\ \A x : x # Item(kind, id) /\ Has(queue, x) => Has(Tail(queue), x)
           /\ \A x : x # Item(kind, id) /\ Once(queue, x) => Once(Tail(queue), x)
           /\ Once(queue, Item(kind, id)) => ~Has(Tail(queue), Item(kind, id))
           /\ Has(queue, Item(kind, id))
<1>1. queue \in Seq(Items) /\ queue # <<>> /\ Head(queue) = Item(kind, id)
    BY DEF IsNext, ReleaseOwners
<1>2. Has(queue, Head(queue))
    BY <1>1 DEF Has
<1> QED
    BY <1>1, <1>2, TailElements

LEMMA NothingElse == <<>> \in Seq(Items) /\ \A x : ~Has(<<>>, x)
BY DEF Has

\* A window's item behind a queue.
LEMMA BehindRetirement ==
    ASSUME NEW q \in Seq(Items), NEW kind \in {"retire", "closed"}, NEW w \in Windows
    PROVE  /\ Append(q, Item(kind, w)) \in Seq(Items)
           /\ Has(Append(q, Item(kind, w)), Item(kind, w))
           /\ \A x : Has(q, x) => Has(Append(q, Item(kind, w)), x)
           /\ \A t : /\ Has(Append(q, Item(kind, w)), Completion(t)) => Has(q, Completion(t))
                     /\ Once(q, Completion(t)) => Once(Append(q, Item(kind, w)), Completion(t))
<1>1. Item(kind, w) \in Items /\ \A t : Completion(t) # Item(kind, w)
    BY ItemsTyped, ItemsDiffer DEF Completion
<1> QED
    BY <1>1, AppendElements

\* Reservation.
LEMMA ReserveOwners ==
    ASSUME ReleaseOwners, NEW w \in Windows, NEW drag \in BOOLEAN, NEW continued \in BOOLEAN,
           Reserve(w, drag, continued)
    PROVE  ReleaseOwners'
<1>t. next_release \in Tokens
    BY RetirementConstants DEF Reserve, ReleaseOwners, Tokens
<1> SUFFICES ASSUME NEW n \in Tokens, n = next_release PROVE ReleaseOwners'
    BY <1>t
<1> DEFINE b == [window |-> w, drag |-> drag, state |-> "logical", terminal |-> "none",
                 attempts |-> 0, continuations |-> IF continued THEN 1 ELSE 0]
           c == [b EXCEPT !.state = "completion", !.terminal = "native_terminal"]
<1>0. /\ UNCHANGED <<retries, timers, delivering>> /\ next_release' = n + 1
      /\ n \notin DOMAIN releases /\ DOMAIN releases \subseteq Tokens
      /\ next_release' \in 1 .. MaxReleases + 1
    BY TokensKnown, RetirementConstants DEF Reserve, ReleaseOwners, Tokens
<1>1. b.state = "logical" /\ c.state = "completion" /\ c.drag = drag
    OBVIOUS
<1>2. \/ releases' = releases /\ queue' = queue
      \/ releases' = With(releases, n, b) /\ queue' = queue
      \/ releases' = With(releases, n, c) /\ drag /\ queue' = Append(queue, Completion(n))
    BY DEF Reserve, Completion
<1> HIDE DEF b, c
<1>3. Owned(n) /\ State(n) = "over"
    BY <1>0 DEF ReleaseOwners, State
<1>4. \A t : t # n => State(t)' = State(t) /\ (t \in DOMAIN releases => releases'[t] = releases[t])
    BY <1>2 DEF State, With
<1>5. /\ Append(queue, Completion(n)) \in Seq(Items) /\ queue \in Seq(Items)
      /\ \A x : Has(Append(queue, Completion(n)), x) <=> Has(queue, x) \/ x = Completion(n)
      /\ \A x : x # Completion(n) /\ Once(queue, x) => Once(Append(queue, Completion(n)), x)
      /\ ~Has(queue, Completion(n)) => Once(Append(queue, Completion(n)), Completion(n))
    <2>1. queue \in Seq(Items) /\ Completion(n) \in Items
        BY <1>0, ItemsTyped DEF Completion, ReleaseOwners
    <2> QED
        BY <2>1, AppendElements
<1>6. ASSUME NEW t \in Tokens PROVE Owned(t)'
    <2>1. Owned(t)
        BY DEF ReleaseOwners
    <2>2. CASE t # n
        <3>1. State(t)' = State(t) /\ Completion(t) # Completion(n)
              /\ Item("release", t) # Completion(n)
            BY <1>4, <2>2, ItemsDiffer DEF Completion
        <3>2. /\ Has(queue, Item("release", t)) => Has(queue', Item("release", t))
              /\ Has(queue', Completion(t)) => Has(queue, Completion(t))
              /\ Once(queue, Completion(t)) => Once(queue', Completion(t))
            BY <1>2, <1>5, <3>1
        <3>3. State(t) = "retry" => releases'[t] = releases[t]
            BY <1>4, <2>2 DEF State
        <3> QED
            BY <1>0, <2>1, <3>1, <3>2, <3>3 DEF Owned, Completion
    <2>3. CASE t = n /\ queue' = queue /\ State(n)' \in {"over", "logical"}
        BY <1>0, <1>3, <2>3 DEF Owned
    <2>4. CASE t = n /\ queue' = Append(queue, Completion(n)) /\ State(n)' = "completion"
        BY <1>0, <1>3, <1>5, <2>4 DEF Owned, Completion
    <2>5. \/ queue' = queue /\ State(n)' \in {"over", "logical"}
          \/ queue' = Append(queue, Completion(n)) /\ State(n)' = "completion"
        BY <1>1, <1>2, <1>3 DEF State, With
    <2> QED
        BY <2>2, <2>3, <2>4, <2>5
<1>7. DeliveryFits'
    <2>1. delivering # n /\ delivering' = delivering
        BY <1>0, RetirementConstants DEF ReleaseOwners, DeliveryFits
    <2>2. DOMAIN releases' \in {DOMAIN releases, DOMAIN releases \cup {n}}
        BY <1>2 DEF With
    <2>3. n \in DOMAIN releases' => (releases'[n] = b \/ (releases'[n] = c /\ drag))
        <3>1. CASE releases' = With(releases, n, b)
            <4>1. With(releases, n, b)[n] = b
                BY DEF With
            <4> QED
                BY <3>1, <4>1, Zenon
        <3>2. CASE releases' = With(releases, n, c) /\ drag
            <4>1. With(releases, n, c)[n] = c
                BY DEF With
            <4> QED
                BY <3>2, <4>1
        <3> QED
            BY <1>0, <1>2, <3>1, <3>2
    <2>4. DeliveryFits
        BY DEF ReleaseOwners
    <2>5. ASSUME NEW t \in DOMAIN releases'
          PROVE  /\ releases'[t].state \in {"completion", "delivering"} => releases'[t].drag
                 /\ releases'[t].state = "delivering" <=> delivering' = t
        <3>1. CASE t = n
            BY <1>1, <2>1, <2>3, <3>1
        <3>2. CASE t # n
            BY <1>4, <2>1, <2>2, <2>4, <3>2 DEF DeliveryFits
        <3> QED
            BY <3>1, <3>2
    <2> QED
        BY <2>1, <2>2, <2>4, <2>5 DEF DeliveryFits
<1>8. DOMAIN releases' \subseteq 1 .. next_release' - 1
    BY <1>0, <1>2 DEF With, ReleaseOwners
<1> QED
    BY <1>0, <1>2, <1>5, <1>6, <1>7, <1>8 DEF ReleaseOwners

\* What the retries that are due put into the queue.
LEMMA DispatchedItems ==
    ASSUME ReleaseOwners, NEW due \in SUBSET Tokens, NEW rest \in Seq(Items)
    PROVE  /\ rest \o Dispatched(due) \in Seq(Items)
           /\ \A t \in due : Has(retries, t) => Has(rest \o Dispatched(due), Item("release", t))
           /\ \A x : Has(rest, x) => Has(rest \o Dispatched(due), x)
           /\ \A w : Has(rest \o Dispatched(due), Item("retire", w)) => Has(rest, Item("retire", w))
           /\ \A t : /\ Has(rest \o Dispatched(due), Completion(t)) => Has(rest, Completion(t))
                     /\ Once(rest, Completion(t)) => Once(rest \o Dispatched(due), Completion(t))
<1> DEFINE again == Kept(retries, due)
           items == Dispatched(due)
<1>1. again \in Seq(Tokens) /\ \A t : Has(again, t) <=> t \in due /\ Has(retries, t)
    BY KeptElements DEF ReleaseOwners
<1>2. items = [i \in 1 .. Len(again) |-> Item("release", again[i])]
    BY DEF Dispatched
<1> HIDE DEF again, items
<1>3. items \in Seq(Items) /\ Len(items) = Len(again)
      /\ \A i \in 1 .. Len(again) : items[i] = Item("release", again[i])
    BY <1>1, <1>2, ItemsTyped
<1>4. ASSUME NEW t, Has(again, t) PROVE Has(items, Item("release", t))
    BY <1>3, <1>4 DEF Has
<1>5. \A t : ~Has(items, Completion(t)) /\ ~Has(items, Item("retire", t))
    BY <1>3, ItemsDiffer DEF Has, Completion
<1>6. /\ rest \o items \in Seq(Items)
      /\ \A x : Has(rest \o items, x) <=> Has(rest, x) \/ Has(items, x)
      /\ \A x : Once(rest, x) /\ ~Has(items, x) => Once(rest \o items, x)
    BY <1>3, ConcatElements
<1> QED
    BY <1>1, <1>4, <1>5, <1>6 DEF items

\* Of the retries that match, those that are due are in the queue, the others stay.
LEMMA RetryOwners ==
    ASSUME ReleaseInv, ReleaseOwners, NEW matching, NEW rest \in Seq(Items),
           NEW due \in SUBSET InState(DOMAIN releases, {"retry"}), due \subseteq matching,
           Retry(matching, due, rest),
           UNCHANGED <<next_release, delivering>>,
           \A t \in Tokens :
             /\ State(t) = "retry" /\ t \notin due => <<t, releases[t].attempts>> \in timers'
             /\ Has(queue, Item("release", t)) => Has(rest, Item("release", t))
             /\ Has(rest, Completion(t)) => Has(queue, Completion(t))
             /\ Once(queue, Completion(t)) => Once(rest, Completion(t))
    PROVE  ReleaseOwners'
<1> DEFINE waiting == InState(DOMAIN releases, {"retry"})
           wanted == (Tokens \ matching) \cup (waiting \ due)
<1>1. /\ releases' = [t \in DOMAIN releases |->
                        IF t \in due THEN [releases[t] EXCEPT !.state = "queued"]
                        ELSE releases[t]]
      /\ queue' = rest \o Dispatched(due) /\ retries' = Kept(retries, wanted)
    BY DEF Retry
<1>2. DOMAIN releases \subseteq Tokens /\ due \subseteq waiting /\ due \subseteq Tokens
      /\ DOMAIN releases' = DOMAIN releases
    BY <1>1, TokensKnown DEF InState
<1>3. /\ queue' \in Seq(Items)
      /\ \A t \in due : Has(retries, t) => Has(queue', Item("release", t))
      /\ \A x : Has(rest, x) => Has(queue', x)
      /\ \A t : /\ Has(queue', Completion(t)) => Has(rest, Completion(t))
                /\ Once(rest, Completion(t)) => Once(queue', Completion(t))
    BY <1>1, <1>2, DispatchedItems
<1>4. /\ retries' \in Seq(Tokens)
      /\ \A t : Has(retries', t) <=> t \in wanted /\ Has(retries, t)
      /\ \A t \in wanted : Once(retries, t) => Once(retries', t)
    BY <1>1, KeptElements DEF ReleaseOwners
<1>5. \A t : t \in waiting <=> State(t) = "retry"
    BY DEF InState, State
<1>6. ASSUME NEW t \in DOMAIN releases
      PROVE  /\ releases'[t].drag = releases[t].drag
             /\ releases'[t].attempts = releases[t].attempts
             /\ releases'[t].state = IF t \in due THEN "queued" ELSE releases[t].state
    <2>1. releases[t] \in Records
        BY DEF ReleaseInv, ReleasesTyped
    <2>2. \/ t \in due /\ releases'[t] = [releases[t] EXCEPT !.state = "queued"]
          \/ t \notin due /\ releases'[t] = releases[t]
        BY <1>1
    <2> QED
        BY <2>1, <2>2 DEF Records
<1>7. \A t : State(t)' = IF t \in due THEN "queued" ELSE State(t)
    BY <1>2, <1>6 DEF State, InState
<1> HIDE DEF waiting
<1>8. ASSUME NEW t \in Tokens PROVE Owned(t)'
    <2>1. Owned(t)
        BY DEF ReleaseOwners
    <2>2. CASE t \in due
        <3>0. t \in waiting /\ t \in matching
            BY <1>2, <2>2
        <3>1. State(t) = "retry" /\ State(t)' = "queued" /\ t \notin wanted
            BY <1>5, <1>7, <2>2, <3>0
        <3>2. Has(retries, t) /\ ~Has(queue, Completion(t))
            BY <2>1, <3>1 DEF Owned, Completion, Once, Has
        <3> QED
            BY <1>3, <1>4, <2>2, <3>1, <3>2 DEF Owned, Completion
    <2>3. CASE t \notin due
        <3>1. State(t)' = State(t) /\ (State(t) = "retry" => t \in wanted)
            BY <1>5, <1>7, <2>3
        <3>2. State(t) = "retry" => releases'[t].attempts = releases[t].attempts
            BY <1>6 DEF State
        <3> QED
            BY <1>3, <1>4, <2>1, <2>3, <3>1, <3>2 DEF Owned, Completion
    <2> QED
        BY <2>2, <2>3
<1>9. DeliveryFits'
    <2>1. DeliveryFits /\ \A t \in due : t \in DOMAIN releases /\ releases[t].state = "retry"
        BY DEF ReleaseOwners, InState
    <2> QED
        BY <1>2, <1>6, <2>1 DEF DeliveryFits
<1> QED
    BY <1>2, <1>3, <1>4, <1>8, <1>9 DEF ReleaseOwners

Owners == ReleaseOwners /\ RetirementOwners

\* The commands of the anchors that go on.
LEMMA RetireElements ==
    ASSUME NEW barriers, DOMAIN barriers \subseteq Windows, NEW anchors
    PROVE  /\ RetireItems(barriers, anchors) \in Seq(Items)
           /\ \A w \in anchors \cap DOMAIN barriers :
                barriers[w] = "waiting" => Has(RetireItems(barriers, anchors), Item("retire", w))
           /\ \A t : /\ ~Has(RetireItems(barriers, anchors), Completion(t))
                     /\ ~Has(RetireItems(barriers, anchors), Item("release", t))
<1> DEFINE G == {a \in anchors \cap DOMAIN barriers : barriers[a] = "waiting"}
           S == {Item("retire", w) : w \in G}
           items == RetireItems(barriers, anchors)
<1>1. G \in SUBSET Windows /\ IsFiniteSet(G)
    BY RetirementConstants, FS_Subset
<1>2. S \in SUBSET Items
    BY <1>1, ItemsTyped
<1>3. IsFiniteSet(S)
    <2> DEFINE f == [w \in G |-> Item("retire", w)]
    <2>1. f \in Surjection(G, S)
        BY DEF Surjection
    <2> HIDE DEF f, S, G
    <2> QED
        BY <1>1, <2>1, FS_Surjection
<1>4. items = SetToSeq(S)
    BY DEF RetireItems
<1>5. /\ \A w \in anchors \cap DOMAIN barriers : barriers[w] = "waiting" => Item("retire", w) \in S
      /\ \A t : Completion(t) \notin S /\ Item("release", t) \notin S
    BY ItemsDiffer DEF Completion
<1> HIDE DEF S, items
<1>6. items \in Seq(Items) /\ \A x : Has(items, x) <=> x \in S
    BY <1>2, <1>3, <1>4, SetInSequence
<1> QED
    BY <1>5, <1>6 DEF items

\* A step that leaves the retirements alone.
LEMMA RetirementsIdle ==
    ASSUME RetirementOwners, UNCHANGED <<retirements, dependencies>>,
           \A w : Has(queue, Item("retire", w)) => Has(queue', Item("retire", w))
    PROVE  RetirementOwners'
BY DEF RetirementOwners

\* The end of one release.
LEMMA CompleteAlone ==
    ASSUME ReleaseInv, Owners, NEW t \in DOMAIN releases, NEW terminal \in Outcomes,
           NEW before \in Seq(Items), Complete({t}, terminal, before, <<>>),
           UNCHANGED <<timers, next_release, delivering, retirements, dependencies>>,
           \A x : /\ Has(before, x) => Has(queue, x)
                  /\ x # Item("release", t) /\ Has(queue, x) => Has(before, x)
                  /\ x # Item("release", t) /\ Once(queue, x) => Once(before, x)
    PROVE  Owners'
<1>1. {t} \in SUBSET DOMAIN releases /\ ReleaseOwners /\ RetirementOwners
    BY DEF Owners
<1>2. \A u \in Tokens : /\ Has(before, Completion(u)) => Has(queue, Completion(u))
                        /\ Once(queue, Completion(u)) => Once(before, Completion(u))
                        /\ ~Has(<<>>, Completion(u))
    BY ItemsDiffer, NothingElse DEF Completion
<1>3. \A u \in Tokens \ {t} :
        Has(queue, Item("release", u)) => Has(before, Item("release", u))
    BY ItemsDiffer
<1>4. ReleaseOwners'
    BY <1>1, <1>2, <1>3, NothingElse, CompleteOwners
<1>5. \A x : Has(before, x) => Has(queue', x)
    BY <1>1, NothingElse, CompleteQueues
<1>6. \A w : Has(queue, Item("retire", w)) => Has(before, Item("retire", w))
    BY ItemsDiffer
<1>7. RetirementOwners'
    BY <1>1, <1>5, <1>6, RetirementsIdle
<1> QED
    BY <1>4, <1>7 DEF Owners

\* The end of a native window.
LEMMA SettleTerminalOwners ==
    ASSUME ReleaseInv, DependencyInv, ReleaseOwners, NEW w \in Windows,
           NEW barriers, DOMAIN barriers \subseteq Windows, NEW rest \in Seq(Items),
           SettleTerminal(w, barriers, rest),
           UNCHANGED <<timers, next_release, delivering>>,
           \A t \in Tokens : /\ Has(rest, Completion(t)) => Has(queue, Completion(t))
                             /\ Once(queue, Completion(t)) => Once(rest, Completion(t)),
           \A t \in Tokens \ ReleasesOf(w) :
             Has(queue, Item("release", t)) => Has(rest, Item("release", t)),
           \A a \in DOMAIN barriers \ {w} :
             /\ barriers[a] = "queued" => Has(rest, Item("retire", a))
             /\ barriers[a] = "waiting" => dependencies[a] # {}
    PROVE  Owners'
<1> DEFINE left == Without(barriers, {w})
           after == RetireItems(left, Ready(w))
<1>1. /\ dependencies' = [a \in Windows |-> IF a = w THEN {} ELSE dependencies[a] \ {w}]
      /\ retirements' = GoOn(left, Ready(w))
      /\ Complete(ReleasesOf(w), "native_terminal", rest, after)
    BY DEF SettleTerminal
<1>2. DOMAIN left = DOMAIN barriers \ {w} /\ \A a \in DOMAIN left : left[a] = barriers[a]
    BY DEF Without, Restrict
<1>3. ReleasesOf(w) \in SUBSET DOMAIN releases /\ "native_terminal" \in Outcomes
    BY DEF ReleasesOf, Outcomes
<1> HIDE DEF left
<1>4. DOMAIN left \subseteq Windows
    BY <1>2
<1>5. /\ after \in Seq(Items)
      /\ \A a \in Ready(w) \cap DOMAIN left : left[a] = "waiting" => Has(after, Item("retire", a))
      /\ \A t : ~Has(after, Completion(t)) /\ ~Has(after, Item("release", t))
    BY <1>4, RetireElements
<1> HIDE DEF after
<1>6. ReleaseOwners'
    BY <1>1, <1>3, <1>5, CompleteOwners
<1>7. \A x : Has(rest, x) \/ Has(after, x) => Has(queue', x)
    BY <1>1, <1>3, <1>5, CompleteQueues
<1>8. RetirementOwners'
    <2>1. ASSUME NEW a \in DOMAIN retirements'
          PROVE  /\ retirements'[a] = "queued" => Has(queue', Item("retire", a))
                 /\ retirements'[a] = "waiting" => dependencies'[a] # {}
        <3>1. a \in DOMAIN left /\ a # w /\ a \in Windows /\ left[a] = barriers[a]
            BY <1>1, <1>2, <1>4 DEF GoOn
        <3>2. retirements'[a] = IF a \in Ready(w) /\ left[a] = "waiting" THEN "queued" ELSE left[a]
            BY <1>1, <3>1 DEF GoOn
        <3>3. CASE a \in Ready(w) /\ left[a] = "waiting"
            BY <1>5, <1>7, <3>1, <3>2, <3>3
        <3>4. CASE ~(a \in Ready(w) /\ left[a] = "waiting")
            <4>1. left[a] = "waiting" => dependencies[a] # {} /\ dependencies[a] # {w}
                BY <1>2, <3>1, <3>4 DEF Ready
            <4>2. dependencies'[a] = dependencies[a] \ {w}
                BY <1>1, <3>1
            <4>3. left[a] = "queued" => Has(rest, Item("retire", a))
                BY <1>2, <3>1
            <4> QED
                BY <1>7, <3>2, <3>4, <4>1, <4>2, <4>3
        <3> QED
            BY <3>3, <3>4
    <2> QED
        BY <2>1 DEF RetirementOwners
<1> QED
    BY <1>6, <1>8 DEF Owners

\* ... at the front of the queue, whose item was for it.
LEMMA SettleTerminalPopped ==
    ASSUME ReleaseInv, DependencyInv, Owners, NEW w \in Windows, NEW kind, NEW id,
           IsNext(kind, id), SettleTerminal(w, retirements, Tail(queue)),
           UNCHANGED <<timers, next_release, delivering>>,
           \/ kind = "release" /\ id \in ReleasesOf(w)
           \/ kind \in {"retire", "closed"} /\ id = w
    PROVE  Owners'
<1>1. /\ Tail(queue) \in Seq(Items)
      /\ \A x : Has(Tail(queue), x) => Has(queue, x)
      /\ \A x : x # Item(kind, id) /\ Has(queue, x) => Has(Tail(queue), x)
      /\ \A x : x # Item(kind, id) /\ Once(queue, x) => Once(Tail(queue), x)
    BY Popped DEF Owners
<1>2. /\ \A t : Completion(t) # Item(kind, id)
      /\ \A t : t \notin ReleasesOf(w) => Item("release", t) # Item(kind, id)
      /\ \A a : a # w => Item("retire", a) # Item(kind, id)
    BY ItemsDiffer DEF Completion
<1>3. /\ DOMAIN retirements \subseteq Windows /\ ReleaseOwners
      /\ \A a \in DOMAIN retirements :
             /\ retirements[a] = "queued" => Has(queue, Item("retire", a))
             /\ retirements[a] = "waiting" => dependencies[a] # {}
    BY DEF DependencyInv, Owners, RetirementOwners
<1> QED
    BY <1>1, <1>2, <1>3, SettleTerminalOwners

\* Releases whose state moves on, and nothing else of them.
LEMMA MovedOwners ==
    ASSUME ReleaseInv, ReleaseOwners, queue' \in Seq(Items),
           UNCHANGED <<next_release, retries, timers, delivering>>,
           NEW ts \in SUBSET DOMAIN releases, NEW state \in States \ Quiet,
           \A t \in ts : releases[t].state \notin Quiet,
           releases' = [t \in DOMAIN releases |->
                           IF t \in ts THEN [releases[t] EXCEPT !.state = state] ELSE releases[t]],
           \A t \in ts : state = "queued" => Has(queue', Item("release", t)),
           \A t \in Tokens :
             /\ Has(queue, Item("release", t)) => Has(queue', Item("release", t))
             /\ Once(queue, Completion(t)) => Once(queue', Completion(t))
             /\ Has(queue', Completion(t)) => Has(queue, Completion(t))
    PROVE  ReleaseOwners'
<1>1. DOMAIN releases' = DOMAIN releases
    OBVIOUS
<1>2. ASSUME NEW t \in DOMAIN releases
      PROVE  /\ releases'[t].drag = releases[t].drag
             /\ releases'[t].attempts = releases[t].attempts
             /\ releases'[t].state = IF t \in ts THEN state ELSE releases[t].state
    <2>1. releases[t] \in Records
        BY DEF ReleaseInv, ReleasesTyped
    <2>2. \/ t \in ts /\ releases'[t] = [releases[t] EXCEPT !.state = state]
          \/ t \notin ts /\ releases'[t] = releases[t]
        OBVIOUS
    <2> QED
        BY <2>1, <2>2 DEF Records
<1>3. ASSUME NEW t \in Tokens
      PROVE  /\ State(t)' = State(t) \/ (State(t) \notin Quiet /\ State(t)' \notin Quiet)
             /\ State(t)' = "queued" => Has(queue', Item("release", t))
    <2>1. Owned(t)
        BY DEF ReleaseOwners
    <2>2. CASE t \in ts
        <3>1. t \in DOMAIN releases /\ State(t) = releases[t].state /\ State(t)' = state
            BY <1>1, <1>2, <2>2 DEF State
        <3> QED
            BY <2>2, <3>1
    <2>3. CASE t \notin ts
        <3>1. State(t)' = State(t)
            BY <1>1, <1>2, <2>3 DEF State
        <3> QED
            BY <2>1, <3>1 DEF Owned
    <2> QED
        BY <2>2, <2>3
<1> QED
    BY <1>1, <1>2, <1>3, OwnersStay

LEMMA OwnerInit == Init => Owners
<1> SUFFICES ASSUME Init PROVE Owners
    OBVIOUS
<1>1. /\ queue = <<>> /\ retries = <<>> /\ DOMAIN releases = {} /\ DOMAIN retirements = {}
      /\ next_release = 1 /\ delivering = NoToken
    BY DEF Init
<1>2. queue \in Seq(Items) /\ retries \in Seq(Tokens) /\ next_release \in 1 .. MaxReleases + 1
    BY <1>1, RetirementConstants
<1>3. \A t \in Tokens : Owned(t)
    BY <1>1 DEF Owned, State, Has
<1> QED
    BY <1>1, <1>2, <1>3 DEF Owners, ReleaseOwners, RetirementOwners, DeliveryFits

\* Continuations are attached and taken without moving a barrier.
LEMMA AttachOwners ==
    ASSUME ReleaseInv, Owners, NEW t \in Tokens, Attach(t)
    PROVE  Owners'
<1>1. /\ t \in DOMAIN releases
      /\ releases' = [releases EXCEPT ![t].continuations = releases[t].continuations + 1]
      /\ UNCHANGED <<next_release, retries, timers, queue, delivering, retirements, dependencies>>
    BY DEF Attach, windowVars
<1>2. ASSUME NEW u \in DOMAIN releases
      PROVE  /\ releases'[u].drag = releases[u].drag
             /\ releases'[u].attempts = releases[u].attempts
             /\ releases'[u].state = releases[u].state
    <2>1. releases[u] \in Records
        BY DEF ReleaseInv, ReleasesTyped
    <2> QED
        BY <1>1, <2>1 DEF Records
<1>3. \A u \in Tokens : State(u)' = State(u) /\ Owned(u)
    BY <1>1, <1>2 DEF State, Owners, ReleaseOwners
<1>4. queue' \in Seq(Items) /\ ReleaseOwners
    BY <1>1 DEF Owners, ReleaseOwners
<1>5. ReleaseOwners'
    BY <1>1, <1>2, <1>3, <1>4, OwnersStay DEF Owned
<1>6. RetirementOwners'
    BY <1>1, RetirementsIdle DEF Owners
<1> QED
    BY <1>5, <1>6 DEF Owners

LEMMA TakeOwners ==
    ASSUME ReleaseInv, Owners, TakeContinuations
    PROVE  Owners'
<1>1. /\ releases' = [releases EXCEPT ![delivering].continuations = 0]
      /\ UNCHANGED <<next_release, retries, timers, queue, delivering, retirements, dependencies>>
    BY DEF TakeContinuations, windowVars
<1>2. ASSUME NEW u \in DOMAIN releases
      PROVE  /\ releases'[u].drag = releases[u].drag
             /\ releases'[u].attempts = releases[u].attempts
             /\ releases'[u].state = releases[u].state
    <2>1. releases[u] \in Records
        BY DEF ReleaseInv, ReleasesTyped
    <2> QED
        BY <1>1, <2>1 DEF Records
<1>3. DOMAIN releases' = DOMAIN releases
    BY <1>1
<1>4. \A u \in Tokens : State(u)' = State(u) /\ Owned(u)
    BY <1>2, <1>3 DEF State, Owners, ReleaseOwners
<1>5. queue' \in Seq(Items) /\ ReleaseOwners
    BY <1>1 DEF Owners, ReleaseOwners
<1>6. ReleaseOwners'
    BY <1>1, <1>2, <1>3, <1>4, <1>5, OwnersStay DEF Owned
<1>7. RetirementOwners'
    BY <1>1, RetirementsIdle DEF Owners
<1> QED
    BY <1>6, <1>7 DEF Owners

\* An open cancellation is flushed, or given up.
LEMMA SettleReleaseOwners ==
    ASSUME ReleaseInv, Owners, NEW t \in Tokens, NEW needed \in BOOLEAN, SettleRelease(t, needed)
    PROVE  Owners'
<1>1. /\ t \in DOMAIN releases /\ releases[t].state = "logical" /\ queue \in Seq(Items)
      /\ UNCHANGED <<timers, next_release, delivering, retirements, dependencies>>
    BY DEF SettleRelease, windowVars, deliveryVars, Owners, ReleaseOwners
<1>2. CASE \E terminal \in Outcomes : Complete({t}, terminal, queue, <<>>)
    BY <1>1, <1>2, CompleteAlone
<1>3. CASE needed /\ releases[t].window \notin observed
    <2>1. /\ releases' = [releases EXCEPT ![t].state = "queued"] /\ UNCHANGED retries
          /\ queue' = Append(queue, Item("release", t))
        BY <1>3 DEF SettleRelease
    <2>2. /\ Append(queue, Item("release", t)) \in Seq(Items)
          /\ \A x : Has(queue', x) <=> Has(queue, x) \/ x = Item("release", t)
          /\ \A x : x # Item("release", t) /\ Once(queue, x) => Once(queue', x)
        BY <1>1, <2>1, ItemsTyped, AppendElements
    <2>3. releases' = [u \in DOMAIN releases |->
              IF u \in {t} THEN [releases[u] EXCEPT !.state = "queued"] ELSE releases[u]]
        BY <1>1, <2>1
    <2>4. ReleaseOwners'
        <3>1. "queued" \in States \ Quiet /\ \A u \in {t} : releases[u].state \notin Quiet
            BY <1>1 DEF States, Quiet
        <3>2. \A u \in Tokens : Completion(u) # Item("release", t)
            BY ItemsDiffer DEF Completion
        <3>3. {t} \in SUBSET DOMAIN releases /\ ReleaseOwners
            BY <1>1 DEF Owners
        <3> QED
            BY <1>1, <2>1, <2>2, <2>3, <3>1, <3>2, <3>3, MovedOwners
    <2>5. RetirementOwners'
        BY <1>1, <2>2, RetirementsIdle DEF Owners
    <2> QED
        BY <2>4, <2>5 DEF Owners
<1> QED
    BY <1>2, <1>3 DEF SettleRelease, Outcomes

LEMMA AbandonOwners ==
    ASSUME ReleaseInv, Owners, NEW t \in Tokens, Abandon(t)
    PROVE  Owners'
<1>1. /\ t \in DOMAIN releases /\ releases[t].state = "logical" /\ queue \in Seq(Items)
      /\ UNCHANGED <<timers, next_release, delivering, retirements, dependencies>>
    BY DEF Abandon, windowVars, deliveryVars, Owners, ReleaseOwners
<1>2. CASE releases[t].window \in observed
    <2>1. Complete({t}, "native_terminal", queue, <<>>) /\ "native_terminal" \in Outcomes
        BY <1>2 DEF Abandon, Outcomes
    <2> QED
        BY <1>1, <2>1, CompleteAlone
<1>3. CASE releases[t].window \notin observed
    <2>1. releases' = [releases EXCEPT ![t].state = "native"] /\ UNCHANGED <<queue, retries>>
        BY <1>3 DEF Abandon
    <2>2. releases' = [u \in DOMAIN releases |->
              IF u \in {t} THEN [releases[u] EXCEPT !.state = "native"] ELSE releases[u]]
        BY <1>1, <2>1
    <2>3. "native" \in States \ Quiet /\ \A u \in {t} : releases[u].state \notin Quiet
        BY <1>1 DEF States, Quiet
    <2>4. {t} \in SUBSET DOMAIN releases /\ ReleaseOwners
        BY <1>1 DEF Owners
    <2>5. ReleaseOwners'
        BY <1>1, <2>1, <2>2, <2>3, <2>4, MovedOwners
    <2>6. RetirementOwners'
        BY <1>1, <2>1, RetirementsIdle DEF Owners
    <2> QED
        BY <2>5, <2>6 DEF Owners
<1> QED
    BY <1>2, <1>3

\* The release at the front was dispatched.
LEMMA DispatchedPopped ==
    ASSUME Owners, NEW t \in Tokens, ReleaseDispatched(t)
    PROVE  /\ t \in DOMAIN releases /\ releases[t].state = "queued"
           /\ Tail(queue) \in Seq(Items)
           /\ \A x : /\ Has(Tail(queue), x) => Has(queue, x)
                     /\ x # Item("release", t) /\ Has(queue, x) => Has(Tail(queue), x)
                     /\ x # Item("release", t) /\ Once(queue, x) => Once(Tail(queue), x)
BY Popped DEF ReleaseDispatched, InState, Owners

\* The platform answers a release.
LEMMA ReleasedOwners ==
    ASSUME ReleaseInv, Owners, NEW t \in Tokens, Released(t)
    PROVE  Owners'
<1>1. /\ ReleaseDispatched(t) /\ Complete({t}, "released", Tail(queue), <<>>)
      /\ "released" \in Outcomes
      /\ UNCHANGED <<timers, next_release, delivering, retirements, dependencies>>
    BY DEF Released, windowVars, deliveryVars, Outcomes
<1> QED
    BY <1>1, DispatchedPopped, CompleteAlone

LEMMA RejectedOwners ==
    ASSUME ReleaseInv, Owners, NEW t \in Tokens, ReleaseRejected(t)
    PROVE  Owners'
<1> DEFINE epoch == releases[t].attempts + 1
<1>1. /\ ReleaseDispatched(t) /\ Defer(t, Tail(queue))
      /\ UNCHANGED <<next_release, delivering, retirements, dependencies>>
    BY DEF ReleaseRejected, windowVars, deliveryVars
<1>2. /\ t \in DOMAIN releases /\ releases[t].state = "queued"
      /\ Tail(queue) \in Seq(Items)
      /\ \A x : /\ Has(Tail(queue), x) => Has(queue, x)
                /\ x # Item("release", t) /\ Has(queue, x) => Has(Tail(queue), x)
                /\ x # Item("release", t) /\ Once(queue, x) => Once(Tail(queue), x)
    BY <1>1, DispatchedPopped
<1>3. CASE ~(epoch <= MaxRetries)
    <2>1. Complete({t}, "failed", Tail(queue), <<>>) /\ UNCHANGED timers /\ "failed" \in Outcomes
        BY <1>1, <1>3 DEF Defer, Outcomes
    <2> QED
        BY <1>1, <1>2, <2>1, CompleteAlone
<1>4. CASE epoch <= MaxRetries
    <2>1. /\ releases' = [releases EXCEPT ![t].state = "retry", ![t].attempts = epoch]
          /\ retries' = Append(retries, t) /\ queue' = Tail(queue)
          /\ timers' = timers \cup {<<t, epoch>>}
        BY <1>1, <1>4 DEF Defer
    <2>2. DOMAIN releases' = DOMAIN releases
          /\ \A u \in DOMAIN releases : u # t => releases'[u] = releases[u]
        BY <2>1
    <2>3. releases'[t].state = "retry" /\ releases'[t].attempts = epoch
        <3>1. releases[t] \in Records
            BY <1>2 DEF ReleaseInv, ReleasesTyped
        <3> QED
            BY <1>2, <2>1, <3>1 DEF Records
    <2>4. /\ retries \in Seq(Tokens) /\ Append(retries, t) \in Seq(Tokens)
          /\ \A u : Has(retries', u) <=> Has(retries, u) \/ u = t
          /\ \A u : u # t /\ Once(retries, u) => Once(retries', u)
          /\ ~Has(retries, t) => Once(retries', t)
        <3>1. retries \in Seq(Tokens)
            BY DEF Owners, ReleaseOwners
        <3> QED
            BY <2>1, <3>1, AppendElements
    <2>5. \A u : Completion(u) # Item("release", t)
                 /\ (u # t => Item("release", u) # Item("release", t))
        BY ItemsDiffer DEF Completion
    <2>6. ASSUME NEW u \in Tokens PROVE Owned(u)'
        <3>1. Owned(u)
            BY DEF Owners, ReleaseOwners
        <3>2. CASE u = t
            <4>1. State(t)' = "retry" /\ State(t) = "queued"
                BY <1>2, <2>2, <2>3 DEF State
            <4>2. ~Has(retries, t) /\ ~Has(queue, Completion(t))
                BY <3>1, <3>2, <4>1 DEF Owned, Completion
            <4>3. Once(retries', t) /\ <<t, releases'[t].attempts>> \in timers'
                BY <2>1, <2>3, <2>4, <4>2
            <4>4. ~Has(queue', Completion(t))
                BY <1>2, <2>1, <4>2
            <4> QED
                BY <3>2, <4>1, <4>3, <4>4 DEF Owned, Completion
        <3>3. CASE u # t
            <4>1. State(u)' = State(u)
                BY <2>2, <3>3 DEF State
            <4>2. State(u) = "retry" => releases'[u].attempts = releases[u].attempts
                BY <2>2, <3>3 DEF State
            <4>3. /\ Has(queue, Item("release", u)) => Has(queue', Item("release", u))
                  /\ Once(queue, Completion(u)) => Once(queue', Completion(u))
                  /\ Has(queue', Completion(u)) => Has(queue, Completion(u))
                BY <1>2, <2>1, <2>5, <3>3
            <4>4. timers \subseteq timers'
                BY <2>1
            <4> QED
                BY <2>4, <3>1, <3>3, <4>1, <4>2, <4>3, <4>4 DEF Owned, Completion
        <3> QED
            BY <3>2, <3>3
    <2>7. DeliveryFits'
        <3>1. DeliveryFits
            BY DEF Owners, ReleaseOwners
        <3>2. delivering' = delivering /\ delivering # t
            BY <1>1, <1>2, <3>1 DEF DeliveryFits
        <3> QED
            BY <2>2, <2>3, <3>1, <3>2 DEF DeliveryFits
    <2>8. ReleaseOwners'
        BY <1>1, <1>2, <2>1, <2>2, <2>4, <2>6, <2>7 DEF Owners, ReleaseOwners
    <2>9. \A w : Has(queue, Item("retire", w)) => Has(queue', Item("retire", w))
        BY <1>2, <2>1, ItemsDiffer
    <2>10. RetirementOwners'
        BY <1>1, <2>9, RetirementsIdle DEF Owners
    <2> QED
        BY <2>8, <2>10 DEF Owners
<1> QED
    BY <1>3, <1>4

\* A step that moves one retirement.
LEMMA RetirementMoves ==
    ASSUME RetirementOwners, UNCHANGED dependencies, NEW w,
           DOMAIN retirements' \subseteq DOMAIN retirements \cup {w},
           \A a \in DOMAIN retirements' \ {w} : retirements'[a] = retirements[a],
           \A a : a # w /\ Has(queue, Item("retire", a)) => Has(queue', Item("retire", a)),
           w \in DOMAIN retirements' =>
             /\ retirements'[w] = "queued" => Has(queue', Item("retire", w))
             /\ retirements'[w] = "waiting" => dependencies[w] # {}
    PROVE  RetirementOwners'
BY DEF RetirementOwners

\* The releases stay, and the front item was not about one.
LEMMA PoppedIdle ==
    ASSUME ReleaseOwners, NEW kind, NEW id, IsNext(kind, id), queue' = Tail(queue),
           UNCHANGED <<next_release, releases, retries, timers, delivering>>,
           kind # "completion", kind = "release" => State(id) # "queued"
    PROVE  ReleaseOwners'
<1>1. /\ Tail(queue) \in Seq(Items)
      /\ \A x : Has(Tail(queue), x) => Has(queue, x)
      /\ \A x : x # Item(kind, id) /\ Has(queue, x) => Has(Tail(queue), x)
      /\ \A x : x # Item(kind, id) /\ Once(queue, x) => Once(Tail(queue), x)
    BY Popped
<1>2. /\ \A t : Completion(t) # Item(kind, id)
      /\ \A t : Item("release", t) = Item(kind, id) => kind = "release" /\ id = t
    BY DEF Completion, Item
<1>3. ASSUME NEW t \in Tokens, State(t) = "queued", Has(queue, Item("release", t))
      PROVE  Has(queue', Item("release", t))
    BY <1>1, <1>2, <1>3
<1> QED
    BY <1>1, <1>2, <1>3, OwnersIdle

\* A completion is delivered once, and then the release is over.
LEMMA BeginOwners ==
    ASSUME ReleaseInv, Owners, NEW t \in Tokens, BeginCompletion(t)
    PROVE  Owners'
<1>1. /\ IsNext("completion", t) /\ t \in DOMAIN releases /\ releases[t].state = "completion"
      /\ queue' = Tail(queue) /\ delivering = NoToken /\ delivering' = t
      /\ releases' = [releases EXCEPT ![t].state = "delivering"]
      /\ UNCHANGED <<next_release, retries, timers, retirements, dependencies>>
    BY DEF BeginCompletion, InState, windowVars, IsNext
<1>2. /\ Tail(queue) \in Seq(Items)
      /\ \A x : Has(Tail(queue), x) => Has(queue, x)
      /\ \A x : x # Completion(t) /\ Has(queue, x) => Has(Tail(queue), x)
      /\ \A x : x # Completion(t) /\ Once(queue, x) => Once(Tail(queue), x)
      /\ Once(queue, Completion(t)) => ~Has(Tail(queue), Completion(t))
    BY <1>1, Popped DEF Owners, Completion
<1>3. /\ DOMAIN releases' = DOMAIN releases
      /\ \A u \in DOMAIN releases : u # t => releases'[u] = releases[u]
    BY <1>1
<1>4. releases'[t].state = "delivering" /\ releases'[t].drag = releases[t].drag
    <2>1. releases[t] \in Records
        BY <1>1 DEF ReleaseInv, ReleasesTyped
    <2> QED
        BY <1>1, <2>1 DEF Records
<1>5. ASSUME NEW u \in Tokens PROVE Owned(u)'
    <2>1. Owned(u)
        BY DEF Owners, ReleaseOwners
    <2>2. CASE u = t
        <3>1. State(t) = "completion" /\ State(t)' = "delivering"
            BY <1>1, <1>3, <1>4 DEF State
        <3>2. ~Has(retries, t) /\ Once(queue, Completion(t))
            BY <2>1, <2>2, <3>1 DEF Owned, Completion
        <3> QED
            BY <1>1, <1>2, <2>2, <3>1, <3>2 DEF Owned, Completion
    <2>3. CASE u # t
        <3>1. State(u)' = State(u)
            BY <1>3, <2>3 DEF State
        <3>2. State(u) = "retry" => releases'[u].attempts = releases[u].attempts
            BY <1>3, <2>3 DEF State
        <3>3. Completion(u) # Completion(t) /\ Item("release", u) # Completion(t)
            BY <2>3, ItemsDiffer DEF Completion
        <3>4. /\ Has(queue, Item("release", u)) => Has(queue', Item("release", u))
              /\ Once(queue, Completion(u)) => Once(queue', Completion(u))
              /\ Has(queue', Completion(u)) => Has(queue, Completion(u))
            BY <1>1, <1>2, <3>3
        <3> QED
            BY <1>1, <2>1, <3>1, <3>2, <3>4 DEF Owned, Completion
    <2> QED
        BY <2>2, <2>3
<1>6. DeliveryFits'
    <2>1. DeliveryFits /\ NoToken \notin DOMAIN releases
        BY TokensKnown DEF Owners, ReleaseOwners
    <2>2. releases[t].drag
        BY <1>1, <2>1 DEF DeliveryFits
    <2>3. ASSUME NEW u \in DOMAIN releases'
          PROVE  /\ releases'[u].state \in {"completion", "delivering"} => releases'[u].drag
                 /\ releases'[u].state = "delivering" <=> delivering' = u
        <3>1. CASE u = t
            BY <1>1, <1>4, <2>2, <3>1
        <3>2. CASE u # t
            BY <1>1, <1>3, <2>1, <3>2 DEF DeliveryFits
        <3> QED
            BY <3>1, <3>2
    <2> QED
        BY <1>1, <1>3, <2>3 DEF DeliveryFits
<1>7. ReleaseOwners'
    BY <1>1, <1>2, <1>3, <1>5, <1>6 DEF Owners, ReleaseOwners
<1>8. \A w : Has(queue, Item("retire", w)) => Has(queue', Item("retire", w))
    BY <1>1, <1>2, ItemsDiffer DEF Completion
<1>9. RetirementOwners'
    BY <1>1, <1>8, RetirementsIdle DEF Owners
<1> QED
    BY <1>7, <1>9 DEF Owners

LEMMA FinishOwners ==
    ASSUME ReleaseInv, Owners, FinishCompletion
    PROVE  Owners'
<1>1. /\ delivering # NoToken /\ delivering' = NoToken
      /\ releases' = Without(releases, {delivering})
      /\ UNCHANGED <<next_release, retries, timers, queue, retirements, dependencies>>
    BY DEF FinishCompletion, windowVars
<1>2. /\ DOMAIN releases' = DOMAIN releases \ {delivering}
      /\ \A u \in DOMAIN releases' : releases'[u] = releases[u]
    BY <1>1 DEF Without, Restrict
<1>3. DeliveryFits /\ DOMAIN releases \subseteq Tokens /\ NoToken \notin DOMAIN releases
    BY TokensKnown DEF Owners, ReleaseOwners
<1>4. ASSUME NEW u \in Tokens PROVE Owned(u)'
    <2>1. Owned(u)
        BY DEF Owners, ReleaseOwners
    <2>2. CASE u = delivering
        <3>1. State(u) = "delivering" /\ State(u)' = "over"
            BY <1>1, <1>2, <1>3, <2>2 DEF State, DeliveryFits
        <3> QED
            BY <1>1, <2>1, <3>1 DEF Owned
    <2>3. CASE u # delivering
        <3>1. State(u)' = State(u) /\ (State(u) = "retry" => releases'[u] = releases[u])
            BY <1>2, <2>3 DEF State
        <3> QED
            BY <1>1, <2>1, <3>1 DEF Owned
    <2> QED
        BY <2>2, <2>3
<1>5. DeliveryFits'
    BY <1>1, <1>2, <1>3 DEF DeliveryFits
<1>6. ReleaseOwners'
    BY <1>1, <1>2, <1>4, <1>5 DEF Owners, ReleaseOwners
<1>7. RetirementOwners'
    BY <1>1, RetirementsIdle DEF Owners
<1> QED
    BY <1>6, <1>7 DEF Owners

\* Work that is dropped was about a barrier that has moved on.
LEMMA StaleOwners ==
    ASSUME Owners, Stale
    PROVE  Owners'
<1>1. /\ delivering = NoToken /\ queue # <<>> /\ queue \in Seq(Items) /\ queue' = Tail(queue)
      /\ UNCHANGED <<next_release, releases, retries, timers, delivering, retirements,
                     dependencies>>
    BY DEF Stale, windowVars, releaseVars, deliveryVars, Owners, ReleaseOwners
<1>2. PICK item \in Items : item = Head(queue)
    BY <1>1
<1>3. item = Item(item.kind, item.id)
    BY DEF Items, Item
<1>4. IsNext(item.kind, item.id)
    BY <1>1, <1>2, <1>3 DEF IsNext
<1>5. ~(item.kind = "completion")
    <2>1. SUFFICES ASSUME item.kind = "completion" PROVE FALSE
        OBVIOUS
    <2>2. item.id \in Tokens
        BY <2>1 DEF Items
    <2>3. State(item.id) # "completion"
        BY <1>2, <2>1 DEF Stale, State, InState
    <2>4. ~Has(queue, Item("completion", item.id))
        BY <2>2, <2>3 DEF Owners, ReleaseOwners, Owned
    <2>5. Has(queue, Item("completion", item.id))
        BY <1>4, <2>1, Popped DEF Owners
    <2> QED
        BY <2>4, <2>5
<1>6. item.kind = "release" => State(item.id) # "queued"
    BY <1>2 DEF Stale, State, InState
<1>7. ReleaseOwners'
    BY <1>1, <1>4, <1>5, <1>6, PoppedIdle DEF Owners
<1>8. item.kind = "retire" => ~(item.id \in DOMAIN retirements /\ retirements[item.id] = "queued")
    BY <1>2 DEF Stale
<1>9. \A x : x # Item(item.kind, item.id) /\ Has(queue, x) => Has(Tail(queue), x)
    BY <1>4, Popped DEF Owners
<1>10. \A w : Item("retire", w) = Item(item.kind, item.id) => item.kind = "retire" /\ item.id = w
    BY DEF Item
<1>11. RetirementOwners'
    BY <1>1, <1>8, <1>9, <1>10 DEF Owners, RetirementOwners
<1> QED
    BY <1>7, <1>11 DEF Owners

\* The attempt to retire a window moves its barrier on.
LEMMA RetiringOwners ==
    ASSUME Owners, NEW w \in Windows, Retiring(w), queue' = Tail(queue),
           NEW state \in {"awaiting", "retry"}, retirements' = [retirements EXCEPT ![w] = state],
           UNCHANGED <<releases, retries, dependencies>>
    PROVE  Owners'
<1>1. IsNext("retire", w) /\ w \in DOMAIN retirements
      /\ UNCHANGED <<next_release, timers, delivering>>
    BY DEF Retiring, deliveryVars
<1>2. ReleaseOwners'
    BY <1>1, PoppedIdle DEF Owners
<1>3. \A a : a # w /\ Has(queue, Item("retire", a)) => Has(queue', Item("retire", a))
    BY <1>1, Popped, ItemsDiffer DEF Owners
<1>4. RetirementOwners'
    BY <1>1, <1>3, RetirementMoves DEF Owners
<1> QED
    BY <1>2, <1>4 DEF Owners

\* A retirement is tried again.
LEMMA RetireTimerOwners ==
    ASSUME Owners, NEW w \in Windows, RetireTimer(w)
    PROVE  Owners'
<1>1. /\ w \in DOMAIN retirements /\ retirements' = [retirements EXCEPT ![w] = "queued"]
      /\ queue' = Append(queue, Item("retire", w)) /\ queue \in Seq(Items)
      /\ UNCHANGED <<next_release, releases, retries, timers, delivering, dependencies>>
    BY DEF RetireTimer, releaseVars, deliveryVars, Owners, ReleaseOwners
<1>2. /\ queue' \in Seq(Items) /\ Has(queue', Item("retire", w))
      /\ \A x : Has(queue, x) => Has(queue', x)
      /\ \A t : /\ Has(queue', Completion(t)) => Has(queue, Completion(t))
                /\ Once(queue, Completion(t)) => Once(queue', Completion(t))
    BY <1>1, BehindRetirement
<1>3. ReleaseOwners'
    BY <1>1, <1>2, OwnersIdle DEF Owners
<1>4. RetirementOwners'
    BY <1>1, <1>2, RetirementMoves DEF Owners
<1> QED
    BY <1>3, <1>4 DEF Owners

\* An anchor that no longer waits goes on.
LEMMA CancelOwners ==
    ASSUME DependencyInv, Owners, NEW w \in Windows, CancelDependencies(w)
    PROVE  Owners'
<1> DEFINE items == RetireItems(retirements, {w})
<1>1. /\ dependencies' = [dependencies EXCEPT ![w] = {}]
      /\ retirements' = GoOn(retirements, {w}) /\ queue' = queue \o items
      /\ UNCHANGED <<next_release, releases, retries, timers, delivering>>
      /\ queue \in Seq(Items) /\ DOMAIN retirements \subseteq Windows
      /\ dependencies \in [Windows -> SUBSET Windows]
    BY DEF CancelDependencies, releaseVars, deliveryVars, Owners, ReleaseOwners, DependencyInv
<1>2. /\ items \in Seq(Items)
      /\ w \in DOMAIN retirements /\ retirements[w] = "waiting" => Has(items, Item("retire", w))
      /\ \A t : ~Has(items, Completion(t))
    BY <1>1, RetireElements
<1> HIDE DEF items
<1>3. /\ queue' \in Seq(Items)
      /\ \A x : Has(queue', x) <=> Has(queue, x) \/ Has(items, x)
      /\ \A x : Once(queue, x) /\ ~Has(items, x) => Once(queue', x)
    BY <1>1, <1>2, ConcatElements
<1>4. ReleaseOwners'
    BY <1>1, <1>2, <1>3, OwnersIdle DEF Owners
<1>5. ASSUME NEW a \in DOMAIN retirements'
      PROVE  /\ retirements'[a] = "queued" => Has(queue', Item("retire", a))
             /\ retirements'[a] = "waiting" => dependencies'[a] # {}
    <2>1. /\ a \in DOMAIN retirements /\ a \in Windows
          /\ retirements'[a] = IF a = w /\ retirements[a] = "waiting" THEN "queued"
                               ELSE retirements[a]
        BY <1>1 DEF GoOn
    <2>2. /\ retirements[a] = "queued" => Has(queue, Item("retire", a))
          /\ retirements[a] = "waiting" => dependencies[a] # {}
        BY <2>1 DEF Owners, RetirementOwners
    <2>3. a # w => dependencies'[a] = dependencies[a]
        BY <1>1, <2>1
    <2> QED
        BY <1>2, <1>3, <2>1, <2>2, <2>3
<1>6. RetirementOwners'
    BY <1>5 DEF RetirementOwners
<1> QED
    BY <1>4, <1>6 DEF Owners

\* The barrier of a window that is removed, behind what is in a queue.
LEMMA FirstStateOwned ==
    ASSUME NEW q \in Seq(Items), NEW w \in Windows, NEW rest,
           rest = IF FirstState(w) = "queued" THEN Append(q, Item("retire", w)) ELSE q
    PROVE  /\ rest \in Seq(Items)
           /\ FirstState(w) = "queued" => Has(rest, Item("retire", w))
           /\ FirstState(w) = "waiting" => dependencies[w] # {}
           /\ \A x : Has(q, x) => Has(rest, x)
           /\ \A t : /\ Has(rest, Completion(t)) => Has(q, Completion(t))
                     /\ Once(q, Completion(t)) => Once(rest, Completion(t))
<1>1. FirstState(w) = "waiting" => dependencies[w] # {}
    BY DEF FirstState
<1>2. CASE FirstState(w) = "queued"
    BY <1>1, <1>2, BehindRetirement
<1>3. CASE FirstState(w) # "queued"
    BY <1>1, <1>3
<1> QED
    BY <1>2, <1>3

\* A window leaves the application by itself or with its native window.
LEMMA RemoveOwners ==
    ASSUME ReleaseInv, DependencyInv, Owners, NEW w \in Windows, RemoveWindow(w)
    PROVE  Owners'
<1> DEFINE rest == IF FirstState(w) = "queued" THEN Append(queue, Item("retire", w)) ELSE queue
<1>1. /\ retirements' = With(retirements, w, FirstState(w)) /\ queue \in Seq(Items)
      /\ UNCHANGED <<next_release, timers, delivering, dependencies>>
    BY DEF RemoveWindow, deliveryVars, Owners, ReleaseOwners
<1>2. /\ rest \in Seq(Items)
      /\ FirstState(w) = "queued" => Has(rest, Item("retire", w))
      /\ FirstState(w) = "waiting" => dependencies[w] # {}
      /\ \A x : Has(queue, x) => Has(rest, x)
      /\ \A t : /\ Has(rest, Completion(t)) => Has(queue, Completion(t))
                /\ Once(queue, Completion(t)) => Once(rest, Completion(t))
    BY <1>1, FirstStateOwned
<1>3. /\ w \in observed => Complete(ReleasesOf(w), "native_terminal", rest, <<>>)
      /\ w \notin observed =>
           /\ releases' = [t \in DOMAIN releases |->
                IF t \in InState(ReleasesOf(w), {"logical"})
                THEN [releases[t] EXCEPT !.state = "native"] ELSE releases[t]]
           /\ queue' = rest /\ UNCHANGED retries
    BY DEF RemoveWindow
<1> HIDE DEF rest
<1>4. CASE w \in observed
    <2>1. ReleasesOf(w) \in SUBSET DOMAIN releases /\ "native_terminal" \in Outcomes
        BY DEF ReleasesOf, Outcomes
    <2>2. ReleaseOwners' /\ \A x : Has(rest, x) => Has(queue', x)
        BY <1>1, <1>2, <1>3, <1>4, <2>1, NothingElse, CompleteOwners, CompleteQueues DEF Owners
    <2> QED
        BY <1>1, <1>2, <2>2, RetirementMoves DEF Owners, With
<1>5. CASE w \notin observed
    <2> DEFINE ts == InState(ReleasesOf(w), {"logical"})
    <2>1. ts \in SUBSET DOMAIN releases /\ \A t \in ts : releases[t].state = "logical"
        BY DEF InState, ReleasesOf
    <2>2. /\ releases' = [t \in DOMAIN releases |->
                IF t \in ts THEN [releases[t] EXCEPT !.state = "native"] ELSE releases[t]]
          /\ queue' = rest /\ UNCHANGED retries
        BY <1>3, <1>5
    <2> HIDE DEF ts
    <2>3. "native" \in States \ Quiet /\ \A t \in ts : releases[t].state \notin Quiet
        BY <2>1 DEF States, Quiet
    <2>4. ReleaseOwners'
        BY <1>1, <1>2, <2>1, <2>2, <2>3, MovedOwners DEF Owners
    <2> QED
        BY <1>1, <1>2, <2>2, <2>4, RetirementMoves DEF Owners, With
<1> QED
    BY <1>4, <1>5

LEMMA ClosedOwners ==
    ASSUME ReleaseInv, DependencyInv, Owners, NEW w \in Windows, DeliverClosed(w)
    PROVE  Owners'
<1>1. /\ IsNext("closed", w) /\ UNCHANGED <<next_release, timers, delivering>>
    BY DEF DeliverClosed, deliveryVars
<1>2. CASE w \notin registered
    BY <1>1, <1>2, SettleTerminalPopped DEF DeliverClosed
<1>3. CASE w \in registered
    <2> DEFINE rest == IF FirstState(w) = "queued" THEN Append(Tail(queue), Item("retire", w))
                       ELSE Tail(queue)
               barriers == With(retirements, w, FirstState(w))
    <2>1. SettleTerminal(w, barriers, rest)
        BY <1>3 DEF DeliverClosed
    <2>2. /\ Tail(queue) \in Seq(Items)
          /\ \A x : Has(Tail(queue), x) => Has(queue, x)
          /\ \A x : x # Item("closed", w) /\ Has(queue, x) => Has(Tail(queue), x)
          /\ \A x : x # Item("closed", w) /\ Once(queue, x) => Once(Tail(queue), x)
        BY <1>1, Popped DEF Owners
    <2>3. /\ rest \in Seq(Items)
          /\ \A x : Has(Tail(queue), x) => Has(rest, x)
          /\ \A t : /\ Has(rest, Completion(t)) => Has(Tail(queue), Completion(t))
                    /\ Once(Tail(queue), Completion(t)) => Once(rest, Completion(t))
        <3>1. CASE FirstState(w) = "queued"
            <4>1. rest = Append(Tail(queue), Item("retire", w))
                BY <3>1
            <4> HIDE DEF rest
            <4> QED
                BY <2>2, <4>1, BehindRetirement
        <3>2. CASE FirstState(w) # "queued"
            <4>1. rest = Tail(queue)
                BY <3>2
            <4> HIDE DEF rest
            <4> QED
                BY <2>2, <4>1
        <3> QED
            BY <3>1, <3>2
    <2>4. /\ DOMAIN barriers \subseteq Windows
          /\ \A a \in DOMAIN barriers \ {w} : a \in DOMAIN retirements /\ barriers[a] = retirements[a]
        BY DEF DependencyInv, With
    <2> HIDE DEF rest, barriers
    <2>5. \A a \in DOMAIN barriers \ {w} :
             /\ barriers[a] = "queued" => Has(rest, Item("retire", a))
             /\ barriers[a] = "waiting" => dependencies[a] # {}
        BY <2>2, <2>3, <2>4, ItemsDiffer DEF Owners, RetirementOwners
    <2>6. \A t : Completion(t) # Item("closed", w) /\ Item("release", t) # Item("closed", w)
        BY ItemsDiffer DEF Completion
    <2>7. \A t \in Tokens : /\ Has(rest, Completion(t)) => Has(queue, Completion(t))
                            /\ Once(queue, Completion(t)) => Once(rest, Completion(t))
                            /\ Has(queue, Item("release", t)) => Has(rest, Item("release", t))
        BY <2>2, <2>3, <2>6
    <2> QED
        BY <1>1, <2>1, <2>3, <2>4, <2>5, <2>7, SettleTerminalOwners DEF Owners
<1> QED
    BY <1>2, <1>3

\* A timer dispatches the newest epoch; an older timer finds a newer one set.
LEMMA RetryTimerOwners ==
    ASSUME ReleaseInv, Owners, NEW t \in Tokens, NEW epoch, RetryTimer(t, epoch)
    PROVE  Owners'
<1> DEFINE due == {u \in InState(DOMAIN releases, {"retry"}) :
                     u = t /\ releases[u].attempts = epoch}
<1>1. /\ Retry({t}, due, queue) /\ timers' = timers \ {<<t, epoch>>} /\ queue \in Seq(Items)
      /\ UNCHANGED <<next_release, delivering, retirements, dependencies>>
    BY DEF RetryTimer, windowVars, deliveryVars, Owners, ReleaseOwners
<1>2. due \in SUBSET InState(DOMAIN releases, {"retry"}) /\ due \subseteq {t} /\ due \in SUBSET Tokens
    OBVIOUS
<1>3. ASSUME NEW u \in Tokens, State(u) = "retry", u \notin due
      PROVE  <<u, releases[u].attempts>> \in timers'
    <2>1. <<u, releases[u].attempts>> \in timers
        BY <1>3 DEF Owners, ReleaseOwners, Owned
    <2>2. u \in InState(DOMAIN releases, {"retry"})
        BY <1>3 DEF State, InState
    <2>3. ~(u = t /\ releases[u].attempts = epoch)
        BY <1>3, <2>2
    <2> QED
        BY <1>1, <2>1, <2>3
<1> HIDE DEF due
<1>4. ReleaseOwners'
    BY <1>1, <1>2, <1>3, RetryOwners DEF Owners
<1>5. queue' = queue \o Dispatched(due)
    BY <1>1 DEF Retry
<1>6. RetirementOwners'
    BY <1>1, <1>2, <1>5, DispatchedItems, RetirementsIdle DEF Owners
<1> QED
    BY <1>4, <1>6 DEF Owners

\* Progress of the window dispatches all its retries.
LEMMA ProgressOwners ==
    ASSUME ReleaseInv, Owners, NEW w \in Windows, NEW rest \in Seq(Items),
           rest = queue \/ rest = Append(queue, Item("closed", w)), RetryProgress(w, rest),
           UNCHANGED <<next_release, timers, delivering, retirements, dependencies>>
    PROVE  Owners'
<1> DEFINE due == InState(ReleasesOf(w), {"retry"})
<1>1. Retry(ReleasesOf(w), due, rest) /\ queue \in Seq(Items) /\ ReleaseOwners
    BY DEF RetryProgress, Owners, ReleaseOwners
<1>2. /\ due \in SUBSET InState(DOMAIN releases, {"retry"}) /\ due \subseteq ReleasesOf(w)
      /\ due \in SUBSET Tokens
    BY <1>1, TokensKnown DEF InState, ReleasesOf
<1>3. \A u \in Tokens : State(u) = "retry" => <<u, releases[u].attempts>> \in timers'
    BY DEF Owners, ReleaseOwners, Owned
<1>4. /\ \A x : Has(queue, x) => Has(rest, x)
      /\ \A u : /\ Has(rest, Completion(u)) => Has(queue, Completion(u))
                /\ Once(queue, Completion(u)) => Once(rest, Completion(u))
    BY <1>1, BehindRetirement
<1> HIDE DEF due
<1>5. ReleaseOwners'
    BY <1>1, <1>2, <1>3, <1>4, RetryOwners
<1>6. queue' = rest \o Dispatched(due)
    BY <1>1 DEF Retry
<1>7. RetirementOwners'
    BY <1>1, <1>2, <1>4, <1>6, DispatchedItems, RetirementsIdle DEF Owners
<1> QED
    BY <1>5, <1>7 DEF Owners

\* Every step leaves each barrier with its owner.
LEMMA OwnersStep ==
    ReleaseInv /\ DependencyInv /\ Owners /\ [Next]_retirementVars => Owners'
<1> SUFFICES ASSUME ReleaseInv, DependencyInv, Owners, [Next]_retirementVars PROVE Owners'
    OBVIOUS
<1> USE DEF windowVars, releaseVars, deliveryVars
<1>q. queue \in Seq(Items) /\ ReleaseOwners /\ RetirementOwners
    BY DEF Owners, ReleaseOwners
<1>same. ASSUME UNCHANGED <<next_release, releases, retries, timers, queue, delivering>>
         PROVE ReleaseOwners'
    <2>1. queue' \in Seq(Items)
        BY <1>q, <1>same
    <2> QED
        BY <1>q, <1>same, <2>1, OwnersIdle
<1>u. ASSUME UNCHANGED <<next_release, releases, retries, timers, queue, delivering, retirements,
                         dependencies>>
      PROVE  Owners'
    BY <1>q, <1>same, <1>u, RetirementsIdle DEF Owners
<1>0. CASE UNCHANGED retirementVars
    BY <1>0, <1>u DEF retirementVars
<1>1. ASSUME NEW w \in Windows, NEW drag \in BOOLEAN, NEW continued \in BOOLEAN,
             Reserve(w, drag, continued)
      PROVE  Owners'
    <2>1. UNCHANGED <<retirements, dependencies>>
          /\ (queue' = queue \/ queue' = Append(queue, Completion(next_release)))
        BY <1>1 DEF Reserve, Completion
    <2>2. next_release \in Tokens
        BY <1>1, <1>q, RetirementConstants DEF Reserve, ReleaseOwners, Tokens
    <2>3. \A x : Has(queue, x) => Has(queue', x)
        <3>1. Completion(next_release) \in Items
            BY <2>2, ItemsTyped DEF Completion
        <3>2. \A x : Has(queue, x) => Has(Append(queue, Completion(next_release)), x)
            BY <1>q, <3>1, AppendElements
        <3> QED
            BY <2>1, <3>2
    <2> QED
        BY <1>1, <1>q, <2>1, <2>3, ReserveOwners, RetirementsIdle DEF Owners
<1>2. ASSUME NEW w \in Windows, NEW windows \in SUBSET Windows, Register(w, windows)
      PROVE  Owners'
    <2>1. /\ w \notin DOMAIN retirements /\ UNCHANGED retirements
          /\ dependencies' = [dependencies EXCEPT ![w] = @ \cup (windows \ observed)]
          /\ UNCHANGED <<next_release, releases, retries, timers, queue, delivering>>
        BY <1>2 DEF Register
    <2>2. RetirementOwners'
        BY <1>q, <2>1 DEF RetirementOwners
    <2> QED
        BY <1>same, <2>1, <2>2 DEF Owners
<1>3. ASSUME NEW w \in Windows, CancelDependencies(w) PROVE Owners'
    BY <1>3, CancelOwners
<1>4. ASSUME NEW w \in Windows, RemoveWindow(w) PROVE Owners'
    BY <1>4, RemoveOwners
<1>5. ASSUME NEW t \in Tokens, Attach(t) \/ Abandon(t) PROVE Owners'
    BY <1>5, AttachOwners, AbandonOwners
<1>6. ASSUME NEW t \in Tokens, NEW needed \in BOOLEAN, SettleRelease(t, needed) PROVE Owners'
    BY <1>6, SettleReleaseOwners
<1>7. CASE Stale \/ TakeContinuations \/ FinishCompletion
    BY <1>7, StaleOwners, TakeOwners, FinishOwners
<1>8. CASE CallContinuation
    BY <1>8, <1>u DEF CallContinuation
<1>9. ASSUME NEW w \in Windows, DeliverClosed(w) PROVE Owners'
    BY <1>9, ClosedOwners
<1>10. ASSUME NEW w \in Windows, Retiring(w), SettleTerminal(w, retirements, Tail(queue))
       PROVE  Owners'
    BY <1>10, SettleTerminalPopped DEF Retiring
<1>11. ASSUME NEW w \in Windows, RetireAccepted(w) PROVE Owners'
    <2>1. CASE w \in observed
        BY <1>10, <1>11, <2>1 DEF RetireAccepted
    <2>2. CASE w \notin observed
        BY <1>11, <2>2, RetiringOwners DEF RetireAccepted
    <2> QED
        BY <2>1, <2>2
<1>12. ASSUME NEW w \in Windows, RetireFindsTerminal(w) PROVE Owners'
    BY <1>10, <1>12 DEF RetireFindsTerminal
<1>13. ASSUME NEW w \in Windows, RetireRejected(w) \/ RetirePanics(w) PROVE Owners'
    BY <1>13, RetiringOwners DEF RetireRejected, RetirePanics
<1>14. ASSUME NEW t \in Tokens, Released(t) \/ ReleaseRejected(t) \/ BeginCompletion(t)
       PROVE  Owners'
    BY <1>14, ReleasedOwners, RejectedOwners, BeginOwners
<1>15. ASSUME NEW t \in Tokens, ReleaseFindsTerminal(t) PROVE Owners'
    <2> DEFINE w == releases[t].window
    <2>1. /\ t \in DOMAIN releases /\ t \in ReleasesOf(w) /\ IsNext("release", t)
          /\ SettleTerminal(w, retirements, Tail(queue))
          /\ UNCHANGED <<next_release, timers, delivering>>
        BY <1>15 DEF ReleaseFindsTerminal, ReleaseDispatched, InState, ReleasesOf
    <2>2. w \in Windows
        BY <2>1 DEF ReleaseInv, ReleasesTyped, Records
    <2>3. SUFFICES ASSUME NEW v \in Windows, v = releases[t].window PROVE Owners'
        BY <2>2
    <2> QED
        BY <2>1, <2>3, SettleTerminalPopped
<1>16. ASSUME NEW w \in Windows, NativeDestroy(w) PROVE Owners'
    <2>1. Append(queue, Item("closed", w)) \in Seq(Items)
        BY <1>q, ItemsTyped
    <2> QED
        BY <1>16, <2>1, ProgressOwners DEF NativeDestroy
<1>17. ASSUME NEW w \in Windows, Progress(w) PROVE Owners'
    BY <1>17, <1>q, ProgressOwners DEF Progress
<1>18. ASSUME NEW w \in Windows, RetireTimer(w) PROVE Owners'
    BY <1>18, RetireTimerOwners
<1>19. ASSUME NEW t \in Tokens, NEW epoch, RetryTimer(t, epoch) PROVE Owners'
    BY <1>19, RetryTimerOwners
<1> QED
    BY <1>0, <1>1, <1>2, <1>3, <1>4, <1>5, <1>6, <1>7, <1>8, <1>9, <1>11, <1>12, <1>13, <1>14,
       <1>15, <1>16, <1>17, <1>18, <1>19 DEF Next, Application, Drain

\* A step that takes no window out of the application and gives no pointer to the platform.
NativeKept ==
    \A t \in DOMAIN releases' :
        releases'[t].state = "native" =>
            /\ t \in DOMAIN releases /\ releases[t].state = "native"
            /\ releases'[t].window = releases[t].window

\* What keeps a removed window with a retirement or among the gone ones.
LEMMA WindowsStay ==
    ASSUME WindowOwners, NativeKept, registered' \subseteq registered,
           \A w \in Windows : w \in registered \cup observed \cup DOMAIN retirements
                                => w \in registered' \cup observed' \cup DOMAIN retirements'
    PROVE  WindowOwners'
BY DEF WindowOwners, NativeKept

\* A completion gives no pointer to the platform.
LEMMA CompleteNative ==
    ASSUME ReleaseInv, NEW ts \in SUBSET DOMAIN releases, NEW terminal \in Outcomes,
           NEW before, NEW after, Complete(ts, terminal, before, after)
    PROVE  NativeKept
<1>1. /\ DOMAIN releases' = DOMAIN releases \ Over(ts)
      /\ \A t \in Due(ts) : State(t)' = "completion" /\ releases[t].drag /\ t \notin Over(ts)
      /\ \A t : t \notin Over(ts) /\ t \notin Due(ts) => State(t)' = State(t)
      /\ \A t \in DOMAIN releases' : releases'[t].window = releases[t].window
    BY CompleteStates
<1>2. ASSUME NEW t \in DOMAIN releases', releases'[t].state = "native"
      PROVE  releases[t].state = "native"
    <2>1. State(t)' = "native" /\ t \in DOMAIN releases /\ t \notin Over(ts)
        BY <1>1, <1>2 DEF State
    <2>2. State(t) = "native"
        BY <1>1, <2>1
    <2> QED
        BY <2>1, <2>2 DEF State
<1> QED
    BY <1>1, <1>2 DEF NativeKept

\* The end of a native window is seen.
LEMMA SettleTerminalWindows ==
    ASSUME ReleaseInv, WindowOwners, NEW w \in Windows, NEW barriers, NEW rest,
           DOMAIN retirements \subseteq DOMAIN barriers, SettleTerminal(w, barriers, rest),
           registered' \in {registered, registered \ {w}}
    PROVE  WindowOwners'
<1>1. ReleasesOf(w) \in SUBSET DOMAIN releases /\ "native_terminal" \in Outcomes
    BY DEF ReleasesOf, Outcomes
<1>2. NativeKept
    BY <1>1, CompleteNative DEF SettleTerminal
<1>3. observed' = observed \cup {w} /\ DOMAIN retirements' = DOMAIN barriers \ {w}
    BY DEF SettleTerminal, GoOn, Without, Restrict
<1> QED
    BY <1>2, <1>3, WindowsStay

LEMMA WindowOwnersInit == Init => WindowOwners
BY DEF Init, WindowOwners

\* Every step keeps a retirement for each removed window until it is seen to be gone.
LEMMA WindowOwnersStep ==
    ReleaseInv /\ DependencyInv /\ WindowOwners /\ [Next]_retirementVars => WindowOwners'
<1> SUFFICES ASSUME ReleaseInv, DependencyInv, WindowOwners, [Next]_retirementVars
             PROVE  WindowOwners'
    OBVIOUS
<1> USE DEF windowVars, releaseVars, deliveryVars
<1>same. ASSUME UNCHANGED <<releases, registered, observed>>,
                DOMAIN retirements' = DOMAIN retirements
         PROVE  WindowOwners'
    BY <1>same, WindowsStay DEF NativeKept
<1>n. ASSUME NativeKept, UNCHANGED <<registered, observed, retirements>> PROVE WindowOwners'
    BY <1>n, WindowsStay
<1>u. CASE UNCHANGED retirementVars
    BY <1>u, <1>same DEF retirementVars
<1>c. ASSUME NEW t \in DOMAIN releases, NEW terminal \in Outcomes, NEW before,
             Complete({t}, terminal, before, <<>>)
      PROVE  NativeKept
    <2>1. {t} \in SUBSET DOMAIN releases
        OBVIOUS
    <2> QED
        BY <1>c, <2>1, CompleteNative
<1>1. ASSUME NEW w \in Windows, NEW drag \in BOOLEAN, NEW continued \in BOOLEAN,
             Reserve(w, drag, continued)
      PROVE  WindowOwners'
    <2> DEFINE b == [window |-> w, drag |-> drag, state |-> "logical", terminal |-> "none",
                     attempts |-> 0, continuations |-> IF continued THEN 1 ELSE 0]
               c == [b EXCEPT !.state = "completion", !.terminal = "native_terminal"]
    <2>1. \/ releases' = releases
          \/ releases' = With(releases, next_release, b)
          \/ releases' = With(releases, next_release, c)
        BY <1>1 DEF Reserve
    <2>2. b.state = "logical" /\ c.state = "completion"
        OBVIOUS
    <2> HIDE DEF b, c
    <2>3. NativeKept
        BY <2>1, <2>2 DEF NativeKept, With
    <2> QED
        BY <1>1, <1>n, <2>3 DEF Reserve
<1>2. ASSUME NEW w \in Windows, NEW windows, Register(w, windows) PROVE WindowOwners'
    BY <1>2, <1>same DEF Register
<1>3. ASSUME NEW w \in Windows, CancelDependencies(w) PROVE WindowOwners'
    BY <1>3, <1>same DEF CancelDependencies, GoOn
<1>4. ASSUME NEW w \in Windows, RemoveWindow(w) PROVE WindowOwners'
    <2>1. /\ registered' = registered \ {w} /\ observed' = observed
          /\ DOMAIN retirements' = DOMAIN retirements \cup {w}
        BY <1>4 DEF RemoveWindow, With
    <2>2. CASE w \in observed
        <3>1. PICK rest : Complete(ReleasesOf(w), "native_terminal", rest, <<>>)
            BY <1>4, <2>2 DEF RemoveWindow
        <3>2. ReleasesOf(w) \in SUBSET DOMAIN releases /\ "native_terminal" \in Outcomes
            BY DEF ReleasesOf, Outcomes
        <3>3. NativeKept
            BY <3>1, <3>2, CompleteNative
        <3> QED
            BY <2>1, <3>3, WindowsStay
    <2>3. CASE w \notin observed
        <3>1. releases' = [t \in DOMAIN releases |->
                    IF t \in InState(ReleasesOf(w), {"logical"})
                    THEN [releases[t] EXCEPT !.state = "native"] ELSE releases[t]]
            BY <1>4, <2>3 DEF RemoveWindow
        <3>2. ASSUME NEW t \in DOMAIN releases', releases'[t].state = "native"
              PROVE  releases'[t].window \notin registered'
            <4>1. t \in DOMAIN releases /\ releases[t] \in Records
                BY <3>1 DEF ReleaseInv, ReleasesTyped
            <4>2. CASE t \in InState(ReleasesOf(w), {"logical"})
                <5>1. releases[t].window = w
                    BY <4>2 DEF InState, ReleasesOf
                <5>2. releases'[t].window = releases[t].window
                    BY <3>1, <4>1, <4>2 DEF Records
                <5> QED
                    BY <2>1, <5>1, <5>2
            <4>3. CASE t \notin InState(ReleasesOf(w), {"logical"})
                BY <2>1, <3>1, <3>2, <4>1, <4>3 DEF WindowOwners
            <4> QED
                BY <4>2, <4>3
        <3> QED
            BY <2>1, <3>2 DEF WindowOwners
    <2> QED
        BY <2>2, <2>3
<1>5. ASSUME NEW t \in Tokens, Attach(t) PROVE WindowOwners'
    <2>1. releases' = [releases EXCEPT ![t] = [@ EXCEPT !["continuations"] = releases[t].continuations + 1]]
          /\ t \in DOMAIN releases
        BY <1>5 DEF Attach
    <2>2. releases[t].continuations + 1 \in Nat
        BY <2>1 DEF ReleaseInv, ReleasesTyped, Records
    <2>3. \A u \in DOMAIN releases : releases'[u].state = releases[u].state
                                     /\ releases'[u].window = releases[u].window
        <3>1. \A u \in DOMAIN releases : releases[u] \in Records
            BY DEF ReleaseInv, ReleasesTyped
        <3> QED
            BY <2>1, <3>1 DEF Records
    <2>4. NativeKept
        BY <2>1, <2>3 DEF NativeKept
    <2> QED
        BY <1>5, <1>n, <2>4 DEF Attach
<1>6. ASSUME NEW t \in Tokens, Abandon(t) PROVE WindowOwners'
    <2>1. t \in DOMAIN releases /\ releases[t].window \notin registered
          /\ UNCHANGED <<registered, observed, retirements>>
        BY <1>6 DEF Abandon
    <2>2. CASE releases[t].window \in observed
        <3>1. Complete({t}, "native_terminal", queue, <<>>) /\ "native_terminal" \in Outcomes
            BY <1>6, <2>2 DEF Abandon, Outcomes
        <3> QED
            BY <1>c, <1>n, <2>1, <3>1
    <2>3. CASE releases[t].window \notin observed
        <3>1. releases' = [releases EXCEPT ![t].state = "native"]
            BY <1>6, <2>3 DEF Abandon
        <3>2. releases[t] \in Records
            BY <2>1 DEF ReleaseInv, ReleasesTyped
        <3>3. /\ releases'[t].window = releases[t].window
              /\ \A u \in DOMAIN releases : u # t => releases'[u] = releases[u]
              /\ DOMAIN releases' = DOMAIN releases
            BY <2>1, <3>1, <3>2 DEF Records
        <3> QED
            BY <2>1, <3>3 DEF WindowOwners
    <2> QED
        BY <2>2, <2>3
<1>e. ASSUME NEW t \in DOMAIN releases, NEW state, state # "native",
             releases' = [releases EXCEPT ![t].state = state]
      PROVE  NativeKept
    <2>1. releases[t] \in Records
        BY DEF ReleaseInv, ReleasesTyped
    <2>2. releases'[t].state # "native"
        BY <1>e, <2>1 DEF Records
    <2> QED
        BY <1>e, <2>2 DEF NativeKept
<1>7. ASSUME NEW t \in Tokens, NEW needed \in BOOLEAN, SettleRelease(t, needed)
      PROVE  WindowOwners'
    <2>1. t \in DOMAIN releases /\ UNCHANGED <<registered, observed, retirements>>
        BY <1>7 DEF SettleRelease
    <2>2. \/ \E terminal \in Outcomes : Complete({t}, terminal, queue, <<>>)
          \/ releases' = [releases EXCEPT ![t].state = "queued"]
        BY <1>7 DEF SettleRelease, Outcomes
    <2> QED
        BY <1>c, <1>e, <1>n, <2>1, <2>2
<1>8. CASE Stale \/ CallContinuation
    BY <1>8, <1>same DEF Stale, CallContinuation
<1>9. CASE TakeContinuations
    <2>1. releases' = [releases EXCEPT ![delivering].continuations = 0]
        BY <1>9 DEF TakeContinuations
    <2>2. \A u \in DOMAIN releases : releases'[u].state = releases[u].state
                                     /\ releases'[u].window = releases[u].window
        <3>1. \A u \in DOMAIN releases : releases[u] \in Records
            BY DEF ReleaseInv, ReleasesTyped
        <3> QED
            BY <2>1, <3>1 DEF Records
    <2>3. NativeKept
        BY <2>1, <2>2 DEF NativeKept
    <2> QED
        BY <1>9, <1>n, <2>3 DEF TakeContinuations
<1>10. CASE FinishCompletion
    <2>1. NativeKept
        BY <1>10 DEF FinishCompletion, Without, Restrict, NativeKept
    <2> QED
        BY <1>10, <1>n, <2>1 DEF FinishCompletion
<1>11. ASSUME NEW w \in Windows, DeliverClosed(w) PROVE WindowOwners'
    <2>1. /\ registered' = registered \ {w}
          /\ \E barriers, rest : /\ SettleTerminal(w, barriers, rest)
                                 /\ barriers \in {retirements, With(retirements, w, FirstState(w))}
        BY <1>11 DEF DeliverClosed
    <2>2. PICK barriers, rest :
              SettleTerminal(w, barriers, rest) /\ DOMAIN retirements \subseteq DOMAIN barriers
        BY <2>1 DEF With
    <2> QED
        BY <2>1, <2>2, SettleTerminalWindows
<1>12. ASSUME NEW w \in Windows, Retiring(w), SettleTerminal(w, retirements, Tail(queue))
       PROVE  WindowOwners'
    BY <1>12, SettleTerminalWindows DEF Retiring
<1>13. ASSUME NEW w \in Windows, RetireAccepted(w) PROVE WindowOwners'
    <2>1. CASE w \in observed
        BY <1>12, <1>13, <2>1 DEF RetireAccepted
    <2>2. CASE w \notin observed
        BY <1>13, <2>2, <1>same DEF RetireAccepted, Retiring
    <2> QED
        BY <2>1, <2>2
<1>14. ASSUME NEW w \in Windows, RetireFindsTerminal(w) PROVE WindowOwners'
    BY <1>12, <1>14 DEF RetireFindsTerminal
<1>15. ASSUME NEW w \in Windows, RetireRejected(w) \/ RetirePanics(w) PROVE WindowOwners'
    BY <1>15, <1>same DEF RetireRejected, RetirePanics, Retiring
<1>16. ASSUME NEW t \in Tokens, ReleaseDispatched(t) PROVE t \in DOMAIN releases
    BY <1>16 DEF ReleaseDispatched, InState
<1>17. ASSUME NEW t \in Tokens, Released(t) PROVE WindowOwners'
    <2>1. Complete({t}, "released", Tail(queue), <<>>) /\ "released" \in Outcomes
          /\ UNCHANGED <<registered, observed, retirements>> /\ t \in DOMAIN releases
        BY <1>16, <1>17 DEF Released, Outcomes
    <2> QED
        BY <1>c, <1>n, <2>1
<1>18. ASSUME NEW t \in Tokens, ReleaseFindsTerminal(t) PROVE WindowOwners'
    <2>1. /\ t \in DOMAIN releases /\ registered' = registered
          /\ SettleTerminal(releases[t].window, retirements, Tail(queue))
        BY <1>16, <1>18 DEF ReleaseFindsTerminal
    <2>2. releases[t].window \in Windows
        BY <2>1 DEF ReleaseInv, ReleasesTyped, Records
    <2> QED
        BY <2>1, <2>2, SettleTerminalWindows
<1>19. ASSUME NEW t \in Tokens, ReleaseRejected(t) PROVE WindowOwners'
    <2>1. t \in DOMAIN releases /\ Defer(t, Tail(queue)) /\ releases[t] \in Records
          /\ UNCHANGED <<registered, observed, retirements>>
        BY <1>16, <1>19 DEF ReleaseRejected, ReleaseInv, ReleasesTyped
    <2>2. CASE Complete({t}, "failed", Tail(queue), <<>>)
        BY <1>c, <1>n, <2>1, <2>2 DEF Outcomes
    <2>3. CASE releases' = [releases EXCEPT ![t].state = "retry", ![t].attempts = releases[t].attempts + 1]
        <3>1. releases'[t].state # "native"
            BY <2>1, <2>3 DEF Records
        <3>2. NativeKept
            BY <2>3, <3>1 DEF NativeKept
        <3> QED
            BY <1>n, <2>1, <3>2
    <2> QED
        BY <2>1, <2>2, <2>3 DEF Defer
<1>20. ASSUME NEW t \in Tokens, BeginCompletion(t) PROVE WindowOwners'
    BY <1>20, <1>e, <1>n DEF BeginCompletion, InState
<1>r. ASSUME NEW matching, NEW due, NEW rest, Retry(matching, due, rest) PROVE NativeKept
    <2>1. releases' = [t \in DOMAIN releases |->
                        IF t \in due THEN [releases[t] EXCEPT !.state = "queued"]
                        ELSE releases[t]]
        BY <1>r DEF Retry
    <2>2. \A t \in DOMAIN releases : releases[t] \in Records
        BY DEF ReleaseInv, ReleasesTyped
    <2>3. ASSUME NEW t \in DOMAIN releases, t \in due PROVE releases'[t].state # "native"
        BY <2>1, <2>2, <2>3 DEF Records
    <2>4. \A t \in DOMAIN releases : t \notin due => releases'[t] = releases[t]
        BY <2>1
    <2> QED
        BY <2>1, <2>3, <2>4 DEF NativeKept
<1>21. ASSUME NEW w \in Windows, NativeDestroy(w) \/ Progress(w) PROVE WindowOwners'
    BY <1>21, <1>n, <1>r DEF NativeDestroy, Progress, RetryProgress
<1>22. ASSUME NEW w \in Windows, RetireTimer(w) PROVE WindowOwners'
    BY <1>22, <1>same DEF RetireTimer
<1>23. ASSUME NEW t \in Tokens, NEW epoch, RetryTimer(t, epoch) PROVE WindowOwners'
    BY <1>23, <1>n, <1>r DEF RetryTimer
<1> QED
    BY <1>u, <1>1, <1>2, <1>3, <1>4, <1>5, <1>6, <1>7, <1>8, <1>9, <1>10, <1>11, <1>13, <1>14,
       <1>15, <1>17, <1>18, <1>19, <1>20, <1>21, <1>22, <1>23
       DEF Next, Application, Drain

\* What moves a barrier on is counted.
LEMMA OwnersCount == OwnerInv => BarriersHaveOwners
<1> SUFFICES ASSUME OwnerInv PROVE BarriersHaveOwners
    OBVIOUS
<1>1. /\ ReleaseInv /\ DependencyInv /\ ReleaseOwners /\ RetirementOwners /\ WindowOwners
      /\ queue \in Seq(Items) /\ retries \in Seq(Tokens)
    BY DEF OwnerInv, ReleaseOwners
<1>2. ASSUME NEW kind, NEW id
      PROVE  /\ Has(queue, Item(kind, id)) => Queued(kind, id) > 0
             /\ Once(queue, Item(kind, id)) => Queued(kind, id) = 1
    BY <1>1, OnceCounts DEF Queued
<1>3. ASSUME NEW t \in DOMAIN releases
      PROVE  LET b == releases[t] IN
             /\ b.state = "queued" => Queued("release", t) > 0
             /\ b.state = "retry" => <<t, b.attempts>> \in timers
                                     /\ Cardinality({i \in DOMAIN retries : retries[i] = t}) = 1
             /\ b.state = "completion" => Queued("completion", t) = 1
             /\ b.state = "delivering" <=> delivering = t
             /\ b.state = "native" => b.window \in DOMAIN retirements
    <2>1. State(t) = releases[t].state /\ Owned(t) /\ releases[t] \in Records
        BY <1>1, TokensKnown DEF State, ReleaseOwners, ReleaseInv, ReleasesTyped
    <2>2. Once(retries, t) => Cardinality({i \in DOMAIN retries : retries[i] = t}) = 1
        BY <1>1, OnceCounts
    <2>3. releases[t].state = "delivering" <=> delivering = t
        BY <1>1 DEF ReleaseOwners, DeliveryFits
    <2>4. ASSUME releases[t].state = "native" PROVE releases[t].window \in DOMAIN retirements
        <3>1. releases[t].window \notin observed
            BY <1>1, <2>4 DEF ReleaseInv, SeenEnds, Ends
        <3>2. releases[t].window \in Windows /\ releases[t].window \notin registered
            BY <1>1, <2>1, <2>4 DEF Records, WindowOwners
        <3> QED
            BY <1>1, <3>1, <3>2 DEF WindowOwners
    <2> QED
        BY <1>2, <2>1, <2>2, <2>3, <2>4 DEF Owned
<1>4. ASSUME NEW w \in DOMAIN retirements
      PROVE  /\ retirements[w] = "queued" => Queued("retire", w) > 0
             /\ retirements[w] = "waiting" <=> dependencies[w] # {}
    BY <1>1, <1>2 DEF RetirementOwners, DependencyInv, NoneLeft
<1> QED
    BY <1>3, <1>4 DEF BarriersHaveOwners

\* Whoever has to move a barrier on exists, whatever timer, event, terminal, attachment or
\* cancellation moved it last (cell.rs: complete_native_pointer_capture_release,
\* retry_pending_pointer_capture_releases, defer_native_pointer_capture_release_retry,
\* enqueue_window_retirement, settle_native_window_terminal).
THEOREM BarriersOwned == Spec => []BarriersHaveOwners
<1>1. Init => OwnerInv
    BY ReleaseInit, DependencyInit, OwnerInit, WindowOwnersInit DEF OwnerInv, Owners
<1>2. OwnerInv /\ [Next]_retirementVars => OwnerInv'
    BY ReleaseStep, DependencyStep, OwnersStep, WindowOwnersStep DEF OwnerInv, Owners
<1> QED
    BY <1>1, <1>2, OwnersCount, PTL DEF Spec
=============================================================================

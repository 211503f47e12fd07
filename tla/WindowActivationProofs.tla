------------------------ MODULE WindowActivationProofs ------------------------
(***************************************************************************)
(* Proofs about WindowActivation, for any windows, requests, observers and *)
(* bounds: what a ticket answers is what the native focus did, no request  *)
(* is left without somebody who will settle it, and an observer is only    *)
(* called for a ticket that has settled.                                   *)
(***************************************************************************)
EXTENDS WindowActivation, FiniteSetTheorems, WellFoundedInduction, TLAPS

\* What the proofs need of the types; nothing of the observers and deliveries.
RequestType ==
    /\ next_generation \in 0 .. MaxRequests
    /\ current_generation \in 0 .. next_generation
    /\ records \subseteq Generations
    /\ target \in [Generations -> Windows \cup {NoWindow}]
    /\ policy \in [Generations -> 0 .. MaxPolicy]
    /\ command_sequence \in [Generations -> Nat]
    /\ first_positive \in [Generations -> Gains]
    /\ status \in [Generations -> {"unused"} \cup Pending \cup Terminals]

PlatformType ==
    /\ queue \in Seq(Work) /\ next_sequence \in Nat \ {0}
    /\ open \subseteq Windows /\ admitted \subseteq open
    /\ policy_generation \in [Windows -> 0 .. MaxPolicy]
    /\ accepts_activation \in [Windows -> BOOLEAN]
    /\ focused \in Windows \cup {NoWindow}
    /\ gained \in [Generations -> SUBSET Windows]
    /\ at \in {"idle", "user", "release", "loop", "event", "command", "input", "critical"}
    /\ command \in 0 .. next_generation

\* The pending tickets are the records; what has not begun has left no trace.
RecordsArePending ==
    \A g \in Generations :
        /\ g \in records <=> status[g] \in Pending
        /\ g > next_generation =>
              /\ status[g] = "unused" /\ command_sequence[g] = 0
              /\ first_positive[g] = NoGain

\* The request whose command the backend runs is the dispatching one.
CommandIsDispatching ==
    /\ at \in {"idle", "user", "loop", "event", "critical"} => command = 0
    /\ at = "command" => command # 0
    /\ \A g \in records : status[g] = "dispatching" <=> command = g

\* A request that is not the current one has its command running and its answer.
DisplacedIsAnswered ==
    \A g \in records :
        g # current_generation => status[g] = "dispatching" /\ first_positive[g] # NoGain

\* The windows of the records accept activation, under the policy of the request.
RecordsAreAdmitted ==
    \A g \in records :
        /\ target[g] \in admitted /\ accepts_activation[target[g]]
        /\ policy[g] = policy_generation[target[g]]

\* A queued request has its command in the queue; a command there is of one request
\* only, and its request has not gone beyond it.
CommandsQueued ==
    /\ \A g \in records : status[g] = "queued" =>
          \E i \in 1 .. Len(queue) : queue[i].kind = "activate" /\ queue[i].generation = g
    /\ \A i \in 1 .. Len(queue) : queue[i].kind = "activate" =>
          /\ queue[i].generation \in 1 .. next_generation
          /\ queue[i].generation \in records => status[queue[i].generation] = "queued"
    /\ \A i, j \in 1 .. Len(queue) :
          queue[i].kind = "activate" /\ queue[j].kind = "activate" /\ i # j =>
              queue[i].generation # queue[j].generation

\* Every observation that follows the command of a request is of a window that
\* gained focus since: the reports in the queue, the one that was kept, and the focus.
ObservationsGained ==
    /\ \A i \in 1 .. Len(queue) : queue[i].sequence < next_sequence
    /\ \A i \in 1 .. Len(queue), g \in Generations :
          queue[i].kind = "focus" /\ Follows(g, queue[i].sequence) =>
              queue[i].window \in gained[g]
    /\ \A g \in Generations :
          /\ first_positive[g] # NoGain => first_positive[g].window \in gained[g]
          /\ g <= next_generation =>
                target[g] \in Windows /\ (focused = target[g] => target[g] \in gained[g])

IInv ==
    /\ RequestType /\ PlatformType
    /\ RecordsArePending /\ CommandIsDispatching /\ DisplacedIsAnswered
    /\ RecordsAreAdmitted /\ CommandsQueued /\ ObservationsGained
    /\ TerminalHasEvidence
-----------------------------------------------------------------------------
(* Sets of numbers, and sequences.                                           *)

LEMMA Least ==
    ASSUME NEW S \in SUBSET Nat, S # {}
    PROVE  \E m \in S : \A k \in S : m <= k
<1> DEFINE Less == {ss \in Nat \X Nat : ss[1] < ss[2]}
<1>1. IsWellFoundedOn(Less, Nat)
    BY NatLessThanWellFounded, Zenon DEF OpToRel
<1>2. \A m, k \in Nat : <<k, m>> \in Less <=> k < m
    OBVIOUS
<1> HIDE DEF Less
<1>3. \E m \in S : \A k \in S : <<k, m>> \notin Less
    BY <1>1, WFMin, Zenon
<1>4. PICK m \in S : \A k \in S : <<k, m>> \notin Less
    BY <1>3
<1>5. \A k \in S : k \in Nat /\ ~(k < m)
    BY <1>2, <1>4
<1> QED
    BY <1>5, m \in Nat

LEMMA Greatest ==
    ASSUME NEW N \in Nat, NEW S \in SUBSET (0 .. N), S # {}
    PROVE  \E m \in S : \A k \in S : k <= m
<1> DEFINE below == {N - k : k \in S}
<1>1. below \in SUBSET Nat
    <2>1. ASSUME NEW k \in S PROVE N - k \in Nat
        <3>1. k \in 0 .. N
            OBVIOUS
        <3> QED
            BY <3>1
    <2> QED
        BY <2>1
<1>0. below # {}
    OBVIOUS
<1>2. PICK b \in below : \A c \in below : b <= c
    BY <1>0, <1>1, Least
<1>3. PICK m \in S : b = N - m
    OBVIOUS
<1>4. \A k \in S : N - k \in below
    OBVIOUS
<1>5. \A k \in S : N - m <= N - k
    BY <1>2, <1>3, <1>4
<1>6. \A k \in S : k \in 0 .. N
    OBVIOUS
<1> QED
    BY <1>5, <1>6

\* Taking the head away shifts what remains.
LEMMA TailOf ==
    ASSUME NEW S, NEW s \in Seq(S), s # <<>>
    PROVE  /\ Tail(s) \in Seq(S) /\ Len(Tail(s)) = Len(s) - 1
           /\ Len(s) \in Nat \ {0} /\ Head(s) = s[1] /\ Head(s) \in S
           /\ \A i \in 1 .. Len(Tail(s)) : Tail(s)[i] = s[i + 1]
<1>1. Len(s) \in Nat \ {0}
    OBVIOUS
<1>2. Tail(s) \in Seq(S) /\ Len(Tail(s)) = Len(s) - 1
    BY <1>1
<1>3. Head(s) = s[1] /\ s[1] \in S
    BY <1>1
<1>4. ASSUME NEW i \in 1 .. Len(Tail(s)) PROVE Tail(s)[i] = s[i + 1]
    <2>1. i \in 1 .. Len(s) - 1
        BY <1>2
    <2> QED
        BY <1>1, <2>1
<1> QED
    BY <1>1, <1>2, <1>3, <1>4

\* Taking out an element shifts what follows it.
LEMMA RemoveOf ==
    ASSUME NEW S, NEW s \in Seq(S), NEW i \in 1 .. Len(s)
    PROVE  /\ RemoveAt(s, i) \in Seq(S) /\ Len(RemoveAt(s, i)) = Len(s) - 1
           /\ \A j \in 1 .. Len(s) - 1 :
                 RemoveAt(s, i)[j] = IF j < i THEN s[j] ELSE s[j + 1]
<1> DEFINE a == SubSeq(s, 1, i - 1)
           b == SubSeq(s, i + 1, Len(s))
<1>0. Len(s) \in Nat /\ i \in 1 .. Len(s)
    OBVIOUS
<1>1. a \in Seq(S) /\ Len(a) = i - 1 /\ \A j \in 1 .. i - 1 : a[j] = s[j]
    OBVIOUS
<1>2. b \in Seq(S) /\ Len(b) = Len(s) - i /\ \A j \in 1 .. Len(s) - i : b[j] = s[i + j]
    OBVIOUS
<1>3. RemoveAt(s, i) = a \o b
    BY DEF RemoveAt
<1> HIDE DEF a, b
<1>4. a \o b \in Seq(S) /\ Len(a \o b) = Len(s) - 1
    <2>1. a \in Seq(S) /\ b \in Seq(S)
        BY <1>1, <1>2
    <2>2. a \o b \in Seq(S)
        BY <2>1
    <2>3. Len(a \o b) = Len(a) + Len(b)
        BY <2>1
    <2> QED
        BY <2>2, <2>3, <1>0, <1>1, <1>2
<1>5. ASSUME NEW j \in 1 .. Len(s) - 1
      PROVE  (a \o b)[j] = IF j < i THEN s[j] ELSE s[j + 1]
    <2>1. (a \o b)[j] = IF j <= Len(a) THEN a[j] ELSE b[j - Len(a)]
        <3>1. Len(a) \in Nat /\ Len(b) \in Nat /\ j \in 1 .. Len(a) + Len(b)
            BY <1>1, <1>2
        <3> QED
            BY <1>1, <1>2, <3>1
    <2>2. CASE j < i
        BY <2>1, <2>2, <1>1
    <2>3. CASE ~(j < i)
        <3>1. (a \o b)[j] = b[j - (i - 1)]
            BY <2>1, <2>3, <1>1
        <3>2. j - (i - 1) \in 1 .. Len(s) - i
            BY <2>3
        <3>3. b[j - (i - 1)] = s[i + (j - (i - 1))]
            BY <3>2, <1>2
        <3>4. i + (j - (i - 1)) = j + 1
            OBVIOUS
        <3> QED
            BY <3>1, <3>3, <3>4, <2>3
    <2> QED
        BY <2>2, <2>3
<1> QED
    BY <1>3, <1>4, <1>5
-----------------------------------------------------------------------------
(* What the operations of the authority keep.                                *)

\* A record is a request that was begun.
LEMMA RecordsBegun ==
    IInv => \A g \in records : g \in 1 .. next_generation /\ g \in Generations
<1> SUFFICES ASSUME IInv, NEW g \in records
             PROVE  g \in 1 .. next_generation /\ g \in Generations
    OBVIOUS
<1>1. g \in Generations /\ next_generation \in Nat
    BY DEF IInv, RequestType
<1>2. g \in Nat \ {0}
    BY <1>1, ActivationConstants DEF Generations
<1>3. ~(g > next_generation)
    BY <1>1 DEF IInv, RecordsArePending, Pending
<1> QED
    BY <1>1, <1>2, <1>3

\* Settling with a terminal that the focus justifies.
LEMMA SettleKeeps ==
    ASSUME IInv, NEW gs, NEW terminal \in Terminals, Settle(gs, terminal),
           UNCHANGED <<next_generation, target, policy, command_sequence, first_positive,
                       gained>>,
           \A g \in gs \cap records :
              /\ terminal = "activated" => target[g] \in gained[g]
              /\ terminal = "superseded" => gained[g] \ {target[g]} # {}
    PROVE  /\ RequestType' /\ RecordsArePending' /\ DisplacedIsAnswered'
           /\ TerminalHasEvidence'
           /\ records' = records \ gs /\ \A g \in records' : status'[g] = status[g]
<1>1. /\ records' = records \ gs
      /\ status' = [g \in Generations |-> IF g \in gs \cap records THEN terminal
                                          ELSE status[g]]
      /\ current_generation' = IF current_generation \in gs THEN 0 ELSE current_generation
    BY DEF Settle
<1>2. RequestType'
    <2>1. status' \in [Generations -> {"unused"} \cup Pending \cup Terminals]
        BY <1>1 DEF IInv, RequestType
    <2>2. current_generation' \in 0 .. next_generation'
        BY <1>1 DEF IInv, RequestType
    <2> QED
        BY <1>1, <2>1, <2>2 DEF IInv, RequestType
<1>3. \A g \in records' : status'[g] = status[g]
    BY <1>1 DEF IInv, RequestType
<1>4. RecordsArePending'
    BY <1>1, RecordsBegun DEF IInv, RequestType, RecordsArePending, Pending, Terminals
<1>5. DisplacedIsAnswered'
    BY <1>1, <1>3 DEF IInv, DisplacedIsAnswered
<1>6. TerminalHasEvidence'
    BY <1>1 DEF IInv, TerminalHasEvidence
<1> QED
    BY <1>1, <1>2, <1>3, <1>4, <1>5, <1>6

\* With fewer records and the same queue, the commands of the others are still there.
LEMMA QueueKeeps ==
    ASSUME IInv, UNCHANGED <<queue, next_generation>>, records' \subseteq records,
           \A g \in records' : status'[g] = status[g]
    PROVE  CommandsQueued'
BY DEF IInv, CommandsQueued

\* Observations that nobody moved.
LEMMA GainedKeeps ==
    ASSUME IInv, UNCHANGED <<queue, next_sequence, command_sequence, gained, target, focused,
                             first_positive, next_generation>>
    PROVE  ObservationsGained'
BY DEF IInv, ObservationsGained, Follows

\* A settlement outside the queue and the command.
LEMMA SettleStep ==
    ASSUME IInv, NEW gs, NEW terminal \in Terminals \ {"activated", "superseded"},
           Settle(gs, terminal),
           UNCHANGED <<next_generation, target, policy, command_sequence, first_positive,
                       queueVars, focusVars>>,
           PlatformType', RecordsAreAdmitted',
           \/ UNCHANGED <<at, command>>
           \/ /\ at' \notin {"idle", "user", "loop", "event", "critical"}
              /\ at' # "command" /\ UNCHANGED command
           \/ command \in gs /\ command' = 0 /\ at' # "command"
    PROVE  IInv'
<1> USE DEF queueVars, focusVars
<1>1. /\ RequestType' /\ RecordsArePending' /\ DisplacedIsAnswered'
      /\ TerminalHasEvidence'
      /\ records' = records \ gs /\ \A g \in records' : status'[g] = status[g]
    BY SettleKeeps
<1>2. CommandsQueued'
    BY <1>1, QueueKeeps
<1>3. ObservationsGained'
    BY GainedKeeps
<1>4. CommandIsDispatching'
    BY <1>1, RecordsBegun DEF IInv, CommandIsDispatching
<1> QED
    BY <1>1, <1>2, <1>3, <1>4 DEF IInv

\* The newest request that an observation follows is a record.
LEMMA NewestSeen ==
    ASSUME IInv, NEW seen \in SUBSET records, seen # {}
    PROVE  (CHOOSE h \in seen : \A k \in seen : k <= h) \in seen
<1>1. seen \in SUBSET (0 .. MaxRequests)
    BY DEF IInv, RequestType, Generations
<1>2. \E h \in seen : \A k \in seen : k <= h
    BY <1>1, ActivationConstants, Greatest
<1> QED
    BY <1>2

\* An observation settles a request whose command has returned with what it saw, and
\* is kept by one whose command has not.
LEMMA ObserveKeeps ==
    ASSUME IInv, NEW w \in Windows, NEW sequence \in Nat \ {0},
           ObserveExactPositive(w, sequence),
           \A g \in Generations : Follows(g, sequence) => w \in gained[g],
           UNCHANGED <<next_generation, target, policy, command_sequence, gained>>
    PROVE  /\ RequestType' /\ RecordsArePending' /\ DisplacedIsAnswered'
           /\ TerminalHasEvidence'
           /\ \A g \in Generations :
                 first_positive'[g] # NoGain => first_positive'[g].window \in gained[g]
           /\ records' \subseteq records /\ \A g \in records' : status'[g] = status[g]
<1> DEFINE seen == {g \in records : Follows(g, sequence)}
           g == CHOOSE h \in seen : \A k \in seen : k <= h
<1>1. CASE seen = {}
    <2>1. UNCHANGED <<records, status, current_generation, first_positive>>
        BY <1>1 DEF ObserveExactPositive
    <2> QED
        BY <2>1 DEF IInv, RequestType, RecordsArePending, DisplacedIsAnswered,
           TerminalHasEvidence, ObservationsGained
<1>2. CASE seen # {} /\ status[g] = "dispatched"
    <2>1. g \in seen
        BY <1>2, NewestSeen
    <2>2. /\ Settle({g}, IF target[g] = w THEN "activated" ELSE "superseded")
          /\ UNCHANGED first_positive
        BY <1>2 DEF ObserveExactPositive
    <2>3. w \in gained[g]
        BY <2>1, RecordsBegun
    <2> HIDE DEF g, seen
    <2>4. CASE target[g] = w
        <3>1. Settle({g}, "activated")
            BY <2>2, <2>4
        <3>2. /\ RequestType' /\ RecordsArePending' /\ DisplacedIsAnswered'
              /\ TerminalHasEvidence'
              /\ records' = records \ {g} /\ \A h \in records' : status'[h] = status[h]
            BY <2>2, <2>3, <2>4, <3>1, SettleKeeps DEF Terminals
        <3> QED
            BY <2>2, <3>2 DEF IInv, ObservationsGained
    <2>5. CASE target[g] # w
        <3>1. Settle({g}, "superseded")
            BY <2>2, <2>5
        <3>2. /\ RequestType' /\ RecordsArePending' /\ DisplacedIsAnswered'
              /\ TerminalHasEvidence'
              /\ records' = records \ {g} /\ \A h \in records' : status'[h] = status[h]
            BY <2>2, <2>3, <2>5, <3>1, SettleKeeps DEF Terminals
        <3> QED
            BY <2>2, <3>2 DEF IInv, ObservationsGained
    <2> QED
        BY <2>4, <2>5
<1>3. CASE seen # {} /\ status[g] # "dispatched"
    <2>1. g \in seen
        BY <1>3, NewestSeen
    <2>2. /\ first_positive' =
                 [first_positive EXCEPT
                     ![g] = IF @ = NoGain THEN [window |-> w, sequence |-> sequence] ELSE @]
          /\ UNCHANGED <<records, status, current_generation>>
        BY <1>3 DEF ObserveExactPositive
    <2>3. w \in gained[g] /\ g \in 1 .. next_generation /\ g \in Generations
        BY <2>1, RecordsBegun
    <2> HIDE DEF g, seen
    <2> DEFINE new == [window |-> w, sequence |-> sequence]
    <2>4. new \in Gains /\ new # NoGain /\ new.window = w
        BY DEF Gains, NoGain
    <2> HIDE DEF new
    <2>5. /\ first_positive' \in [Generations -> Gains]
          /\ \A h \in Generations : first_positive'[h] =
                IF h = g /\ first_positive[g] = NoGain THEN new ELSE first_positive[h]
        <3>1. first_positive' =
                 [first_positive EXCEPT ![g] = IF @ = NoGain THEN new ELSE @]
            BY <2>2 DEF new
        <3> QED
            BY <2>3, <2>4, <3>1 DEF IInv, RequestType
    <2>6. RequestType'
        BY <2>2, <2>5 DEF IInv, RequestType
    <2>7. RecordsArePending'
        BY <2>2, <2>3, <2>5, <2>6 DEF IInv, RequestType, RecordsArePending, Generations
    <2>8. DisplacedIsAnswered'
        BY <2>2, <2>4, <2>5, RecordsBegun DEF IInv, DisplacedIsAnswered
    <2>9. TerminalHasEvidence'
        BY <2>2 DEF IInv, TerminalHasEvidence
    <2>10. \A h \in Generations :
               first_positive'[h] # NoGain => first_positive'[h].window \in gained[h]
        BY <2>3, <2>4, <2>5 DEF IInv, ObservationsGained
    <2> QED
        BY <2>2, <2>6, <2>7, <2>8, <2>9, <2>10
<1> QED
    BY <1>1, <1>2, <1>3

\* The windows did not change and no record came.
LEMMA AdmittedKeeps ==
    ASSUME IInv, records' \subseteq records,
           UNCHANGED <<target, policy, admitted, accepts_activation, policy_generation>>
    PROVE  RecordsAreAdmitted'
BY DEF IInv, RecordsAreAdmitted

\* The places where no command can be running, and what the main thread does.
Calm == {"idle", "user", "loop", "event", "critical"}
Places == Calm \cup {"release", "command", "input"}

\* Steps that leave the requests, the queue, the windows and the focus alone.
LEMMA QuietStep ==
    ASSUME IInv, UNCHANGED <<authorityVars, queueVars, windowVars, focusVars, command>>,
           at' \in Places, at' \in Calm => command = 0, at' = "command" => command # 0
    PROVE  IInv'
<1> USE DEF authorityVars, queueVars, windowVars, focusVars, IInv
<1>1. RequestType'
    BY DEF RequestType
<1>2. PlatformType'
    BY DEF PlatformType, Places, Calm
<1>3. RecordsArePending'
    BY DEF RecordsArePending
<1>4. CommandIsDispatching'
    BY DEF CommandIsDispatching, Calm
<1>5. DisplacedIsAnswered'
    BY DEF DisplacedIsAnswered
<1>6. RecordsAreAdmitted'
    BY DEF RecordsAreAdmitted
<1>7. CommandsQueued'
    BY QueueKeeps
<1>8. ObservationsGained'
    BY GainedKeeps
<1>9. TerminalHasEvidence'
    BY DEF TerminalHasEvidence
<1> QED
    BY <1>1, <1>2, <1>3, <1>4, <1>5, <1>6, <1>7, <1>8, <1>9
-----------------------------------------------------------------------------
(* The application.                                                          *)

\* The operations that settle requests of their own, outside the queue.
LEMMA SettlingSteps ==
    ASSUME IInv,
           \/ \E w \in Windows : Quiesce(w) \/ Close(w)
           \/ \E w \in Windows, a \in BOOLEAN : CommitPolicy(w, a)
           \/ \E g \in Generations : Cancel(g)
           \/ Shutdown
    PROVE  IInv'
<1> USE DEF threadVars, focusVars
<1>1. ASSUME NEW w \in Windows, Quiesce(w) PROVE IInv'
    <2>1. /\ Settle(Targeting(w), "policy_changed") /\ admitted' = admitted \ {w}
          /\ UNCHANGED <<next_generation, target, policy, command_sequence, first_positive,
                         queueVars, focusVars, open, policy_generation, accepts_activation,
                         at, command>>
        BY <1>1 DEF Quiesce, Quiesced
    <2>2. PlatformType'
        BY <2>1 DEF IInv, PlatformType, queueVars
    <2>3. RecordsAreAdmitted'
        BY <2>1 DEF IInv, RecordsAreAdmitted, Settle, Targeting
    <2> QED
        BY <2>1, <2>2, <2>3, SettleStep DEF Terminals
<1>2. ASSUME NEW w \in Windows, Close(w) PROVE IInv'
    <2>1. /\ Settle(Targeting(w), "closed")
          /\ admitted' = admitted \ {w} /\ open' = open \ {w}
          /\ UNCHANGED <<next_generation, target, policy, command_sequence, first_positive,
                         queueVars, focusVars, policy_generation, accepts_activation,
                         at, command>>
        BY <1>2 DEF Close
    <2>2. PlatformType'
        BY <2>1 DEF IInv, PlatformType, queueVars
    <2>3. RecordsAreAdmitted'
        BY <2>1 DEF IInv, RecordsAreAdmitted, Settle, Targeting
    <2> QED
        BY <2>1, <2>2, <2>3, SettleStep DEF Terminals
<1>3. ASSUME NEW w \in Windows, NEW a \in BOOLEAN, CommitPolicy(w, a) PROVE IInv'
    <2>1. /\ Settle(PolicyChanged(w, a), "policy_changed")
          /\ policy_generation' = [policy_generation EXCEPT ![w] = @ + 1]
          /\ accepts_activation' = [accepts_activation EXCEPT ![w] = a]
          /\ policy_generation[w] < MaxPolicy
          /\ UNCHANGED <<next_generation, target, policy, command_sequence, first_positive,
                         queueVars, focusVars, open, admitted, at, command>>
        BY <1>3 DEF CommitPolicy
    <2>2. PlatformType'
        <3>1. policy_generation' \in [Windows -> 0 .. MaxPolicy]
            BY <2>1, ActivationConstants DEF IInv, PlatformType
        <3>2. accepts_activation' \in [Windows -> BOOLEAN]
            BY <2>1 DEF IInv, PlatformType
        <3> QED
            BY <2>1, <3>1, <3>2 DEF IInv, PlatformType, queueVars
    <2>3. ASSUME NEW g \in records'
          PROVE  /\ target[g] \in admitted /\ accepts_activation'[target[g]]
                 /\ policy[g] = policy_generation'[target[g]]
        <3>1. g \in records /\ g \notin PolicyChanged(w, a)
            BY <2>1 DEF Settle
        <3>2. /\ target[g] \in admitted /\ accepts_activation[target[g]]
              /\ policy[g] = policy_generation[target[g]] /\ target[g] \in Windows
            BY <3>1 DEF IInv, RecordsAreAdmitted, PlatformType
        <3>3. target[g] # w
            <4> SUFFICES ASSUME target[g] = w PROVE FALSE
                OBVIOUS
            <4>1. policy[g] = policy_generation[w] + 1
                BY <3>1 DEF PolicyChanged, Targeting
            <4>2. policy_generation[w] \in Nat
                BY ActivationConstants DEF IInv, PlatformType
            <4> QED
                BY <3>2, <4>1, <4>2
        <3> QED
            BY <2>1, <3>2, <3>3 DEF IInv, PlatformType
    <2>4. RecordsAreAdmitted'
        BY <2>1, <2>3 DEF RecordsAreAdmitted
    <2> QED
        BY <2>1, <2>2, <2>4, SettleStep DEF Terminals
<1>4. ASSUME NEW g \in Generations, Cancel(g) PROVE IInv'
    <2>1. /\ Settle({g}, "cancelled") /\ at' \in {"release", at}
          /\ UNCHANGED <<next_generation, target, policy, command_sequence, first_positive,
                         queueVars, focusVars, windowVars, command>>
        BY <1>4 DEF Cancel, BorrowReleased
    <2>2. PlatformType'
        BY <2>1 DEF IInv, PlatformType, queueVars, windowVars
    <2>3. RecordsAreAdmitted'
        BY <2>1, AdmittedKeeps DEF Settle, windowVars
    <2> QED
        BY <2>1, <2>2, <2>3, SettleStep DEF Terminals
<1>5. ASSUME Shutdown PROVE IInv'
    <2>1. /\ Settle(records, "closed")
          /\ UNCHANGED <<next_generation, target, policy, command_sequence, first_positive,
                         queueVars, focusVars, open, admitted, policy_generation,
                         accepts_activation, at, command>>
        BY <1>5 DEF Shutdown
    <2>2. PlatformType'
        BY <2>1 DEF IInv, PlatformType, queueVars
    <2>3. RecordsAreAdmitted'
        BY <2>1, AdmittedKeeps DEF Settle
    <2> QED
        BY <2>1, <2>2, <2>3, SettleStep DEF Terminals
<1> QED
    BY <1>1, <1>2, <1>3, <1>4, <1>5

\* activate_window: the request it displaces has not seen the winner, and the new one
\* is queued or refused.
LEMMA ActivateStep ==
    ASSUME IInv, NEW w \in Windows, ActivateWindow(w)
    PROVE  IInv'
<1> DEFINE Refused == {"closed", "unsupported", "rejected"}
<1>1. PICK refusal \in Refused \cup {"none"} :
          /\ Begin(w, refusal)
          /\ refusal = "none" => w \in admitted /\ accepts_activation[w]
    BY DEF ActivateWindow
<1>2. UNCHANGED <<first_positive, windowVars, focused, at, command>>
    BY DEF ActivateWindow, threadVars
<1> DEFINE new == next_generation + 1
           item == [kind |-> "activate", window |-> w, generation |-> new,
                    sequence |-> next_sequence]
<1>3. /\ new \in Generations /\ new \in Nat \ {0} /\ new \notin records
      /\ next_generation' = new /\ next_generation \in Nat /\ new # current_generation
      /\ status[new] = "unused" /\ command_sequence[new] = 0 /\ first_positive[new] = NoGain
      /\ new \in 0 .. MaxRequests
    <2>1. new \in Generations /\ next_generation' = new
        BY <1>1 DEF Begin
    <2>2. next_generation \in 0 .. MaxRequests /\ current_generation \in 0 .. next_generation
        BY DEF IInv, RequestType
    <2>3. new \in Nat \ {0} /\ new > next_generation /\ new # current_generation
          /\ new \in 0 .. MaxRequests
        BY <2>1, <2>2, ActivationConstants DEF Generations
    <2>4. status[new] = "unused" /\ command_sequence[new] = 0 /\ first_positive[new] = NoGain
        BY <2>1, <2>3 DEF IInv, RecordsArePending
    <2>5. new \notin records
        BY <2>1, <2>4 DEF IInv, RecordsArePending, Pending
    <2> QED
        BY <2>1, <2>2, <2>3, <2>4, <2>5
<1>4. /\ target' = [target EXCEPT ![new] = w]
      /\ policy' = [policy EXCEPT ![new] = policy_generation[w]]
      /\ gained' = [gained EXCEPT ![new] = {w} \cap {focused}]
      /\ status' = [h \in Generations |->
                       IF h \in Displaced THEN "superseded"
                       ELSE IF h # new THEN status[h]
                       ELSE IF refusal = "none" THEN "queued" ELSE refusal]
      /\ records' = (records \ Displaced) \cup (IF refusal = "none" THEN {new} ELSE {})
      /\ current_generation' = IF refusal = "none" THEN new ELSE 0
    BY <1>1 DEF Begin
<1>5. /\ refusal = "none" =>
             /\ command_sequence' = [command_sequence EXCEPT ![new] = next_sequence]
             /\ queue' = Append(queue, item) /\ next_sequence' = next_sequence + 1
      /\ refusal # "none" => UNCHANGED <<command_sequence, queue, next_sequence>>
    BY <1>1 DEF Begin
<1>6. /\ Displaced \subseteq records
      /\ \A h \in records \ Displaced :
            status[h] = "dispatching" /\ first_positive[h] # NoGain
    <2>1. Displaced \subseteq records
        BY DEF Displaced
    <2>2. ASSUME NEW h \in records \ Displaced
          PROVE  status[h] = "dispatching" /\ first_positive[h] # NoGain
        <3>1. CASE h = current_generation
            BY <3>1 DEF Displaced
        <3>2. CASE h # current_generation
            BY <3>2 DEF IInv, DisplacedIsAnswered
        <3> QED
            BY <3>1, <3>2
    <2> QED
        BY <2>1, <2>2
<1>7. /\ item \in Work
      /\ item.kind = "activate" /\ item.generation = new /\ item.sequence = next_sequence
      /\ next_sequence \in Nat \ {0} /\ queue \in Seq(Work)
    BY <1>3 DEF Work, IInv, PlatformType
<1> HIDE DEF new, item
<1>8. /\ \A h \in Generations \ {new} :
            /\ target'[h] = target[h] /\ policy'[h] = policy[h] /\ gained'[h] = gained[h]
            /\ command_sequence'[h] = command_sequence[h]
            /\ h \notin Displaced => status'[h] = status[h]
            /\ h \in Displaced => status'[h] = "superseded"
      /\ target'[new] = w /\ policy'[new] = policy_generation[w]
      /\ gained'[new] = {w} \cap {focused}
      /\ status'[new] = IF refusal = "none" THEN "queued" ELSE refusal
      /\ command_sequence'[new] = IF refusal = "none" THEN next_sequence ELSE 0
    <2> USE <1>3, <1>6 DEF IInv, RequestType, PlatformType
    <2>1. target'[new] = w /\ \A h \in Generations \ {new} : target'[h] = target[h]
        BY <1>4
    <2>2. /\ policy'[new] = policy_generation[w]
          /\ \A h \in Generations \ {new} : policy'[h] = policy[h]
        BY <1>4
    <2>3. /\ gained'[new] = {w} \cap {focused}
          /\ \A h \in Generations \ {new} : gained'[h] = gained[h]
        BY <1>4
    <2>4. /\ status'[new] = IF refusal = "none" THEN "queued" ELSE refusal
          /\ \A h \in Generations \ {new} :
                /\ h \notin Displaced => status'[h] = status[h]
                /\ h \in Displaced => status'[h] = "superseded"
        BY <1>4
    <2>5. /\ command_sequence'[new] = IF refusal = "none" THEN next_sequence ELSE 0
          /\ \A h \in Generations \ {new} : command_sequence'[h] = command_sequence[h]
        BY <1>5
    <2> QED
        BY <2>1, <2>2, <2>3, <2>4, <2>5
<1>9. RequestType'
    <2> USE <1>2, <1>3 DEF IInv, RequestType, PlatformType
    <2>1. /\ next_generation' \in 0 .. MaxRequests
          /\ current_generation' \in 0 .. next_generation'
        BY <1>4
    <2>2. records' \subseteq Generations
        BY <1>4
    <2>3. /\ target' \in [Generations -> Windows \cup {NoWindow}]
          /\ policy' \in [Generations -> 0 .. MaxPolicy]
        BY <1>4
    <2>4. command_sequence' \in [Generations -> Nat]
        BY <1>5, <1>7
    <2>5. status' \in [Generations -> {"unused"} \cup Pending \cup Terminals]
        BY <1>4 DEF Pending, Terminals
    <2> QED
        BY <2>1, <2>2, <2>3, <2>4, <2>5
<1>10. PlatformType'
    <2> USE DEF IInv, PlatformType
    <2>1. queue' \in Seq(Work) /\ next_sequence' \in Nat \ {0}
        <3>1. CASE refusal = "none"
            <4>1. queue' = Append(queue, item) /\ next_sequence' = next_sequence + 1
                BY <3>1, <1>5
            <4>2. queue' \in Seq(Work)
                BY <4>1, <1>7
            <4> QED
                BY <4>1, <4>2, <1>7
        <3>2. CASE refusal # "none"
            BY <3>2, <1>5, <1>7
        <3> QED
            BY <3>1, <3>2
    <2>2. gained' \in [Generations -> SUBSET Windows]
        BY <1>3, <1>4
    <2>3. command' \in 0 .. next_generation'
        BY <1>2, <1>3 DEF new
    <2> QED
        BY <1>2, <2>1, <2>2, <2>3 DEF windowVars
<1>11. RecordsArePending'
    <2> SUFFICES ASSUME NEW h \in Generations
                 PROVE  /\ h \in records' <=> status'[h] \in Pending
                        /\ h > next_generation' =>
                              /\ status'[h] = "unused" /\ command_sequence'[h] = 0
                              /\ first_positive'[h] = NoGain
        BY DEF RecordsArePending
    <2>1. CASE h = new
        BY <1>3, <1>4, <1>6, <1>8, <2>1 DEF Pending
    <2>2. CASE h # new
        <3>1. h \in records' <=> status'[h] \in Pending
            BY <1>4, <1>8, <2>2 DEF IInv, RecordsArePending, Pending
        <3>2. ASSUME h > next_generation'
              PROVE  /\ status'[h] = "unused" /\ command_sequence'[h] = 0
                     /\ first_positive'[h] = NoGain
            <4>1. h > next_generation
                BY <3>2, <1>3, ActivationConstants DEF Generations, new
            <4>2. h \notin Displaced
                BY <4>1, <1>6 DEF IInv, RecordsArePending, Pending
            <4> QED
                BY <4>1, <4>2, <2>2, <1>2, <1>8 DEF IInv, RecordsArePending
        <3> QED
            BY <3>1, <3>2
    <2> QED
        BY <2>1, <2>2
<1>12. CommandIsDispatching'
    <2>1. ASSUME NEW h \in records' PROVE status'[h] = "dispatching" <=> command = h
        <3>1. CASE h = new
            <4>1. status'[h] # "dispatching"
                BY <3>1, <1>8
            <4>2. command # new
                BY <1>3 DEF IInv, PlatformType, new
            <4> QED
                BY <3>1, <4>1, <4>2
        <3>2. CASE h # new
            <4>1. h \in records \ Displaced /\ h \in Generations
                BY <3>2, <1>4 DEF IInv, RequestType
            <4>2. status'[h] = status[h]
                BY <4>1, <3>2, <1>8
            <4> QED
                BY <4>1, <4>2 DEF IInv, CommandIsDispatching
        <3> QED
            BY <3>1, <3>2
    <2> QED
        BY <2>1, <1>2 DEF IInv, CommandIsDispatching
<1>13. DisplacedIsAnswered'
    <2> SUFFICES ASSUME NEW h \in records', h # current_generation'
                 PROVE  status'[h] = "dispatching" /\ first_positive'[h] # NoGain
        BY DEF DisplacedIsAnswered
    <2>1. h \in records \ Displaced /\ h # new /\ h \in Generations
        BY <1>3, <1>4 DEF IInv, RequestType
    <2> QED
        BY <2>1, <1>2, <1>6, <1>8
<1>14. RecordsAreAdmitted'
    <2> SUFFICES ASSUME NEW h \in records'
                 PROVE  /\ target'[h] \in admitted /\ accepts_activation[target'[h]]
                        /\ policy'[h] = policy_generation[target'[h]]
        BY <1>2 DEF RecordsAreAdmitted, windowVars
    <2>1. CASE h = new
        BY <2>1, <1>1, <1>3, <1>4, <1>8
    <2>2. CASE h # new
        <3>1. h \in records /\ h \in Generations
            BY <2>2, <1>4 DEF IInv, RequestType
        <3> QED
            BY <3>1, <2>2, <1>8 DEF IInv, RecordsAreAdmitted
    <2> QED
        BY <2>1, <2>2
<1>15. TerminalHasEvidence'
    <2> SUFFICES ASSUME NEW h \in Generations
                 PROVE  /\ status'[h] = "activated" => target'[h] \in gained'[h]
                        /\ status'[h] = "superseded" =>
                              next_generation' > h \/ gained'[h] \ {target'[h]} # {}
        BY DEF TerminalHasEvidence
    <2>1. CASE h = new
        BY <2>1, <1>8
    <2>2. CASE h \in Displaced
        <3>1. h # new /\ h \in 1 .. next_generation
            BY <2>2, <1>3, <1>6, RecordsBegun
        <3>2. status'[h] = "superseded"
            BY <2>2, <3>1, <1>8
        <3>3. next_generation' > h
            BY <3>1, <1>3 DEF new
        <3> QED
            BY <3>2, <3>3
    <2>3. CASE h # new /\ h \notin Displaced
        <3>1. status'[h] = status[h] /\ target'[h] = target[h] /\ gained'[h] = gained[h]
            BY <2>3, <1>8
        <3>2. next_generation > h => next_generation' > h
            BY <1>3, ActivationConstants DEF new, Generations
        <3> QED
            BY <3>1, <3>2 DEF IInv, TerminalHasEvidence
    <2> QED
        BY <2>1, <2>2, <2>3
<1>16. CommandsQueued'
    <2>1. \A h \in records' \ {new} : h \in records /\ h \in Generations
                                        /\ status'[h] = status[h] /\ status[h] = "dispatching"
        BY <1>4, <1>6, <1>8 DEF IInv, RequestType
    <2>2. \A i \in 1 .. Len(queue) : queue[i].kind = "activate" =>
              /\ queue[i].generation \in 1 .. next_generation'
              /\ queue[i].generation # new
              /\ queue[i].generation \in records' => status'[queue[i].generation] = "queued"
        <3> SUFFICES ASSUME NEW i \in 1 .. Len(queue), queue[i].kind = "activate"
                     PROVE  /\ queue[i].generation \in 1 .. next_generation'
                            /\ queue[i].generation # new
                            /\ queue[i].generation \in records' =>
                                  status'[queue[i].generation] = "queued"
            OBVIOUS
        <3>1. /\ queue[i].generation \in 1 .. next_generation
              /\ queue[i].generation \in records => status[queue[i].generation] = "queued"
            BY DEF IInv, CommandsQueued
        <3>2. queue[i].generation \in 1 .. next_generation' /\ queue[i].generation # new
            BY <3>1, <1>3 DEF new
        <3> QED
            BY <3>1, <3>2, <2>1
    <2>3. CASE refusal # "none"
        <3>1. queue' = queue /\ new \notin records'
            BY <2>3, <1>3, <1>4, <1>5
        <3>2. \A h \in records' : status'[h] # "queued"
            BY <3>1, <2>1
        <3> QED
            BY <3>1, <3>2, <2>2 DEF IInv, CommandsQueued
    <2>4. CASE refusal = "none"
        <3>1. /\ Len(queue') = Len(queue) + 1 /\ Len(queue) \in Nat
              /\ queue'[Len(queue) + 1] = item
              /\ \A i \in 1 .. Len(queue) : queue'[i] = queue[i]
            BY <2>4, <1>5, <1>7
        <3>2. \A h \in records' : status'[h] = "queued" =>
                  \E i \in 1 .. Len(queue') :
                      queue'[i].kind = "activate" /\ queue'[i].generation = h
            <4>1. \A h \in records' : status'[h] = "queued" => h = new
                BY <2>1
            <4>2. Len(queue) + 1 \in 1 .. Len(queue')
                BY <3>1
            <4> QED
                BY <4>1, <4>2, <3>1, <1>7
        <3>3. ASSUME NEW i \in 1 .. Len(queue'), queue'[i].kind = "activate"
              PROVE  /\ queue'[i].generation \in 1 .. next_generation'
                     /\ queue'[i].generation \in records' =>
                           status'[queue'[i].generation] = "queued"
            <4>1. CASE i = Len(queue) + 1
                BY <4>1, <3>1, <1>3, <1>7, <1>8, <2>4
            <4>2. CASE i # Len(queue) + 1
                <5>1. i \in 1 .. Len(queue)
                    BY <4>2, <3>1
                <5> QED
                    BY <5>1, <3>1, <3>3, <2>2
            <4> QED
                BY <4>1, <4>2
        <3>4. ASSUME NEW i \in 1 .. Len(queue'), NEW j \in 1 .. Len(queue'), i # j,
                     queue'[i].kind = "activate", queue'[j].kind = "activate"
              PROVE  queue'[i].generation # queue'[j].generation
            <4>1. CASE i \in 1 .. Len(queue) /\ j \in 1 .. Len(queue)
                BY <4>1, <3>1, <3>4 DEF IInv, CommandsQueued
            <4>2. CASE i \in 1 .. Len(queue) /\ j = Len(queue) + 1
                BY <4>2, <3>1, <3>4, <2>2, <1>7
            <4>3. CASE i = Len(queue) + 1 /\ j \in 1 .. Len(queue)
                BY <4>3, <3>1, <3>4, <2>2, <1>7
            <4> QED
                BY <4>1, <4>2, <4>3, <3>1, <3>4
        <3> QED
            BY <3>2, <3>3, <3>4 DEF CommandsQueued
    <2> QED
        BY <2>3, <2>4
<1>17. ObservationsGained'
    <2>1. \A i \in 1 .. Len(queue) : queue[i].sequence < next_sequence
        BY DEF IInv, ObservationsGained
    <2>2. /\ Len(queue) \in Nat
          /\ \A i \in 1 .. Len(queue') :
                \/ i \in 1 .. Len(queue) /\ queue'[i] = queue[i]
                \/ refusal = "none" /\ queue'[i] = item
        <3>1. Len(queue) \in Nat
            BY <1>7
        <3>2. CASE refusal = "none"
            <4>1. /\ Len(queue') = Len(queue) + 1
                  /\ queue'[Len(queue) + 1] = item
                  /\ \A i \in 1 .. Len(queue) : queue'[i] = queue[i]
                BY <3>2, <1>5, <1>7
            <4> QED
                BY <3>1, <3>2, <4>1
        <3>3. CASE refusal # "none"
            BY <3>1, <3>3, <1>5
        <3> QED
            BY <3>2, <3>3
    <2>3. /\ next_sequence' \in Nat /\ next_sequence' >= next_sequence
          /\ refusal = "none" => next_sequence' = next_sequence + 1
        BY <1>5, <1>7
    <2>4. \A i \in 1 .. Len(queue) : queue[i].sequence \in Nat
        <3>1. \A i \in 1 .. Len(queue) : queue[i] \in Work
            BY <1>7
        <3> QED
            BY <3>1 DEF Work
    <2>5. \A i \in 1 .. Len(queue') : queue'[i].sequence < next_sequence'
        BY <2>1, <2>2, <2>3, <2>4, <1>7
    <2>6. ASSUME NEW i \in 1 .. Len(queue'), NEW h \in Generations,
                 queue'[i].kind = "focus", command_sequence'[h] # 0,
                 queue'[i].sequence > command_sequence'[h]
          PROVE  queue'[i].window \in gained'[h]
        <3>1. i \in 1 .. Len(queue) /\ queue'[i] = queue[i]
            BY <2>2, <2>6, <1>7
        <3>2. h # new
            BY <3>1, <2>1, <2>4, <2>6, <1>7, <1>8
        <3>3. Follows(h, queue[i].sequence)
            BY <3>1, <3>2, <2>6, <1>8 DEF Follows
        <3> QED
            BY <3>1, <3>2, <3>3, <2>6, <1>8 DEF IInv, ObservationsGained
    <2>7. ASSUME NEW h \in Generations
          PROVE  /\ first_positive'[h] # NoGain => first_positive'[h].window \in gained'[h]
                 /\ h <= next_generation' =>
                       target'[h] \in Windows
                         /\ (focused' = target'[h] => target'[h] \in gained'[h])
        <3>1. CASE h = new
            BY <3>1, <1>2, <1>3, <1>8
        <3>2. CASE h # new
            <4>1. h <= next_generation' => h <= next_generation
                BY <3>2, <1>3, ActivationConstants DEF new, Generations
            <4>2. first_positive'[h] = first_positive[h] /\ focused' = focused
                  /\ target'[h] = target[h] /\ gained'[h] = gained[h]
                BY <3>2, <1>2, <1>8
            <4> QED
                BY <4>1, <4>2 DEF IInv, ObservationsGained
        <3> QED
            BY <3>1, <3>2
    <2> QED
        BY <2>5, <2>6, <2>7 DEF ObservationsGained, Follows
<1> QED
    BY <1>9, <1>10, <1>11, <1>12, <1>13, <1>14, <1>15, <1>16, <1>17 DEF IInv
-----------------------------------------------------------------------------
(* The platform.                                                             *)

\* The focus moves: every request begun so far sees the window gain it, so it does not
\* matter which of them the report will be taken for.
LEMMA FocusStep ==
    ASSUME IInv, NEW w \in Windows \cup {NoWindow}, Focus(w)
    PROVE  IInv'
<1> DEFINE item == [kind |-> "focus", window |-> w, generation |-> 0,
                    sequence |-> next_sequence]
<1>1. /\ UNCHANGED <<authorityVars, windowVars, at, command>>
      /\ focused' = w
      /\ gained' = [g \in Generations |-> IF w # NoWindow /\ g <= next_generation
                                          THEN gained[g] \cup {w} ELSE gained[g]]
      /\ IF w = NoWindow \/ fenced THEN UNCHANGED <<queue, next_sequence>>
         ELSE queue' = Append(queue, item) /\ next_sequence' = next_sequence + 1
    BY DEF Focus, threadVars, queueVars
<1>2. /\ item.kind = "focus" /\ item.window = w /\ item.sequence = next_sequence
      /\ next_sequence \in Nat \ {0} /\ queue \in Seq(Work)
      /\ w \in Windows => item \in Work
    BY DEF Work, IInv, PlatformType
<1> HIDE DEF item
<1>3. /\ UNCHANGED <<next_generation, current_generation, records, target, policy,
                     command_sequence, first_positive, status>>
      /\ UNCHANGED <<open, admitted, policy_generation, accepts_activation, fenced>>
    BY <1>1 DEF authorityVars, windowVars
<1>4. /\ Len(queue) \in Nat /\ queue' \in Seq(Work) /\ next_sequence' \in Nat \ {0}
      /\ Len(queue') \in Nat /\ Len(queue) <= Len(queue')
      /\ \A i \in 1 .. Len(queue) : queue'[i] = queue[i]
      /\ next_sequence <= next_sequence'
      /\ \A i \in 1 .. Len(queue') : i \notin 1 .. Len(queue) =>
            queue'[i] = item /\ next_sequence' = next_sequence + 1 /\ w \in Windows
    <2>1. CASE w = NoWindow \/ fenced
        BY <2>1, <1>1, <1>2
    <2>2. CASE ~(w = NoWindow \/ fenced)
        <3>1. /\ queue' = Append(queue, item) /\ next_sequence' = next_sequence + 1
              /\ w \in Windows /\ item \in Work
            BY <2>2, <1>1, <1>2
        <3>2. queue' \in Seq(Work)
            BY <3>1, <1>2
        <3>3. /\ Len(queue') = Len(queue) + 1 /\ Len(queue) \in Nat
              /\ queue'[Len(queue) + 1] = item
              /\ \A i \in 1 .. Len(queue) : queue'[i] = queue[i]
            BY <3>1, <1>2
        <3> QED
            BY <3>1, <3>2, <3>3, <1>2
    <2> QED
        BY <2>1, <2>2
<1>5. /\ gained' \in [Generations -> SUBSET Windows]
      /\ \A g \in Generations : gained[g] \subseteq gained'[g]
      /\ \A g \in Generations : w # NoWindow /\ g <= next_generation => w \in gained'[g]
    BY <1>1 DEF IInv, PlatformType
<1>6. RequestType'
    BY <1>3 DEF IInv, RequestType
<1>7. PlatformType'
    BY <1>1, <1>3, <1>4, <1>5 DEF IInv, PlatformType
<1>8. RecordsArePending' /\ DisplacedIsAnswered' /\ CommandIsDispatching'
    BY <1>1, <1>3 DEF IInv, RecordsArePending, DisplacedIsAnswered, CommandIsDispatching
<1>9. RecordsAreAdmitted'
    BY <1>3, AdmittedKeeps
<1>10. TerminalHasEvidence'
    BY <1>3, <1>5 DEF IInv, TerminalHasEvidence
<1>11. CommandsQueued'
    <2>1. \A i \in 1 .. Len(queue') : queue'[i].kind = "activate" => i \in 1 .. Len(queue)
        BY <1>2, <1>4
    <2>2. \A i \in 1 .. Len(queue) : i \in 1 .. Len(queue')
        BY <1>4
    <2>3. \A g \in records' : status'[g] = "queued" =>
              \E i \in 1 .. Len(queue') :
                  queue'[i].kind = "activate" /\ queue'[i].generation = g
        BY <1>3, <1>4, <2>2 DEF IInv, CommandsQueued
    <2>4. \A i \in 1 .. Len(queue') : queue'[i].kind = "activate" =>
              /\ queue'[i].generation \in 1 .. next_generation'
              /\ queue'[i].generation \in records' => status'[queue'[i].generation] = "queued"
        BY <1>3, <1>4, <2>1 DEF IInv, CommandsQueued
    <2>5. ASSUME NEW i \in 1 .. Len(queue'), NEW j \in 1 .. Len(queue'), i # j,
                 queue'[i].kind = "activate", queue'[j].kind = "activate"
          PROVE  queue'[i].generation # queue'[j].generation
        <3>1. i \in 1 .. Len(queue) /\ j \in 1 .. Len(queue)
            BY <2>1, <2>5
        <3>2. queue'[i] = queue[i] /\ queue'[j] = queue[j]
            BY <3>1, <1>4
        <3> QED
            BY <2>5, <3>1, <3>2 DEF IInv, CommandsQueued
    <2> QED
        BY <2>3, <2>4, <2>5 DEF CommandsQueued
<1>12. ObservationsGained'
    <2>1. \A i \in 1 .. Len(queue) : queue[i].sequence < next_sequence
                                       /\ queue[i].sequence \in Nat
        <3>1. \A i \in 1 .. Len(queue) : queue[i] \in Work
            BY <1>2
        <3> QED
            BY <3>1 DEF IInv, ObservationsGained, Work
    <2>2. \A i \in 1 .. Len(queue') : queue'[i].sequence < next_sequence'
        BY <2>1, <1>2, <1>4
    <2>3. ASSUME NEW i \in 1 .. Len(queue'), NEW g \in Generations,
                 queue'[i].kind = "focus", Follows(g, queue'[i].sequence)
          PROVE  queue'[i].window \in gained'[g]
        <3>1. CASE i \in 1 .. Len(queue)
            BY <3>1, <2>3, <1>4, <1>5 DEF IInv, ObservationsGained
        <3>2. CASE i \notin 1 .. Len(queue)
            <4>1. queue'[i].window = w /\ w \in Windows
                BY <3>2, <1>2, <1>4
            <4>2. g <= next_generation
                BY <2>3, ActivationConstants
                   DEF Follows, IInv, RecordsArePending, RequestType, Generations
            <4> QED
                BY <4>1, <4>2, <1>5, ActivationConstants
        <3> QED
            BY <3>1, <3>2
    <2>4. ASSUME NEW g \in Generations
          PROVE  /\ first_positive'[g] # NoGain => first_positive'[g].window \in gained'[g]
                 /\ g <= next_generation' =>
                       target'[g] \in Windows
                         /\ (focused' = target'[g] => target'[g] \in gained'[g])
        <3>1. first_positive'[g] # NoGain => first_positive'[g].window \in gained'[g]
            BY <1>3, <1>5 DEF IInv, ObservationsGained
        <3>2. g <= next_generation' => target'[g] \in Windows
            BY <1>3 DEF IInv, ObservationsGained
        <3>3. ASSUME g <= next_generation', focused' = target'[g]
              PROVE  target'[g] \in gained'[g]
            BY <3>2, <3>3, <1>1, <1>3, <1>5, ActivationConstants
        <3> QED
            BY <3>1, <3>2, <3>3
    <2> QED
        BY <1>3, <2>2, <2>3, <2>4 DEF ObservationsGained, Follows
<1> QED
    BY <1>6, <1>7, <1>8, <1>9, <1>10, <1>11, <1>12 DEF IInv

\* The queue loses an element: what the others say holds.
LEMMA ShorterQueue ==
    ASSUME IInv, NEW k \in 1 .. Len(queue),
           queue' \in Seq(Work), Len(queue') = Len(queue) - 1,
           \A j \in 1 .. Len(queue) - 1 :
              queue'[j] = IF j < k THEN queue[j] ELSE queue[j + 1],
           UNCHANGED <<next_generation, next_sequence, target, command_sequence, gained,
                       focused>>,
           records' \subseteq records, \A g \in records' : status'[g] = status[g],
           queue[k].kind = "activate" => queue[k].generation \notin records',
           \A g \in Generations :
              first_positive'[g] # NoGain => first_positive'[g].window \in gained[g]
    PROVE  CommandsQueued' /\ ObservationsGained'
<1> DEFINE At(j) == IF j < k THEN j ELSE j + 1
<1>1. /\ Len(queue) \in Nat
      /\ \A j \in 1 .. Len(queue') :
            At(j) \in 1 .. Len(queue) /\ At(j) # k /\ queue'[j] = queue[At(j)]
      /\ \A i, j \in 1 .. Len(queue') : i # j => At(i) # At(j)
    <2>1. Len(queue) \in Nat
        BY DEF IInv, PlatformType
    <2> QED
        BY <2>1
<1>2. \A i \in 1 .. Len(queue) : i # k => \E j \in 1 .. Len(queue') : queue'[j] = queue[i]
    <2> SUFFICES ASSUME NEW i \in 1 .. Len(queue), i # k
                 PROVE  \E j \in 1 .. Len(queue') : queue'[j] = queue[i]
        OBVIOUS
    <2>1. CASE i < k
        <3>1. i \in 1 .. Len(queue')
            BY <2>1, <1>1
        <3>2. queue'[i] = queue[i]
            BY <2>1, <3>1
        <3> QED
            BY <3>1, <3>2
    <2>2. CASE i > k
        <3>1. i - 1 \in 1 .. Len(queue') /\ ~(i - 1 < k) /\ (i - 1) + 1 = i
            BY <2>2, <1>1
        <3>2. queue'[i - 1] = queue[i]
            BY <3>1
        <3> QED
            BY <3>1, <3>2
    <2> QED
        BY <2>1, <2>2, <1>1
<1> HIDE DEF At
<1>3. CommandsQueued'
    <2>1. ASSUME NEW g \in records', status'[g] = "queued"
          PROVE  \E j \in 1 .. Len(queue') :
                     queue'[j].kind = "activate" /\ queue'[j].generation = g
        <3>1. PICK i \in 1 .. Len(queue) :
                  queue[i].kind = "activate" /\ queue[i].generation = g
            BY <2>1 DEF IInv, CommandsQueued
        <3>2. i # k
            BY <3>1
        <3> QED
            BY <3>1, <3>2, <1>2
    <2>2. ASSUME NEW j \in 1 .. Len(queue'), queue'[j].kind = "activate"
          PROVE  /\ queue'[j].generation \in 1 .. next_generation'
                 /\ queue'[j].generation \in records' =>
                       status'[queue'[j].generation] = "queued"
        BY <2>2, <1>1 DEF IInv, CommandsQueued
    <2>3. ASSUME NEW i \in 1 .. Len(queue'), NEW j \in 1 .. Len(queue'), i # j,
                 queue'[i].kind = "activate", queue'[j].kind = "activate"
          PROVE  queue'[i].generation # queue'[j].generation
        <3>1. /\ At(i) \in 1 .. Len(queue) /\ At(j) \in 1 .. Len(queue) /\ At(i) # At(j)
              /\ queue'[i] = queue[At(i)] /\ queue'[j] = queue[At(j)]
            BY <2>3, <1>1
        <3> QED
            BY <2>3, <3>1 DEF IInv, CommandsQueued
    <2> QED
        BY <2>1, <2>2, <2>3 DEF CommandsQueued
<1>4. ObservationsGained'
    BY <1>1 DEF IInv, ObservationsGained, Follows
<1> QED
    BY <1>3, <1>4

\* What the loop pops is the head of the queue, and then no command is running.
LEMMA PoppedHead ==
    ASSUME IInv, NEW kind, Popped(kind)
    PROVE  /\ 1 \in 1 .. Len(queue) /\ Head(queue) = queue[1] /\ queue[1] \in Work
           /\ queue[1].kind = kind /\ at = "loop" /\ command = 0
           /\ queue' \in Seq(Work) /\ Len(queue') = Len(queue) - 1
           /\ \A j \in 1 .. Len(queue) - 1 :
                 queue'[j] = IF j < 1 THEN queue[j] ELSE queue[j + 1]
<1>1. /\ queue \in Seq(Work) /\ queue # <<>> /\ queue' = Tail(queue) /\ at = "loop"
      /\ Head(queue).kind = kind
    BY DEF Popped, IInv, PlatformType
<1>2. /\ Tail(queue) \in Seq(Work) /\ Len(Tail(queue)) = Len(queue) - 1
      /\ Len(queue) \in Nat \ {0} /\ Head(queue) = queue[1] /\ Head(queue) \in Work
      /\ \A i \in 1 .. Len(Tail(queue)) : Tail(queue)[i] = queue[i + 1]
    BY <1>1, TailOf
<1>3. command = 0
    BY <1>1 DEF IInv, CommandIsDispatching
<1> QED
    BY <1>1, <1>2, <1>3

\* A report is delivered, from the head of the queue or past the commands in front of it.
LEMMA ReportStep ==
    ASSUME IInv, NEW k \in 1 .. Len(queue), queue[k].kind = "focus", Report(queue[k]),
           queue' \in Seq(Work), Len(queue') = Len(queue) - 1,
           \A j \in 1 .. Len(queue) - 1 :
              queue'[j] = IF j < k THEN queue[j] ELSE queue[j + 1],
           UNCHANGED <<next_generation, target, policy, command_sequence, next_sequence,
                       windowVars, focusVars, command>>,
           at' \in Places, at' \in Calm => command = 0, at' = "command" => command # 0
    PROVE  IInv'
<1> DEFINE item == queue[k]
<1> USE DEF windowVars, focusVars
<1>1. item \in Work /\ item.window \in Windows /\ item.sequence \in Nat \ {0}
    <2>1. item \in Work
        BY DEF IInv, PlatformType
    <2> QED
        BY <2>1 DEF Work
<1>2. \A g \in Generations : Follows(g, item.sequence) => item.window \in gained[g]
    BY DEF IInv, ObservationsGained
<1>3. Report(item) /\ item.kind = "focus"
    OBVIOUS
<1>4. /\ RequestType' /\ RecordsArePending' /\ DisplacedIsAnswered'
      /\ TerminalHasEvidence'
      /\ \A g \in Generations :
            first_positive'[g] # NoGain => first_positive'[g].window \in gained[g]
      /\ records' \subseteq records /\ \A g \in records' : status'[g] = status[g]
    <2>1. CASE item.window \in admitted
        <3>1. ObserveExactPositive(item.window, item.sequence)
            BY <1>3, <2>1 DEF Report
        <3> HIDE DEF item
        <3> QED
            BY <1>1, <1>2, <3>1, ObserveKeeps
    <2>2. CASE item.window \notin admitted
        <3>1. UNCHANGED <<records, status, current_generation, first_positive>>
            BY <1>3, <2>2 DEF Report
        <3> QED
            BY <3>1 DEF IInv, RequestType, RecordsArePending, DisplacedIsAnswered,
               TerminalHasEvidence, ObservationsGained
    <2> QED
        BY <2>1, <2>2
<1>5. CommandsQueued' /\ ObservationsGained'
    BY <1>3, <1>4, ShorterQueue
<1>6. PlatformType'
    BY DEF IInv, PlatformType, Places, Calm
<1>7. CommandIsDispatching'
    BY <1>4 DEF IInv, CommandIsDispatching, Calm
<1>8. RecordsAreAdmitted'
    BY <1>4, AdmittedKeeps
<1> QED
    BY <1>4, <1>5, <1>6, <1>7, <1>8 DEF IInv

\* The input barrier takes the oldest report, wherever it stands.
LEMMA InputStep == IInv /\ Input => IInv'
<1> SUFFICES ASSUME IInv, Input PROVE IInv'
    OBVIOUS
<1> DEFINE reports == {i \in 1 .. Len(queue) : queue[i].kind = "focus"}
           i == CHOOSE j \in reports : \A k \in reports : j <= k
<1>1. /\ at' = "input"
      /\ UNCHANGED <<next_generation, target, policy, command_sequence, next_sequence,
                     windowVars, focusVars, command>>
    BY DEF Input
<1>2. CASE reports = {}
    <2>1. UNCHANGED <<queue, records, status, current_generation, first_positive>>
        BY <1>2 DEF Input
    <2> QED
        BY <1>1, <2>1, QuietStep DEF authorityVars, queueVars, Places, Calm
<1>3. CASE reports # {}
    <2>1. Report(queue[i]) /\ queue' = RemoveAt(queue, i)
        BY <1>3 DEF Input
    <2>2. queue \in Seq(Work) /\ Len(queue) \in Nat /\ reports \in SUBSET Nat
        BY DEF IInv, PlatformType
    <2>3. \E j \in reports : \A k \in reports : j <= k
        BY <1>3, <2>2, Least
    <2>4. i \in reports
        BY <2>3
    <2>5. i \in 1 .. Len(queue) /\ queue[i].kind = "focus"
        BY <2>4
    <2> HIDE DEF i, reports
    <2>6. /\ queue' \in Seq(Work) /\ Len(queue') = Len(queue) - 1
          /\ \A j \in 1 .. Len(queue) - 1 :
                queue'[j] = IF j < i THEN queue[j] ELSE queue[j + 1]
        BY <2>1, <2>2, <2>5, RemoveOf
    <2>7. at' \in Places /\ at' \notin Calm /\ at' # "command"
        BY <1>1 DEF Places, Calm
    <2> QED
        BY <1>1, <2>1, <2>5, <2>6, <2>7, ReportStep
<1> QED
    BY <1>2, <1>3
-----------------------------------------------------------------------------
(* The drain and the command.                                                *)

LEMMA PopReportStep == IInv /\ PopReport => IInv'
<1> SUFFICES ASSUME IInv, PopReport PROVE IInv'
    OBVIOUS
<1>1. /\ Popped("focus") /\ Report(Head(queue)) /\ at' = "event"
      /\ UNCHANGED <<next_generation, target, policy, command_sequence, next_sequence,
                     windowVars, focusVars, command>>
    BY DEF PopReport
<1>2. /\ 1 \in 1 .. Len(queue) /\ Head(queue) = queue[1]
      /\ queue[1].kind = "focus" /\ command = 0
      /\ queue' \in Seq(Work) /\ Len(queue') = Len(queue) - 1
      /\ \A j \in 1 .. Len(queue) - 1 :
            queue'[j] = IF j < 1 THEN queue[j] ELSE queue[j + 1]
    BY <1>1, PoppedHead
<1>3. at' \in Places /\ at' # "command"
    BY <1>1 DEF Places, Calm
<1> QED
    BY <1>1, <1>2, <1>3, ReportStep

\* The focus that is read back is the target, and so the target gained it.
LEMMA PopReadbackStep == IInv /\ PopReadback => IInv'
<1> SUFFICES ASSUME IInv, PopReadback PROVE IInv'
    OBVIOUS
<1> DEFINE gs == ReadbackSettles(Head(queue))
<1> USE DEF windowVars, focusVars, threadVars
<1>1. /\ Popped("readback") /\ Settle(gs, "activated")
      /\ UNCHANGED <<next_generation, target, policy, command_sequence, first_positive,
                     next_sequence, windowVars, focusVars, at, command>>
    BY DEF PopReadback
<1>2. /\ 1 \in 1 .. Len(queue) /\ queue[1].kind = "readback"
      /\ at = "loop" /\ command = 0
      /\ queue' \in Seq(Work) /\ Len(queue') = Len(queue) - 1
      /\ \A j \in 1 .. Len(queue) - 1 :
            queue'[j] = IF j < 1 THEN queue[j] ELSE queue[j + 1]
    BY <1>1, PoppedHead
<1>3. \A g \in gs \cap records : target[g] \in gained[g]
    BY RecordsBegun DEF ReadbackSettles, IInv, ObservationsGained
<1> HIDE DEF gs
<1>4. /\ RequestType' /\ RecordsArePending' /\ DisplacedIsAnswered'
      /\ TerminalHasEvidence'
      /\ records' = records \ gs /\ \A g \in records' : status'[g] = status[g]
    BY <1>1, <1>3, SettleKeeps DEF Terminals
<1>5. CommandsQueued' /\ ObservationsGained'
    <2>1. \A g \in Generations :
             first_positive'[g] # NoGain => first_positive'[g].window \in gained[g]
        BY <1>1 DEF IInv, ObservationsGained
    <2> QED
        BY <1>1, <1>2, <1>4, <2>1, ShorterQueue
<1>6. PlatformType'
    BY <1>1, <1>2 DEF IInv, PlatformType
<1>7. CommandIsDispatching'
    BY <1>1, <1>4 DEF IInv, CommandIsDispatching
<1>8. RecordsAreAdmitted'
    BY <1>1, <1>4, AdmittedKeeps
<1> QED
    BY <1>4, <1>5, <1>6, <1>7, <1>8 DEF IInv

\* A command is dispatched, or its request is gone or goes; it is never superseded here.
LEMMA PopCommandStep == IInv /\ PopCommand => IInv'
<1> SUFFICES ASSUME IInv, PopCommand PROVE IInv'
    OBVIOUS
<1> DEFINE item == Head(queue)
           g == item.generation
           terminal == IF item.window \in open /\ item.window \notin admitted
                       THEN "policy_changed"
                       ELSE IF item.window \in open THEN "superseded" ELSE "closed"
<1> USE DEF windowVars, focusVars
<1>1. /\ Popped("activate")
      /\ UNCHANGED <<next_generation, target, policy, command_sequence, first_positive,
                     next_sequence, windowVars, focusVars>>
    BY DEF PopCommand
<1>2. /\ 1 \in 1 .. Len(queue) /\ item = queue[1] /\ queue[1] \in Work
      /\ queue[1].kind = "activate" /\ at = "loop" /\ command = 0
      /\ queue' \in Seq(Work) /\ Len(queue') = Len(queue) - 1
      /\ \A j \in 1 .. Len(queue) - 1 :
            queue'[j] = IF j < 1 THEN queue[j] ELSE queue[j + 1]
    BY <1>1, PoppedHead
<1>3. /\ g \in 1 .. next_generation
      /\ g \in records => status[g] = "queued"
      /\ queue[1].generation = g
    BY <1>2 DEF IInv, CommandsQueued
<1>4. \A h \in Generations :
         first_positive'[h] # NoGain => first_positive'[h].window \in gained[h]
    BY <1>1 DEF IInv, ObservationsGained
<1>5. CASE Dispatchable(item)
    <2>1. /\ status' = [status EXCEPT ![g] = "dispatching"]
          /\ at' = "command" /\ command' = g
          /\ UNCHANGED <<records, current_generation>>
        BY <1>5 DEF PopCommand
    <2>2. g \in records /\ status[g] = "queued" /\ g = current_generation /\ g \in Generations
        BY <1>5, RecordsBegun DEF Dispatchable
    <2> HIDE DEF g, item, terminal
    <2>3. /\ status' \in [Generations -> {"unused"} \cup Pending \cup Terminals]
          /\ status'[g] = "dispatching"
          /\ \A h \in Generations : h # g => status'[h] = status[h]
        BY <2>1, <2>2 DEF IInv, RequestType, Pending
    <2>4. RequestType'
        BY <1>1, <2>1, <2>3 DEF IInv, RequestType
    <2>5. PlatformType'
        <3>1. command' \in 0 .. next_generation'
            BY <1>1, <1>3, <2>1
        <3> QED
            BY <1>1, <1>2, <2>1, <3>1 DEF IInv, PlatformType
    <2>6. RecordsArePending'
        BY <1>1, <1>3, <2>1, <2>2, <2>3, ActivationConstants
           DEF IInv, RecordsArePending, RequestType, Pending, Generations
    <2>7. CommandIsDispatching'
        BY <1>2, <1>3, <2>1, <2>2, <2>3, RecordsBegun DEF IInv, CommandIsDispatching
    <2>8. DisplacedIsAnswered'
        BY <1>1, <2>1, <2>2, <2>3, RecordsBegun DEF IInv, DisplacedIsAnswered
    <2>9. RecordsAreAdmitted'
        BY <1>1, <2>1, AdmittedKeeps
    <2>10. TerminalHasEvidence'
        BY <1>1, <2>2, <2>3 DEF IInv, TerminalHasEvidence
    <2>11. ObservationsGained'
        <3>1. \A j \in 1 .. Len(queue') : j + 1 \in 1 .. Len(queue) /\ queue'[j] = queue[j + 1]
            <4>1. Len(queue) \in Nat
                BY DEF IInv, PlatformType
            <4> QED
                BY <1>2, <4>1
        <3> QED
            BY <1>1, <3>1 DEF IInv, ObservationsGained, Follows
    <2>12. CommandsQueued'
        <3>1. /\ Len(queue) \in Nat \ {0}
              /\ \A j \in 1 .. Len(queue') :
                    j + 1 \in 1 .. Len(queue) /\ j + 1 # 1 /\ queue'[j] = queue[j + 1]
            <4>1. Len(queue) \in Nat
                BY DEF IInv, PlatformType
            <4> QED
                BY <1>2, <4>1
        <3>2. ASSUME NEW h \in records, status'[h] = "queued"
              PROVE  \E j \in 1 .. Len(queue') :
                         queue'[j].kind = "activate" /\ queue'[j].generation = h
            <4>1. h # g /\ status[h] = "queued"
                BY <2>3, <3>2, RecordsBegun
            <4>2. PICK i \in 1 .. Len(queue) :
                      queue[i].kind = "activate" /\ queue[i].generation = h
                BY <4>1 DEF IInv, CommandsQueued
            <4>3. i # 1
                BY <4>1, <4>2, <1>3
            <4>4. i - 1 \in 1 .. Len(queue') /\ (i - 1) + 1 = i
                BY <4>3, <3>1, <1>2
            <4>5. queue'[i - 1] = queue[i]
                BY <4>4, <3>1
            <4> QED
                BY <4>2, <4>4, <4>5
        <3>3. ASSUME NEW j \in 1 .. Len(queue'), queue'[j].kind = "activate"
              PROVE  /\ queue'[j].generation \in 1 .. next_generation
                     /\ queue'[j].generation \in records =>
                           status'[queue'[j].generation] = "queued"
            <4>1. j + 1 \in 1 .. Len(queue) /\ j + 1 # 1 /\ queue'[j] = queue[j + 1]
                BY <3>1
            <4>2. queue[j + 1].generation # g
                BY <4>1, <3>3, <1>2, <1>3 DEF IInv, CommandsQueued
            <4>3. /\ queue[j + 1].generation \in 1 .. next_generation
                  /\ queue[j + 1].generation \in records =>
                        status[queue[j + 1].generation] = "queued"
                BY <4>1, <3>3 DEF IInv, CommandsQueued
            <4> QED
                BY <4>1, <4>2, <4>3, <2>3, RecordsBegun
        <3>4. ASSUME NEW i \in 1 .. Len(queue'), NEW j \in 1 .. Len(queue'), i # j,
                     queue'[i].kind = "activate", queue'[j].kind = "activate"
              PROVE  queue'[i].generation # queue'[j].generation
            <4>1. /\ i + 1 \in 1 .. Len(queue) /\ j + 1 \in 1 .. Len(queue) /\ i + 1 # j + 1
                  /\ queue'[i] = queue[i + 1] /\ queue'[j] = queue[j + 1]
                BY <3>1, <3>4
            <4> QED
                BY <4>1, <3>4 DEF IInv, CommandsQueued
        <3> QED
            BY <1>1, <2>1, <3>2, <3>3, <3>4 DEF CommandsQueued
    <2> QED
        BY <2>4, <2>5, <2>6, <2>7, <2>8, <2>9, <2>10, <2>11, <2>12 DEF IInv
<1>6. CASE ~Dispatchable(item)
    <2>1. Settle({g}, terminal) /\ UNCHANGED <<at, command>>
        BY <1>6 DEF PopCommand
    <2>2. terminal \in Terminals /\ terminal # "activated"
        BY DEF Terminals
    <2>3. terminal = "superseded" => {g} \cap records = {}
        <3> SUFFICES ASSUME terminal = "superseded", g \in records PROVE FALSE
            OBVIOUS
        <3>1. item.window \in admitted
            OBVIOUS
        <3>2. status[g] = "queued"
            BY <1>3
        <3>3. current_generation = g
            BY <3>2 DEF IInv, DisplacedIsAnswered
        <3> QED
            BY <1>6, <3>1, <3>2, <3>3 DEF Dispatchable
    <2> HIDE DEF g, item, terminal
    <2>4. /\ RequestType' /\ RecordsArePending' /\ DisplacedIsAnswered'
          /\ TerminalHasEvidence'
          /\ records' = records \ {g} /\ \A h \in records' : status'[h] = status[h]
        <3>1. \A h \in {g} \cap records :
                 /\ terminal = "activated" => target[h] \in gained[h]
                 /\ terminal = "superseded" => gained[h] \ {target[h]} # {}
            BY <2>2, <2>3
        <3> QED
            BY <1>1, <2>1, <2>2, <3>1, SettleKeeps
    <2>5. CommandsQueued' /\ ObservationsGained'
        BY <1>1, <1>2, <1>3, <1>4, <2>4, ShorterQueue
    <2>6. PlatformType'
        BY <1>1, <1>2, <2>1 DEF IInv, PlatformType
    <2>7. CommandIsDispatching'
        BY <2>1, <2>4 DEF IInv, CommandIsDispatching
    <2>8. RecordsAreAdmitted'
        BY <1>1, <2>4, AdmittedKeeps
    <2> QED
        BY <2>4, <2>5, <2>6, <2>7, <2>8 DEF IInv
<1> QED
    BY <1>5, <1>6

\* The command returns: what was seen meanwhile decides, or the focus is read back.
LEMMA AcceptedStep == IInv /\ CommandAccepted => IInv'
<1> SUFFICES ASSUME IInv, CommandAccepted PROVE IInv'
    OBVIOUS
<1> USE DEF windowVars, focusVars
<1>1. /\ at = "command" /\ at' = "loop" /\ command' = 0 /\ command # 0
      /\ UNCHANGED <<next_generation, target, policy, command_sequence, first_positive,
                     windowVars, focusVars>>
    BY DEF CommandAccepted, IInv, CommandIsDispatching
<1>2. CASE command \notin records
    <2>1. UNCHANGED <<records, status, current_generation, queueVars>>
        BY <1>2 DEF CommandAccepted
    <2>2. RequestType' /\ PlatformType'
        BY <1>1, <2>1 DEF IInv, RequestType, PlatformType, queueVars
    <2>3. RecordsArePending' /\ DisplacedIsAnswered' /\ TerminalHasEvidence'
        BY <1>1, <2>1 DEF IInv, RecordsArePending, DisplacedIsAnswered, TerminalHasEvidence
    <2>4. CommandIsDispatching'
        BY <1>1, <1>2, <2>1, RecordsBegun DEF IInv, CommandIsDispatching
    <2>5. RecordsAreAdmitted'
        BY <1>1, <2>1, AdmittedKeeps
    <2>6. CommandsQueued' /\ ObservationsGained'
        BY <1>1, <2>1, QueueKeeps, GainedKeeps DEF queueVars
    <2> QED
        BY <2>2, <2>3, <2>4, <2>5, <2>6 DEF IInv
<1>3. CASE command \in records /\ first_positive[command] # NoGain
    <2> DEFINE terminal == IF first_positive[command].window = target[command]
                           THEN "activated" ELSE "superseded"
    <2>1. Settle({command}, terminal) /\ UNCHANGED queueVars
        BY <1>3 DEF CommandAccepted
    <2>2. \A g \in {command} \cap records :
             /\ terminal = "activated" => target[g] \in gained[g]
             /\ terminal = "superseded" => gained[g] \ {target[g]} # {}
        BY <1>3, RecordsBegun DEF IInv, ObservationsGained
    <2>3. terminal \in Terminals
        BY DEF Terminals
    <2> HIDE DEF terminal
    <2>4. /\ RequestType' /\ RecordsArePending' /\ DisplacedIsAnswered'
          /\ TerminalHasEvidence'
          /\ records' = records \ {command} /\ \A g \in records' : status'[g] = status[g]
        BY <1>1, <2>1, <2>2, <2>3, SettleKeeps
    <2>5. PlatformType'
        BY <1>1, <2>1 DEF IInv, PlatformType, RequestType, queueVars
    <2>6. CommandIsDispatching'
        BY <1>1, <2>4, RecordsBegun DEF IInv, CommandIsDispatching
    <2>7. RecordsAreAdmitted'
        BY <1>1, <2>4, AdmittedKeeps
    <2>8. CommandsQueued' /\ ObservationsGained'
        BY <1>1, <2>1, <2>4, QueueKeeps, GainedKeeps DEF queueVars
    <2> QED
        BY <2>4, <2>5, <2>6, <2>7, <2>8 DEF IInv
<1>4. CASE command \in records /\ first_positive[command] = NoGain
    <2> DEFINE item == [kind |-> "readback", window |-> target[command],
                        generation |-> command, sequence |-> next_sequence]
    <2>1. /\ status' = [status EXCEPT ![command] = "dispatched"]
          /\ UNCHANGED <<records, current_generation>>
          /\ IF fenced THEN UNCHANGED <<queue, next_sequence>>
             ELSE queue' = Append(queue, item) /\ next_sequence' = next_sequence + 1
        BY <1>4 DEF CommandAccepted, queueVars
    <2>2. /\ command \in Generations /\ command \in 1 .. next_generation
          /\ current_generation = command /\ target[command] \in Windows
        BY <1>4, RecordsBegun DEF IInv, DisplacedIsAnswered, ObservationsGained
    <2>3. /\ item \in Work /\ item.kind = "readback" /\ item.sequence = next_sequence
          /\ next_sequence \in Nat \ {0} /\ queue \in Seq(Work)
        BY <2>2 DEF Work, IInv, PlatformType
    <2> HIDE DEF item
    <2>4. /\ Len(queue) \in Nat /\ queue' \in Seq(Work) /\ next_sequence' \in Nat \ {0}
          /\ Len(queue') \in Nat /\ Len(queue) <= Len(queue')
          /\ \A i \in 1 .. Len(queue) : queue'[i] = queue[i]
          /\ next_sequence <= next_sequence'
          /\ \A i \in 1 .. Len(queue') : i \notin 1 .. Len(queue) =>
                queue'[i] = item /\ next_sequence' = next_sequence + 1
        <3>1. CASE fenced
            BY <3>1, <2>1, <2>3
        <3>2. CASE ~fenced
            <4>1. queue' = Append(queue, item) /\ next_sequence' = next_sequence + 1
                BY <3>2, <2>1
            <4>2. queue' \in Seq(Work)
                BY <4>1, <2>3
            <4>3. /\ Len(queue') = Len(queue) + 1 /\ Len(queue) \in Nat
                  /\ queue'[Len(queue) + 1] = item
                  /\ \A i \in 1 .. Len(queue) : queue'[i] = queue[i]
                BY <4>1, <2>3
            <4> QED
                BY <4>1, <4>2, <4>3, <2>3
        <3> QED
            BY <3>1, <3>2
    <2>5. /\ status' \in [Generations -> {"unused"} \cup Pending \cup Terminals]
          /\ status'[command] = "dispatched"
          /\ \A h \in Generations : h # command => status'[h] = status[h]
        BY <2>1, <2>2 DEF IInv, RequestType, Pending
    <2>6. RequestType'
        BY <1>1, <2>1, <2>5 DEF IInv, RequestType
    <2>7. PlatformType'
        BY <1>1, <2>4 DEF IInv, PlatformType, RequestType
    <2>8. RecordsArePending'
        BY <1>1, <1>4, <2>1, <2>2, <2>5, ActivationConstants
           DEF IInv, RecordsArePending, RequestType, Pending, Generations
    <2>9. CommandIsDispatching'
        <3>1. ASSUME NEW h \in records PROVE status'[h] # "dispatching" /\ h # 0
            BY <2>5, RecordsBegun DEF IInv, CommandIsDispatching
        <3> QED
            BY <1>1, <2>1, <3>1 DEF CommandIsDispatching
    <2>10. DisplacedIsAnswered'
        BY <1>1, <2>1, <2>2, <2>5, RecordsBegun DEF IInv, DisplacedIsAnswered
    <2>11. RecordsAreAdmitted'
        BY <1>1, <2>1, AdmittedKeeps
    <2>12. TerminalHasEvidence'
        BY <1>1, <2>2, <2>5 DEF IInv, TerminalHasEvidence
    <2>13. CommandsQueued'
        <3>1. \A i \in 1 .. Len(queue') : queue'[i].kind = "activate" => i \in 1 .. Len(queue)
            BY <2>3, <2>4
        <3>2. \A i \in 1 .. Len(queue) : i \in 1 .. Len(queue')
            BY <2>4
        <3>3. \A h \in records : h # command /\ status'[h] = "queued" => status[h] = "queued"
            BY <2>5, RecordsBegun
        <3>4. ASSUME NEW h \in records, status'[h] = "queued"
              PROVE  \E i \in 1 .. Len(queue') :
                         queue'[i].kind = "activate" /\ queue'[i].generation = h
            <4>1. status[h] = "queued"
                BY <3>3, <3>4, <2>5
            <4>2. PICK i \in 1 .. Len(queue) :
                      queue[i].kind = "activate" /\ queue[i].generation = h
                BY <4>1 DEF IInv, CommandsQueued
            <4> QED
                BY <4>2, <3>2, <2>4
        <3>5. ASSUME NEW i \in 1 .. Len(queue'), queue'[i].kind = "activate"
              PROVE  /\ queue'[i].generation \in 1 .. next_generation
                     /\ queue'[i].generation \in records =>
                           status'[queue'[i].generation] = "queued"
            <4>1. i \in 1 .. Len(queue) /\ queue'[i] = queue[i]
                BY <3>1, <3>5, <2>4
            <4>2. /\ queue[i].generation \in 1 .. next_generation
                  /\ queue[i].generation \in records => status[queue[i].generation] = "queued"
                BY <4>1, <3>5 DEF IInv, CommandsQueued
            <4>3. status[command] = "dispatching"
                BY <1>4 DEF IInv, CommandIsDispatching
            <4> QED
                BY <4>1, <4>2, <4>3, <1>4, <2>5, RecordsBegun
        <3>6. ASSUME NEW i \in 1 .. Len(queue'), NEW j \in 1 .. Len(queue'), i # j,
                     queue'[i].kind = "activate", queue'[j].kind = "activate"
              PROVE  queue'[i].generation # queue'[j].generation
            <4>1. /\ i \in 1 .. Len(queue) /\ j \in 1 .. Len(queue)
                  /\ queue'[i] = queue[i] /\ queue'[j] = queue[j]
                BY <3>1, <3>6, <2>4
            <4> QED
                BY <4>1, <3>6 DEF IInv, CommandsQueued
        <3> QED
            BY <1>1, <2>1, <3>4, <3>5, <3>6 DEF CommandsQueued
    <2>14. ObservationsGained'
        <3>1. \A i \in 1 .. Len(queue) : queue[i].sequence < next_sequence
                                           /\ queue[i].sequence \in Nat
            <4>1. \A i \in 1 .. Len(queue) : queue[i] \in Work
                BY <2>3
            <4> QED
                BY <4>1 DEF IInv, ObservationsGained, Work
        <3>2. \A i \in 1 .. Len(queue') : queue'[i].sequence < next_sequence'
            BY <3>1, <2>3, <2>4
        <3>3. \A i \in 1 .. Len(queue') : queue'[i].kind = "focus" =>
                  i \in 1 .. Len(queue) /\ queue'[i] = queue[i]
            BY <2>3, <2>4
        <3> QED
            BY <1>1, <3>2, <3>3 DEF IInv, ObservationsGained, Follows
    <2> QED
        BY <2>6, <2>7, <2>8, <2>9, <2>10, <2>11, <2>12, <2>13, <2>14 DEF IInv
<1> QED
    BY <1>2, <1>3, <1>4

\* The command fails, as a refusal or a panic.
LEMMA FailedStep ==
    ASSUME IInv, CommandPanics \/ \E refusal \in Refusals : CommandRefused(refusal)
    PROVE  IInv'
<1>1. PICK terminal \in Refusals : Settle({command}, terminal)
    BY DEF CommandPanics, CommandRefused, Refusals
<1>2. /\ command' = 0 /\ at' \in {"loop", "release", "idle", "critical"}
      /\ UNCHANGED <<next_generation, target, policy, command_sequence, first_positive,
                     queueVars, windowVars, focusVars>>
    BY DEF CommandPanics, CommandRefused, EndPass
<1>3. terminal \in Terminals \ {"activated", "superseded"}
    BY DEF Refusals, Terminals
<1>4. PlatformType'
    BY <1>2 DEF IInv, PlatformType, RequestType, queueVars, windowVars, focusVars
<1>5. RecordsAreAdmitted'
    BY <1>1, <1>2, AdmittedKeeps DEF Settle, windowVars
<1> QED
    BY <1>1, <1>2, <1>3, <1>4, <1>5, SettleStep

\* The other steps of the main thread, and what observers do.
LEMMA QuietSteps ==
    ASSUME IInv,
           \/ \E o \in Observers, g \in Generations : Subscribe(o, g)
           \/ \E o \in Observers : Unsubscribe(o)
           \/ Borrow \/ Release \/ Wake \/ TakeDelivery \/ Deliver \/ CallbackReturns
           \/ DeliveriesDone \/ Converge \/ CriticalDone \/ DrainDone \/ EventReturns
           \/ InputReturns
    PROVE  IInv'
<1> USE DEF threadVars, Places, Calm
<1>1. /\ at \in Places /\ (at \in Calm => command = 0) /\ (at = "command" => command # 0)
    BY DEF IInv, PlatformType, CommandIsDispatching
<1>2. ASSUME NEW o \in Observers, NEW g \in Generations, Subscribe(o, g) PROVE IInv'
    <2>1. /\ at' \in {"release", at}
          /\ UNCHANGED <<authorityVars, queueVars, windowVars, focusVars, command>>
        BY <1>2 DEF Subscribe, BorrowReleased
    <2> QED
        BY <1>1, <2>1, QuietStep
<1>3. ASSUME NEW o \in Observers, Unsubscribe(o) PROVE IInv'
    BY <1>1, <1>3, QuietStep DEF Unsubscribe
<1>4. CASE Borrow
    BY <1>1, <1>4, QuietStep DEF Borrow
<1>5. CASE Release
    BY <1>1, <1>5, QuietStep DEF Release
<1>6. CASE Wake
    BY <1>1, <1>6, QuietStep DEF Wake
<1>7. CASE TakeDelivery
    BY <1>1, <1>7, QuietStep DEF TakeDelivery
<1>8. CASE Deliver
    BY <1>1, <1>8, QuietStep DEF Deliver
<1>9. CASE CallbackReturns
    BY <1>1, <1>9, QuietStep DEF CallbackReturns
<1>10. CASE DeliveriesDone
    <2>1. /\ at' = at \/ (at = "loop" /\ at' \in {"release", "idle", "critical"})
          /\ UNCHANGED <<authorityVars, queueVars, windowVars, focusVars, command>>
        <3>1. \/ UNCHANGED <<at, pass, requested>>
              \/ at = "loop" /\ EndPass(TRUE)
            BY <1>10 DEF DeliveriesDone
        <3>2. UNCHANGED <<authorityVars, queueVars, windowVars, focusVars, command>>
            BY <1>10 DEF DeliveriesDone
        <3>3. EndPass(TRUE) => at' \in {"release", "idle", "critical"}
            BY DEF EndPass
        <3> QED
            BY <3>1, <3>2, <3>3
    <2> QED
        BY <1>1, <2>1, QuietStep
<1>11. CASE Converge
    BY <1>1, <1>11, QuietStep DEF Converge
<1>12. CASE CriticalDone
    BY <1>1, <1>12, QuietStep DEF CriticalDone
<1>13. CASE DrainDone
    <2>1. /\ at = "loop" /\ at' \in {"release", "idle", "critical"}
          /\ UNCHANGED <<authorityVars, queueVars, windowVars, focusVars, command>>
        BY <1>13 DEF DrainDone, EndPass
    <2> QED
        BY <1>1, <2>1, QuietStep
<1>14. CASE EventReturns
    BY <1>1, <1>14, QuietStep DEF EventReturns
<1>15. CASE InputReturns
    BY <1>1, <1>15, QuietStep DEF InputReturns
<1> QED
    BY <1>2, <1>3, <1>4, <1>5, <1>6, <1>7, <1>8, <1>9, <1>10, <1>11, <1>12, <1>13, <1>14,
       <1>15
-----------------------------------------------------------------------------
(* The observers.                                                            *)

\* The observers that a delivery may call: their ticket has settled.
Due ==
    {o \in Observers : /\ observer[o] # "unused" /\ watching[o] \in Generations
                       /\ status[watching[o]] \in Terminals}

\* Whatever is going to be called is due.
DeliveriesDue ==
    /\ watching \in [Observers -> 0 .. MaxRequests]
    /\ observer \in [Observers -> {"unused", "waiting", "scheduled", "called", "removed",
                                   "skipped"}]
    /\ deliveries \in Seq(Seq(Due)) /\ left \in Seq(Due)

\* A step of CallsAreWanted.
CallsWanted ==
    \A o \in Observers : observer'[o] = "called" /\ observer[o] # "called" =>
        o \notin cancelled /\ status[watching[o]] \in Terminals

\* A ticket that has settled stays settled.
StaysTerminal ==
    \A g \in Generations : status[g] \in Terminals => status'[g] \in Terminals

\* Each number up to the size of a set of numbers is the rank of a member.
LEMMA RankOf ==
    ASSUME NEW n \in Nat, NEW S \in SUBSET (1 .. n)
    PROVE  /\ Cardinality(S) \in Nat
           /\ \A k \in 1 .. Cardinality(S) : \E i \in S : Cardinality({j \in S : j <= i}) = k
<1> DEFINE upto(i) == {j \in S : j <= i}
           rank == [i \in S |-> Cardinality(upto(i))]
           N == Cardinality(S)
<1>0. IsFiniteSet(1 .. n)
    BY FS_Interval
<1>1. IsFiniteSet(S) /\ N \in Nat
    BY <1>0, FS_Subset, FS_CardinalityType
<1>2. ASSUME NEW i \in S
      PROVE  IsFiniteSet(upto(i)) /\ Cardinality(upto(i)) \in 1 .. N
    <2>1. upto(i) \in SUBSET S /\ i \in upto(i)
        OBVIOUS
    <2>2. IsFiniteSet(upto(i)) /\ Cardinality(upto(i)) <= N
        BY <1>1, <2>1, FS_Subset
    <2>3. Cardinality(upto(i)) \in Nat /\ Cardinality(upto(i)) # 0
        BY <2>1, <2>2, FS_CardinalityType, FS_EmptySet
    <2> QED
        BY <1>1, <2>2, <2>3
<1>3. ASSUME NEW i \in S, NEW k \in S, i < k PROVE rank[i] # rank[k]
    <2>1. upto(i) \in SUBSET upto(k) /\ k \in upto(k) /\ k \notin upto(i)
        <3>1. \A j \in S : j \in Nat
            OBVIOUS
        <3>2. \A j \in S : j <= i => j <= k
            BY <1>3, <3>1
        <3>3. k <= k /\ ~(k <= i)
            BY <1>3, <3>1
        <3> QED
            BY <3>2, <3>3
    <2>2. Cardinality(upto(k)) = Cardinality(upto(i)) => upto(k) = upto(i)
        BY <1>2, <2>1, FS_Subset
    <2> QED
        BY <2>1, <2>2
<1>4. rank \in [S -> 1 .. N]
    BY <1>2
<1>5. \A i, k \in S : rank[i] = rank[k] => i = k
    <2>1. SUFFICES ASSUME NEW i \in S, NEW k \in S, i # k PROVE rank[i] # rank[k]
        OBVIOUS
    <2>2. i < k \/ k < i
        BY <2>1
    <2> HIDE DEF rank
    <2> QED
        BY <1>3, <2>2
<1>6. rank \in Injection(S, 1 .. N)
    <2> HIDE DEF rank
    <2> QED
        BY <1>4, <1>5 DEF Injection, IsInjective
<1>7. IsFiniteSet(1 .. N) /\ Cardinality(1 .. N) = N
    BY <1>1, FS_Interval
<1>8. rank \in Surjection(S, 1 .. N)
    <2> HIDE DEF rank, N
    <2> QED
        BY <1>6, <1>7, FS_Injection DEF N
<1>9. \A k \in 1 .. N : \E i \in S : rank[i] = k
    <2> HIDE DEF rank, N
    <2> QED
        BY <1>8 DEF Surjection
<1> QED
    BY <1>1, <1>9

\* A set of numbers in order is a sequence of its members.
LEMMA AscendingOf ==
    ASSUME NEW n \in Nat, NEW S \in SUBSET (1 .. n)
    PROVE  Ascending(S) \in Seq(S)
<1>1. /\ Cardinality(S) \in Nat
      /\ \A k \in 1 .. Cardinality(S) : \E i \in S : Cardinality({j \in S : j <= i}) = k
    BY RankOf
<1> DEFINE member(k) == CHOOSE i \in S : Cardinality({j \in S : j <= i}) = k
           N == Cardinality(S)
<1>2. \A k \in 1 .. N : member(k) \in S
    BY <1>1
<1>3. Ascending(S) = [k \in 1 .. N |-> member(k)]
    BY DEF Ascending
<1> HIDE DEF member, N
<1>4. N \in Nat
    BY <1>1 DEF N
<1> QED
    BY <1>2, <1>3, <1>4

LEMMA Widened ==
    ASSUME NEW A, NEW B, A \subseteq B
    PROVE  Seq(A) \subseteq Seq(B)
<1> SUFFICES ASSUME NEW s \in Seq(A) PROVE s \in Seq(B)
    OBVIOUS
<1>1. Len(s) \in Nat /\ s = [i \in 1 .. Len(s) |-> s[i]] /\ \A i \in 1 .. Len(s) : s[i] \in B
    OBVIOUS
<1> QED
    BY <1>1

\* What settles is delivered to observers that are due from then on.
LEMMA DeliveriesOf ==
    ASSUME NEW gone \in SUBSET Generations, observer' = Scheduled(gone), UNCHANGED watching,
           \A g \in gone : status'[g] \in Terminals
    PROVE  Deliveries(gone) \in Seq(Seq(Due'))
<1> DEFINE awaited == {g \in gone : WaitingOn(g) # {}}
           order == Ascending(awaited)
<1>1. awaited \in SUBSET (1 .. MaxRequests) /\ awaited \subseteq gone
    BY DEF Generations
<1>2. order \in Seq(gone)
    <2> HIDE DEF awaited
    <2>1. Ascending(awaited) \in Seq(awaited)
        BY <1>1, AscendingOf, ActivationConstants
    <2> QED
        BY <1>1, <2>1, Widened
<1>3. ASSUME NEW i \in 1 .. Len(order) PROVE Ascending(WaitingOn(order[i])) \in Seq(Due')
    <2>1. PICK g \in gone : g = order[i]
        <3> HIDE DEF order
        <3> QED
            BY <1>2
    <2>2. WaitingOn(g) \in SUBSET (1 .. MaxObservers)
        BY DEF WaitingOn, Observers
    <2>3. Ascending(WaitingOn(g)) \in Seq(WaitingOn(g))
        BY <2>2, AscendingOf, ActivationConstants
    <2>4. WaitingOn(g) \subseteq Due'
        BY DEF WaitingOn, Due, Scheduled
    <2> QED
        BY <2>1, <2>3, <2>4, Widened
<1>4. Deliveries(gone) = [i \in 1 .. Len(order) |-> Ascending(WaitingOn(order[i]))]
    BY DEF Deliveries
<1> HIDE DEF order
<1>5. Len(order) \in Nat
    BY <1>2
<1> QED
    BY <1>3, <1>4, <1>5

LEMMA DueStays ==
    ASSUME UNCHANGED watching, StaysTerminal,
           \A o \in Observers : observer[o] # "unused" => observer'[o] # "unused"
    PROVE  Due \subseteq Due'
BY DEF Due, StaysTerminal

\* Steps that leave the observers and their deliveries alone.
LEMMA ObserversStay ==
    ASSUME DeliveriesDue, StaysTerminal, UNCHANGED <<watching, observer, deliveries, left>>
    PROVE  DeliveriesDue' /\ CallsWanted
<1>1. Due \subseteq Due'
    BY DueStays
<1>2. Seq(Due) \subseteq Seq(Due') /\ Seq(Seq(Due)) \subseteq Seq(Seq(Due'))
    BY <1>1, Widened
<1>3. CallsWanted
    BY DEF CallsWanted
<1> QED
    BY <1>2, <1>3 DEF DeliveriesDue

\* Steps that settle the tickets gone.
LEMMA ObserversScheduled ==
    ASSUME DeliveriesDue, StaysTerminal, UNCHANGED <<watching, left>>,
           NEW gone \in SUBSET Generations, \A g \in gone : status'[g] \in Terminals,
           observer' = Scheduled(gone), deliveries' = deliveries \o Deliveries(gone)
    PROVE  DeliveriesDue' /\ CallsWanted
<1>1. \A o \in Observers : observer'[o] = observer[o] \/ observer'[o] = "scheduled"
    BY DEF Scheduled
<1>2. Due \subseteq Due'
    BY <1>1, DueStays
<1>3. Seq(Due) \subseteq Seq(Due') /\ Seq(Seq(Due)) \subseteq Seq(Seq(Due'))
    BY <1>2, Widened
<1>4. Deliveries(gone) \in Seq(Seq(Due'))
    BY DeliveriesOf
<1>5. deliveries' \in Seq(Seq(Due')) /\ left' \in Seq(Due')
    BY <1>3, <1>4 DEF DeliveriesDue
<1>6. observer' \in [Observers -> {"unused", "waiting", "scheduled", "called", "removed",
                                   "skipped"}]
    BY DEF DeliveriesDue, Scheduled
<1>7. CallsWanted
    BY <1>1 DEF CallsWanted
<1> QED
    BY <1>5, <1>6, <1>7 DEF DeliveriesDue

LEMMA SettleDelivers ==
    ASSUME IInv, DeliveriesDue, NEW gs, NEW terminal \in Terminals, Settle(gs, terminal),
           UNCHANGED <<watching, left>>
    PROVE  DeliveriesDue' /\ CallsWanted
<1> DEFINE gone == gs \cap records
<1>1. /\ status' = [g \in Generations |-> IF g \in gone THEN terminal ELSE status[g]]
      /\ observer' = Scheduled(gone) /\ deliveries' = deliveries \o Deliveries(gone)
    BY DEF Settle
<1>2. gone \in SUBSET Generations
    BY DEF IInv, RequestType
<1> HIDE DEF gone
<1>3. StaysTerminal /\ \A g \in gone : status'[g] \in Terminals
    BY <1>1, <1>2 DEF StaysTerminal
<1> QED
    BY <1>1, <1>2, <1>3, ObserversScheduled

\* A new request settles the one it displaces, whose ticket was pending.
LEMMA BeginDelivers ==
    ASSUME IInv, DeliveriesDue, NEW w, NEW refusal \in {"none"} \cup Refusals,
           Begin(w, refusal), UNCHANGED <<watching, left>>
    PROVE  DeliveriesDue' /\ CallsWanted
<1> DEFINE gone == Displaced
           new == next_generation + 1
<1>1. /\ new \in Generations
      /\ status' = [h \in Generations |->
                       IF h \in gone THEN "superseded"
                       ELSE IF h # new THEN status[h]
                       ELSE IF refusal = "none" THEN "queued" ELSE refusal]
      /\ observer' = Scheduled(gone) /\ deliveries' = deliveries \o Deliveries(gone)
    BY DEF Begin
<1>2. gone \in SUBSET Generations
    BY DEF IInv, RequestType, Displaced
<1>3. status[new] = "unused"
    <2>1. new > next_generation
        BY DEF IInv, RequestType
    <2> HIDE DEF new
    <2> QED
        BY <1>1, <2>1 DEF IInv, RecordsArePending
<1> HIDE DEF gone, new
<1>4. StaysTerminal
    BY <1>1, <1>2, <1>3 DEF StaysTerminal, Terminals
<1>5. \A g \in gone : status'[g] \in Terminals
    BY <1>1, <1>2 DEF Terminals
<1> QED
    BY <1>1, <1>2, <1>4, <1>5, ObserversScheduled

LEMMA ReportDelivers ==
    ASSUME IInv, DeliveriesDue, NEW item, Report(item), UNCHANGED <<watching, left>>
    PROVE  DeliveriesDue' /\ CallsWanted
<1>1. \/ UNCHANGED <<status, deliveries, observer>>
      \/ \E g : Settle({g}, "activated") \/ Settle({g}, "superseded")
    <2>1. CASE item.window \notin admitted
        BY <2>1 DEF Report
    <2>2. CASE item.window \in admitted
        <3>1. ObserveExactPositive(item.window, item.sequence)
            BY <2>2 DEF Report
        <3> DEFINE seen == {g \in records : Follows(g, item.sequence)}
                   g == CHOOSE h \in seen : \A k \in seen : k <= h
        <3>2. \/ UNCHANGED <<status, deliveries, observer>>
              \/ Settle({g}, IF target[g] = item.window THEN "activated" ELSE "superseded")
            BY <3>1 DEF ObserveExactPositive
        <3> HIDE DEF g
        <3> QED
            BY <3>2
    <2> QED
        BY <2>1, <2>2
<1>2. CASE UNCHANGED <<status, deliveries, observer>>
    BY <1>2, ObserversStay DEF StaysTerminal
<1>3. CASE \E g : Settle({g}, "activated") \/ Settle({g}, "superseded")
    BY <1>3, SettleDelivers DEF Terminals
<1> QED
    BY <1>1, <1>2, <1>3

\* The application: what settles, and the subscriptions.
LEMMA AppDelivers ==
    ASSUME IInv, DeliveriesDue, AppStep
    PROVE  DeliveriesDue' /\ CallsWanted
<1>1. ASSUME NEW w \in Windows, ActivateWindow(w) PROVE DeliveriesDue' /\ CallsWanted
    <2>1. UNCHANGED <<watching, left>>
        BY <1>1 DEF ActivateWindow
    <2>2. \E refusal \in {"none"} \cup Refusals : Begin(w, refusal)
        BY <1>1 DEF ActivateWindow, Refusals
    <2> QED
        BY <2>1, <2>2, BeginDelivers
<1>2. ASSUME \/ \E w \in Windows : Quiesce(w) \/ Close(w)
             \/ \E w \in Windows, a \in BOOLEAN : CommitPolicy(w, a)
             \/ \E g \in Generations : Cancel(g)
             \/ Shutdown
      PROVE  DeliveriesDue' /\ CallsWanted
    <2>0. {"policy_changed", "closed", "cancelled"} \subseteq Terminals
        BY DEF Terminals
    <2>1. ASSUME NEW w \in Windows, Quiesce(w) PROVE DeliveriesDue' /\ CallsWanted
        <3>1. UNCHANGED <<watching, left>> /\ Settle(Quiesced(w), "policy_changed")
            BY <2>1 DEF Quiesce
        <3> QED
            BY <2>0, <3>1, SettleDelivers
    <2>2. ASSUME NEW w \in Windows, Close(w) PROVE DeliveriesDue' /\ CallsWanted
        <3>1. UNCHANGED <<watching, left>> /\ Settle(Targeting(w), "closed")
            BY <2>2 DEF Close
        <3> QED
            BY <2>0, <3>1, SettleDelivers
    <2>3. ASSUME NEW w \in Windows, NEW a \in BOOLEAN, CommitPolicy(w, a)
          PROVE  DeliveriesDue' /\ CallsWanted
        <3>1. UNCHANGED <<watching, left>> /\ Settle(PolicyChanged(w, a), "policy_changed")
            BY <2>3 DEF CommitPolicy
        <3> QED
            BY <2>0, <3>1, SettleDelivers
    <2>4. ASSUME NEW g \in Generations, Cancel(g) PROVE DeliveriesDue' /\ CallsWanted
        <3>1. UNCHANGED <<watching, left>> /\ Settle({g}, "cancelled")
            BY <2>4 DEF Cancel
        <3> QED
            BY <2>0, <3>1, SettleDelivers
    <2>5. ASSUME Shutdown PROVE DeliveriesDue' /\ CallsWanted
        <3>1. UNCHANGED <<watching, left>> /\ Settle(records, "closed")
            BY <2>5 DEF Shutdown
        <3> QED
            BY <2>0, <3>1, SettleDelivers
    <2> QED
        BY <1>2, <2>1, <2>2, <2>3, <2>4, <2>5
<1>3. ASSUME NEW o \in Observers, NEW g \in Generations, Subscribe(o, g)
      PROVE  DeliveriesDue' /\ CallsWanted
    <2>1. /\ observer[o] = "unused" /\ watching' = [watching EXCEPT ![o] = g]
          /\ UNCHANGED <<status, left>>
        BY <1>3 DEF Subscribe, authorityVars
    <2>2. \/ /\ observer' = [observer EXCEPT ![o] = "waiting"] /\ UNCHANGED deliveries
          \/ /\ status[g] \in Terminals
             /\ observer' = [observer EXCEPT ![o] = "scheduled"]
             /\ deliveries' = Append(deliveries, <<o>>)
        BY <1>3 DEF Subscribe
    <2>3. Due \subseteq Due'
        BY <2>1, <2>2 DEF Due, DeliveriesDue
    <2>4. Seq(Due) \subseteq Seq(Due') /\ Seq(Seq(Due)) \subseteq Seq(Seq(Due'))
        BY <2>3, Widened
    <2>5. /\ watching' \in [Observers -> 0 .. MaxRequests]
          /\ observer' \in [Observers -> {"unused", "waiting", "scheduled", "called",
                                          "removed", "skipped"}]
        <3>1. g \in 0 .. MaxRequests
            BY ActivationConstants DEF Generations
        <3>2. watching' \in [Observers -> 0 .. MaxRequests]
            BY <2>1, <3>1 DEF DeliveriesDue
        <3> QED
            BY <2>2, <3>2 DEF DeliveriesDue
    <2>6. deliveries' \in Seq(Seq(Due'))
        <3>1. CASE UNCHANGED deliveries
            BY <2>4, <3>1 DEF DeliveriesDue
        <3>2. CASE /\ status[g] \in Terminals
                   /\ observer' = [observer EXCEPT ![o] = "scheduled"]
                   /\ deliveries' = Append(deliveries, <<o>>)
            <4>1. o \in Due'
                BY <2>1, <3>2 DEF Due, DeliveriesDue
            <4>2. <<o>> \in Seq(Due')
                BY <4>1
            <4> QED
                BY <2>4, <3>2, <4>2 DEF DeliveriesDue
        <3> QED
            BY <2>2, <3>1, <3>2
    <2>7. CallsWanted
        BY <2>2 DEF CallsWanted, DeliveriesDue
    <2> QED
        BY <2>1, <2>4, <2>5, <2>6, <2>7 DEF DeliveriesDue
<1>4. ASSUME NEW o \in Observers, Unsubscribe(o) PROVE DeliveriesDue' /\ CallsWanted
    <2>1. /\ UNCHANGED <<status, watching, deliveries, left>>
          /\ observer[o] \in {"waiting", "scheduled"}
          /\ observer' = [observer EXCEPT ![o] = IF @ = "waiting" THEN "removed" ELSE @]
        BY <1>4 DEF Unsubscribe, authorityVars, deliveryVars
    <2>2. /\ \A p \in Observers : observer'[p] = observer[p] \/ observer'[p] = "removed"
          /\ observer' \in [Observers -> {"unused", "waiting", "scheduled", "called",
                                          "removed", "skipped"}]
        BY <2>1 DEF DeliveriesDue
    <2>3. StaysTerminal /\ CallsWanted
        BY <2>1, <2>2 DEF StaysTerminal, CallsWanted
    <2>4. Due \subseteq Due'
        BY <2>1, <2>2, <2>3, DueStays
    <2>5. Seq(Due) \subseteq Seq(Due') /\ Seq(Seq(Due)) \subseteq Seq(Seq(Due'))
        BY <2>4, Widened
    <2> QED
        BY <2>1, <2>2, <2>3, <2>5 DEF DeliveriesDue
<1> QED
    BY <1>1, <1>2, <1>3, <1>4 DEF AppStep

\* The deliveries themselves.
LEMMA DeliveryDelivers ==
    ASSUME DeliveriesDue, TakeDelivery \/ Deliver
    PROVE  DeliveriesDue' /\ CallsWanted
<1>1. CASE TakeDelivery
    <2>1. /\ UNCHANGED <<status, watching, observer>>
          /\ deliveries # <<>> /\ left' = Head(deliveries) /\ deliveries' = Tail(deliveries)
        BY <1>1 DEF TakeDelivery, authorityVars, observerVars
    <2>2. Due' = Due /\ CallsWanted
        BY <2>1 DEF Due, CallsWanted
    <2>3. left' \in Seq(Due) /\ deliveries' \in Seq(Seq(Due))
        BY <2>1 DEF DeliveriesDue
    <2> QED
        BY <2>1, <2>2, <2>3 DEF DeliveriesDue
<1>2. CASE Deliver
    <2>1. PICK o : o = Head(left)
        OBVIOUS
    <2>2. /\ left # <<>> /\ left' = Tail(left)
          /\ observer' = [observer EXCEPT ![o] = IF Calls(o) THEN "called" ELSE "skipped"]
          /\ UNCHANGED <<status, watching, deliveries>>
        BY <1>2, <2>1 DEF Deliver, authorityVars
    <2>3. o \in Due /\ left' \in Seq(Due)
        BY <2>1, <2>2 DEF DeliveriesDue
    <2>4. observer' \in [Observers -> {"unused", "waiting", "scheduled", "called",
                                       "removed", "skipped"}]
        BY <2>2 DEF DeliveriesDue
    <2>5. CallsWanted
        BY <2>2, <2>3 DEF DeliveriesDue, Due, CallsWanted, Calls
    <2>6. Due \subseteq Due'
        BY <2>2 DEF DeliveriesDue, Due
    <2>7. Seq(Due) \subseteq Seq(Due') /\ Seq(Seq(Due)) \subseteq Seq(Seq(Due'))
        BY <2>6, Widened
    <2> QED
        BY <2>2, <2>3, <2>4, <2>5, <2>7 DEF DeliveriesDue
<1> QED
    BY <1>1, <1>2

\* Commands, reports and readbacks.
LEMMA PlatformDelivers ==
    ASSUME IInv, DeliveriesDue, PopCommand \/ PopReadback \/ CommandReturns \/ CommandPanics
    PROVE  DeliveriesDue' /\ CallsWanted
<1>1. UNCHANGED <<watching, left>>
    BY DEF PopCommand, PopReadback, CommandReturns, CommandAccepted, CommandRefused,
       CommandPanics
<1>2. ASSUME NEW terminal, terminal \in Terminals, NEW gs, Settle(gs, terminal)
      PROVE  DeliveriesDue' /\ CallsWanted
    BY <1>1, <1>2, SettleDelivers
<1>3. ASSUME NEW g, g \in Generations => status[g] \in Pending, NEW s \in Pending,
             status' = [status EXCEPT ![g] = s], UNCHANGED <<deliveries, observer>>
      PROVE  DeliveriesDue' /\ CallsWanted
    <2>1. \A h \in Generations : status[h] \in Terminals => status'[h] = status[h]
        BY <1>3 DEF IInv, RequestType, Pending, Terminals
    <2> QED
        BY <1>1, <1>3, <2>1, ObserversStay DEF StaysTerminal
<1>4. ASSUME UNCHANGED <<status, deliveries, observer>> PROVE DeliveriesDue' /\ CallsWanted
    BY <1>1, <1>4, ObserversStay DEF StaysTerminal
<1>5. CASE PopCommand
    <2>1. PICK item : item = Head(queue)
        OBVIOUS
    <2>2. CASE Dispatchable(item)
        <3>1. /\ status' = [status EXCEPT ![item.generation] = "dispatching"]
              /\ UNCHANGED <<deliveries, observer>>
            BY <1>5, <2>1, <2>2 DEF PopCommand
        <3>2. status[item.generation] \in Pending
            BY <2>2 DEF Dispatchable, Pending
        <3> QED
            BY <1>3, <3>1, <3>2 DEF Pending
    <2>3. CASE ~Dispatchable(item)
        <3> DEFINE terminal == IF item.window \in open /\ item.window \notin admitted
                               THEN "policy_changed"
                               ELSE IF item.window \in open THEN "superseded" ELSE "closed"
        <3>1. Settle({item.generation}, terminal)
            BY <1>5, <2>1, <2>3 DEF PopCommand
        <3>2. terminal \in Terminals
            BY DEF Terminals
        <3> HIDE DEF terminal
        <3> QED
            BY <1>2, <3>1, <3>2
    <2> QED
        BY <2>2, <2>3
<1>6. CASE PopReadback
    <2>1. Settle(ReadbackSettles(Head(queue)), "activated") /\ "activated" \in Terminals
        BY <1>6 DEF PopReadback, Terminals
    <2> QED
        BY <1>2, <2>1
<1>7. CASE CommandAccepted
    <2>1. CASE command \notin records
        BY <1>4, <1>7, <2>1 DEF CommandAccepted
    <2>2. CASE command \in records /\ first_positive[command] # NoGain
        <3> DEFINE terminal == IF first_positive[command].window = target[command]
                               THEN "activated" ELSE "superseded"
        <3>1. Settle({command}, terminal)
            BY <1>7, <2>2 DEF CommandAccepted
        <3>2. terminal \in Terminals
            BY DEF Terminals
        <3> HIDE DEF terminal
        <3> QED
            BY <1>2, <3>1, <3>2
    <2>3. CASE command \in records /\ first_positive[command] = NoGain
        <3>1. status' = [status EXCEPT ![command] = "dispatched"]
              /\ UNCHANGED <<deliveries, observer>>
            BY <1>7, <2>3 DEF CommandAccepted
        <3>2. status[command] \in Pending
            BY <2>3 DEF IInv, RequestType, RecordsArePending
        <3> QED
            BY <1>3, <3>1, <3>2 DEF Pending
    <2> QED
        BY <2>1, <2>2, <2>3
<1>8. ASSUME NEW refusal \in Refusals, CommandRefused(refusal)
      PROVE  DeliveriesDue' /\ CallsWanted
    <2>1. Settle({command}, refusal) /\ refusal \in Terminals
        BY <1>8 DEF CommandRefused, Refusals, Terminals
    <2> QED
        BY <1>2, <2>1
<1>9. CASE CommandPanics
    <2>1. Settle({command}, "rejected") /\ "rejected" \in Terminals
        BY <1>9 DEF CommandPanics, Terminals
    <2> QED
        BY <1>2, <2>1
<1> QED
    BY <1>5, <1>6, <1>7, <1>8, <1>9 DEF CommandReturns

LEMMA DeliveriesStep ==
    IInv /\ DeliveriesDue /\ [Next]_activationVars => DeliveriesDue' /\ CallsWanted
<1> SUFFICES ASSUME IInv, DeliveriesDue, [Next]_activationVars
             PROVE  DeliveriesDue' /\ CallsWanted
    OBVIOUS
<1>same. ASSUME UNCHANGED <<status, deliveryVars, observerVars>>
         PROVE  DeliveriesDue' /\ CallsWanted
    BY <1>same, ObserversStay DEF deliveryVars, observerVars, StaysTerminal
<1>1. CASE AppStep
    BY <1>1, AppDelivers
<1>2. ASSUME NEW w \in Windows \cup {NoWindow}, Focus(w) PROVE DeliveriesDue' /\ CallsWanted
    BY <1>2, <1>same DEF Focus, authorityVars
<1>3. CASE Input
    <2>1. /\ UNCHANGED <<watching, left>>
          /\ \/ UNCHANGED <<status, deliveries, observer>>
             \/ \E item : Report(item)
        BY <1>3 DEF Input
    <2> QED
        BY <2>1, ReportDelivers, ObserversStay DEF StaysTerminal
<1>4. CASE PopReport
    BY <1>4, ReportDelivers DEF PopReport
<1>5. CASE TakeDelivery \/ Deliver
    BY <1>5, DeliveryDelivers
<1>6. CASE PopCommand \/ PopReadback \/ CommandReturns \/ CommandPanics
    BY <1>6, PlatformDelivers
<1>7. CASE \/ Borrow \/ Release \/ Wake \/ CallbackReturns \/ DeliveriesDone \/ Converge
           \/ CriticalDone \/ DrainDone \/ EventReturns \/ InputReturns
    <2>1. UNCHANGED <<status, watching, observer, deliveries, left>>
        BY <1>7 DEF Borrow, Release, Wake, CallbackReturns, DeliveriesDone, Converge,
           CriticalDone, DrainDone, EventReturns, InputReturns, authorityVars, deliveryVars,
           observerVars
    <2> QED
        BY <2>1, ObserversStay DEF StaysTerminal
<1>8. CASE UNCHANGED activationVars
    BY <1>8, <1>same DEF activationVars, authorityVars
<1> QED
    BY <1>1, <1>2, <1>3, <1>4, <1>5, <1>6, <1>7, <1>8 DEF Next, Passes
-----------------------------------------------------------------------------
(* The theorems.                                                             *)

LEMMA Initially == Init => IInv
<1> SUFFICES ASSUME Init PROVE IInv
    OBVIOUS
<1> USE ActivationConstants DEF Init
<1>1. RequestType
    BY DEF RequestType, Gains, Generations
<1>2. PlatformType
    BY DEF PlatformType
<1>3. RecordsArePending
    BY DEF RecordsArePending, Pending
<1>4. CommandIsDispatching /\ DisplacedIsAnswered /\ RecordsAreAdmitted
    BY DEF CommandIsDispatching, DisplacedIsAnswered, RecordsAreAdmitted
<1>5. CommandsQueued
    BY DEF CommandsQueued
<1>6. ObservationsGained
    BY DEF ObservationsGained, Generations
<1>7. TerminalHasEvidence
    BY DEF TerminalHasEvidence
<1> QED
    BY <1>1, <1>2, <1>3, <1>4, <1>5, <1>6, <1>7 DEF IInv

LEMMA Inductive == IInv /\ [Next]_activationVars => IInv'
<1> SUFFICES ASSUME IInv, [Next]_activationVars PROVE IInv'
    OBVIOUS
<1>1. CASE AppStep
    BY <1>1, ActivateStep, SettlingSteps, QuietSteps DEF AppStep
<1>2. ASSUME NEW w \in Windows \cup {NoWindow}, Focus(w) PROVE IInv'
    BY <1>2, FocusStep
<1>3. CASE Input
    BY <1>3, InputStep
<1>4. CASE Borrow
    BY <1>4, QuietSteps
<1>5. CASE CommandReturns
    BY <1>5, AcceptedStep, FailedStep DEF CommandReturns
<1>6. CASE CommandPanics
    BY <1>6, FailedStep
<1>7. CASE Passes
    BY <1>7, QuietSteps, PopReportStep, PopReadbackStep, PopCommandStep DEF Passes
<1>8. CASE UNCHANGED activationVars
    <2>1. UNCHANGED <<authorityVars, queueVars, windowVars, focusVars, command, at>>
        BY <1>8 DEF activationVars, threadVars
    <2> QED
        BY <2>1, QuietStep DEF IInv, PlatformType, CommandIsDispatching, Places, Calm
<1> QED
    BY <1>1, <1>2, <1>3, <1>4, <1>5, <1>6, <1>7, <1>8 DEF Next

LEMMA Invariance == Spec => []IInv
BY Initially, Inductive, PTL DEF Spec

\* Activated is only said of a window that had the native focus after its command was
\* queued, and Superseded only when another request or another window came later,
\* whichever report or readback the answer was taken from and however late it is.
THEOREM AnswersHaveEvidence == Spec => []TerminalHasEvidence
<1>1. IInv => TerminalHasEvidence
    BY DEF IInv
<1> QED
    BY Invariance, <1>1, PTL

\* No request is stranded: one that has not settled has its record and its command
\* queued, running or answered, it is the current one or has seen its winner, and its
\* window still accepts activation under the policy it was made with.
THEOREM RequestsAreOwned == Spec => []PendingIsOwned
<1>1. IInv => PendingIsOwned
    <2> SUFFICES ASSUME IInv PROVE PendingIsOwned
        OBVIOUS
    <2>1. \A g \in Generations : status[g] \in Pending => g \in records
        BY DEF IInv, RecordsArePending
    <2> QED
        BY <2>1 DEF IInv, PendingIsOwned, CommandsQueued, CommandIsDispatching,
           DisplacedIsAnswered, RecordsAreAdmitted
<1> QED
    BY Invariance, <1>1, PTL

\* An observer is called only when its ticket has settled and its Subscription has not
\* been dropped, whatever settles the ticket and however late its delivery is taken.
THEOREM ObserversAreWanted == Spec => CallsAreWanted
<1>1. Init => DeliveriesDue
    <2> SUFFICES ASSUME Init PROVE DeliveriesDue
        OBVIOUS
    <2>1. /\ watching = [o \in Observers |-> 0] /\ observer = [o \in Observers |-> "unused"]
          /\ deliveries = <<>> /\ left = <<>>
        BY DEF Init
    <2> QED
        BY <2>1, ActivationConstants DEF DeliveriesDue
<1>2. IInv /\ DeliveriesDue /\ [Next]_activationVars => [CallsWanted]_activationVars
    BY DeliveriesStep
<1>3. Spec => [](IInv /\ DeliveriesDue)
    BY <1>1, Initially, Inductive, DeliveriesStep, PTL DEF Spec
<1>4. [][CallsWanted]_activationVars => CallsAreWanted
    BY PTL DEF CallsAreWanted, CallsWanted
<1> QED
    BY <1>2, <1>3, <1>4, PTL DEF Spec
==============================================================================

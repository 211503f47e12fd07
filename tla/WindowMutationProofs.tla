------------------------- MODULE WindowMutationProofs -------------------------
(***************************************************************************)
(* Proofs about WindowMutation, for any domains, any generations and any   *)
(* nesting of deliveries.                                                  *)
(***************************************************************************)
EXTENDS WindowMutation, TLAPS

\* The pending ticket of a domain is the newest; no committed generation is newer.
NewestPending ==
    \A d \in Domains : pending[d] \in {0, last_generation[d]}
                         /\ committed_generation[d] <= last_generation[d]

\* What waits in the native event queue was reported by the backend.
QueuedIsAnswered ==
    \A i \in 1 .. Len(answers) : <<answers[i].domain, answers[i].generation>> \in answered

\* The tickets callers have, or get when the delivery in progress ends.
Granted(t) == t \in held \/ \E i \in 1 .. Len(frames) : frames[i].grant = t

\* A ticket that is granted was begun, and reports success only on its own answer.
GrantedFits ==
    \A d \in Domains, g \in Generations :
        Granted(<<d, g>>) =>
            /\ g <= last_generation[d]
            /\ terminal[<<d, g>>] \in {"exact", "adjusted"} => <<d, g>> \in answered

IInv ==
    /\ TypeOK
    /\ NewestPending
    /\ UnsettledIsPending
    /\ QuiescedStaysQuiet
    /\ QueuedIsAnswered
    /\ GrantedFits
-----------------------------------------------------------------------------
WindowType ==
    /\ last_generation \in [Domains -> 0 .. MaxGeneration]
    /\ committed_generation \in [Domains -> 0 .. MaxGeneration]
    /\ pending \in [Domains -> 0 .. MaxGeneration]
    /\ request \in [Tickets -> BOOLEAN]
    /\ terminal \in [Tickets -> Outcomes]
    /\ removed \in BOOLEAN /\ native_closed \in BOOLEAN
    /\ authority \in {"admitted", "revoked", "quiesced"}
    /\ facts \in Facts

BackendType ==
    /\ native \in Facts
    /\ work \in [Domains -> 0 .. MaxGeneration]
    /\ answers \in Seq(Answers)
    /\ answered \subseteq Tickets

TicketType ==
    /\ held \subseteq Tickets
    /\ watching \in [Observers -> Tickets \cup {NoTicket}]
    /\ observer \in [Observers -> {"unused", "waiting", "removed", "called", "lost"}]
    /\ frames \in Seq(Frames)

LEMMA TypeParts == TypeOK <=> WindowType /\ BackendType /\ TicketType
BY DEF TypeOK, WindowType, BackendType, TicketType

\* commit_platform_facts keeps the facts well typed.
LEMMA CommittedType ==
    ASSUME TypeOK, NEW new \in Facts PROVE Committed(new) \in Facts
<1>1. \A d \in Domains : new[d] \in BOOLEAN /\ facts[d] \in BOOLEAN
    BY DEF TypeOK, Facts
<1> QED
    BY <1>1 DEF Committed, Facts

\* ... and reports no gated fact of a window without interaction authority.
LEMMA CommittedMasks ==
    ASSUME NEW new, authority # "admitted", NEW d \in Gated PROVE Committed(new)[d] = FALSE
BY MutationConstants DEF Committed

LEMMA DispatchOutcomeType ==
    ASSUME TypeOK, NEW d \in Domains, NEW value \in BOOLEAN, NEW reply \in Replies
    PROVE  /\ DispatchOutcome(d, value, reply)[1] \in Outcomes
           /\ DispatchOutcome(d, value, reply)[2] \in Facts
           /\ DispatchOutcome(d, value, reply)[2] \in {facts, Committed(native)}
<1>1. facts \in Facts /\ Committed(native) \in Facts
    BY CommittedType DEF TypeOK
<1>2. CASE Matches(d, value, facts)
    BY <1>1, <1>2 DEF DispatchOutcome, Outcomes
<1>3. CASE ~Matches(d, value, facts) /\ d \notin Live
    BY <1>1, <1>3 DEF DispatchOutcome, Outcomes
<1>4. CASE ~Matches(d, value, facts) /\ d \in Live /\ reply = "queued"
    BY <1>1, <1>4 DEF DispatchOutcome, Outcomes
<1>5. CASE ~Matches(d, value, facts) /\ d \in Live /\ reply = "unchanged"
    BY <1>1, <1>5 DEF DispatchOutcome, Outcomes
<1>6. CASE ~Matches(d, value, facts) /\ d \in Live /\ reply \notin {"queued", "unchanged"}
    <2>1. reply \in Outcomes
        BY <1>6, MutationConstants DEF Replies, Outcomes
    <2> QED
        BY <1>1, <1>6, <2>1 DEF DispatchOutcome
<1> QED
    BY <1>2, <1>3, <1>4, <1>5, <1>6

\* The frame that is running.
LEMMA TopType ==
    ASSUME TypeOK, frames # <<>>
    PROVE  /\ Len(frames) \in 1 .. Len(frames) /\ Len(frames) \in Nat
           /\ Top \in Frames /\ Top.left \subseteq Observers
           /\ Top.grant \in Tickets \cup {NoTicket}
           /\ \A f \in Frames : Replace(f) \in Seq(Frames)
           /\ SubSeq(frames, 1, Len(frames) - 1) \in Seq(Frames)
<1>1. frames \in Seq(Frames)
    BY DEF TypeOK
<1>2. Len(frames) \in 1 .. Len(frames) /\ Len(frames) \in Nat
    BY <1>1
<1>3. Top \in Frames
    BY <1>1, <1>2 DEF Top
<1>4. Top.left \subseteq Observers /\ Top.grant \in Tickets \cup {NoTicket}
    BY <1>3 DEF Frames
<1>5. ASSUME NEW f \in Frames PROVE Replace(f) \in Seq(Frames)
    BY <1>1, <1>2 DEF Replace
<1>6. SubSeq(frames, 1, Len(frames) - 1) \in Seq(Frames)
    BY <1>1, <1>2
<1> QED
    BY <1>2, <1>3, <1>4, <1>5, <1>6

LEMMA UnsettledType ==
    ASSUME TypeOK, NEW d \in Domains
    PROVE  /\ Unsettled(d) \subseteq Tickets
           /\ \A e \in Domains, g \in Generations :
                 <<e, g>> \in Unsettled(d) <=> e = d /\ g = pending[d]
BY MutationConstants DEF TypeOK, Unsettled, Tickets, Generations

\* Settling leaves the outcomes well typed.
LEMMA SettleType ==
    ASSUME TypeOK, NEW ts, NEW outcome \in Outcomes
    PROVE  Settle(ts, outcome) \in [Tickets -> Outcomes]
BY DEF TypeOK, Settle
-----------------------------------------------------------------------------
LEMMA NoTicketIsNone == NoTicket \notin Tickets
<1>1. ASSUME NEW d \in Domains, NEW g \in Generations PROVE <<d, g>> # <<>>
    <2>1. Len(<<d, g>>) = 2 /\ Len(<<>>) = 0
        OBVIOUS
    <2> QED
        BY <2>1
<1> QED
    BY <1>1 DEF NoTicket, Tickets

\* Replacing the running frame by one with the same grant, or none, grants nothing new.
LEMMA ReplaceGrants ==
    ASSUME TypeOK, frames # <<>>, NEW f \in Frames, f.grant \in {Top.grant, NoTicket},
           frames' = Replace(f), held' = held, NEW t \in Tickets, Granted(t)'
    PROVE  Granted(t)
<1>0. frames \in Seq(Frames) /\ Len(frames) \in 1 .. Len(frames)
    BY TopType DEF TypeOK
<1>1. CASE t \in held'
    BY <1>1 DEF Granted
<1>2. CASE \E i \in 1 .. Len(frames') : frames'[i].grant = t
    <2>1. PICK i \in 1 .. Len(frames') : frames'[i].grant = t
        BY <1>2
    <2>2. i \in 1 .. Len(frames) /\ frames'[i] = IF i = Len(frames) THEN f ELSE frames[i]
        BY <1>0, <2>1 DEF Replace
    <2> QED
        BY <1>0, <2>1, <2>2, NoTicketIsNone DEF Granted, Top
<1> QED
    BY <1>1, <1>2 DEF Granted

\* Ending the running delivery grants at most what its frame held.
LEMMA PopGrants ==
    ASSUME TypeOK, frames # <<>>, frames' = SubSeq(frames, 1, Len(frames) - 1),
           held' \subseteq held \cup {Top.grant}, NEW t \in Tickets, Granted(t)'
    PROVE  Granted(t)
<1>0. frames \in Seq(Frames) /\ Len(frames) \in 1 .. Len(frames)
    BY TopType DEF TypeOK
<1>1. CASE t \in held'
    BY <1>0, <1>1 DEF Granted, Top
<1>2. CASE \E i \in 1 .. Len(frames') : frames'[i].grant = t
    BY <1>0, <1>2 DEF Granted
<1> QED
    BY <1>1, <1>2 DEF Granted

\* A new delivery grants the ticket in its frame.
LEMMA AppendGrants ==
    ASSUME TypeOK, NEW f \in Frames, frames' = Append(frames, f), held' = held,
           NEW t \in Tickets, Granted(t)'
    PROVE  Granted(t) \/ f.grant = t
<1>0. frames \in Seq(Frames)
    BY DEF TypeOK
<1>1. CASE t \in held'
    BY <1>1 DEF Granted
<1>2. CASE \E i \in 1 .. Len(frames') : frames'[i].grant = t
    BY <1>0, <1>2 DEF Granted
<1> QED
    BY <1>1, <1>2 DEF Granted
-----------------------------------------------------------------------------
\* The steps of deliveries and of the holders of tickets leave the window and its
\* backend alone, and grant nothing new.
LEMMA TicketStep ==
    ASSUME TypeOK, DeliveryNext \/ TicketNext
    PROVE  /\ UNCHANGED <<windowVars, backendVars>>
           /\ TicketType'
           /\ \A t \in Tickets : Granted(t)' => Granted(t)
<1>0. TicketType
    BY TypeParts
<1>1. CASE BoundsDone
    <2> DEFINE f == [stage |-> "deliver", left |-> Top.left, grant |-> Top.grant]
    <2>1. f \in Frames /\ frames # <<>> /\ frames' = Replace(f) /\ held' = held
        BY <1>1, TopType DEF BoundsDone, Frames
    <2>2. f.grant = Top.grant
        OBVIOUS
    <2>3. TicketType'
        BY <1>0, <1>1, <2>1, TopType DEF BoundsDone, TicketType
    <2> HIDE DEF f
    <2> QED
        BY <1>1, <2>1, <2>2, <2>3, ReplaceGrants DEF BoundsDone
<1>2. CASE BoundsPanic
    <2>1. observer' \in [Observers -> {"unused", "waiting", "removed", "called", "lost"}]
        BY <1>0, <1>2 DEF BoundsPanic, TicketType
    <2>2. TicketType'
        BY <1>0, <1>2, <2>1, TopType DEF BoundsPanic, TicketType
    <2> QED
        BY <1>2, <2>2, PopGrants DEF BoundsPanic
<1>3. CASE DeliverNext
    <2>1. PICK o \in Top.left : /\ frames # <<>>
                                /\ frames' = Replace([stage |-> "callback", left |-> Top.left \ {o},
                                                      grant |-> Top.grant])
                                /\ observer' = [observer EXCEPT ![o] = "called"]
        BY <1>3 DEF DeliverNext
    <2> DEFINE f == [stage |-> "callback", left |-> Top.left \ {o}, grant |-> Top.grant]
    <2>2. f \in Frames /\ frames' = Replace(f) /\ f.grant = Top.grant
        BY <2>1, TopType DEF Frames
    <2> HIDE DEF f
    <2>3. TicketType'
        BY <1>0, <1>3, <2>1, <2>2, TopType DEF DeliverNext, TicketType
    <2> QED
        BY <1>3, <2>1, <2>2, <2>3, ReplaceGrants DEF DeliverNext
<1>4. CASE DeliveryEnds
    <2>1. held' \subseteq Tickets
        BY <1>0, <1>4, TopType DEF DeliveryEnds, TicketType
    <2>2. TicketType'
        BY <1>0, <1>4, <2>1, TopType DEF DeliveryEnds, TicketType
    <2> QED
        BY <1>4, <2>2, PopGrants DEF DeliveryEnds
<1>5. ASSUME NEW panics \in BOOLEAN, CallbackEnds(panics)
      PROVE  /\ UNCHANGED <<windowVars, backendVars>>
             /\ TicketType'
             /\ \A t \in Tickets : Granted(t)' => Granted(t)
    <2> DEFINE f == [stage |-> "deliver", left |-> Top.left,
                     grant |-> IF panics THEN NoTicket ELSE Top.grant]
    <2>1. f \in Frames /\ frames # <<>> /\ frames' = Replace(f) /\ held' = held
        BY <1>5, TopType DEF CallbackEnds, Frames
    <2>2. f.grant \in {Top.grant, NoTicket}
        OBVIOUS
    <2> HIDE DEF f
    <2>3. TicketType'
        BY <1>0, <1>5, <2>1, TopType DEF CallbackEnds, TicketType
    <2> QED
        BY <1>5, <2>1, <2>2, <2>3, ReplaceGrants DEF CallbackEnds
<1>6. ASSUME NEW t \in held, Subscribe(t)
      PROVE  /\ UNCHANGED <<windowVars, backendVars>> /\ TicketType'
             /\ UNCHANGED <<held, frames>>
    <2>1. TicketType'
        BY <1>0, <1>6 DEF Subscribe, TicketType
    <2> QED
        BY <1>6, <2>1 DEF Subscribe
<1>7. ASSUME NEW o \in Observers, Cancel(o)
      PROVE  /\ UNCHANGED <<windowVars, backendVars>> /\ TicketType'
             /\ UNCHANGED <<held, frames>>
    <2>1. TicketType'
        BY <1>0, <1>7 DEF Cancel, TicketType
    <2> QED
        BY <1>7, <2>1 DEF Cancel
<1>8. ASSUME UNCHANGED <<held, frames>>, NEW t, Granted(t)' PROVE Granted(t)
    BY <1>8 DEF Granted
<1> QED
    BY <1>1, <1>2, <1>3, <1>4, <1>5, <1>6, <1>7, <1>8 DEF DeliveryNext, TicketNext

\* What closing and quiescing settle: the pending tickets of the domains, and no other.
LEMMA SettledTickets ==
    ASSUME TypeOK, NEW ds \in SUBSET Domains, NEW outcome,
           SettleDomains(ds, outcome), NEW d \in Domains, NEW g \in Generations
    PROVE  terminal'[<<d, g>>] =
             IF d \in ds /\ g = pending[d] /\ terminal[<<d, g>>] = "none"
             THEN outcome ELSE terminal[<<d, g>>]
<1> DEFINE ts == UNION {Unsettled(e) : e \in ds}
<1>1. <<d, g>> \in ts <=> \E e \in ds : <<d, g>> \in Unsettled(e)
    OBVIOUS
<1>2. \A e \in ds : <<d, g>> \in Unsettled(e) <=> d = e /\ g = pending[e]
    BY UnsettledType
<1>3. terminal' = Settle(ts, outcome)
    BY DEF SettleDomains
<1> HIDE DEF ts
<1> QED
    BY <1>1, <1>2, <1>3 DEF Settle, Tickets

LEMMA SettleDomainsStep ==
    ASSUME TypeOK, NEW ds \in SUBSET Domains, NEW outcome \in Outcomes,
           SettleDomains(ds, outcome), held' = held
    PROVE  /\ terminal' \in [Tickets -> Outcomes]
           /\ pending' \in [Domains -> 0 .. MaxGeneration]
           /\ \A d \in Domains : pending'[d] = IF d \in ds THEN 0 ELSE pending[d]
           /\ work' \in [Domains -> 0 .. MaxGeneration]
           /\ frames' \in Seq(Frames)
           /\ \A t \in Tickets : Granted(t)' => Granted(t)
<1> DEFINE ts == UNION {Unsettled(d) : d \in ds}
           f == [stage |-> "deliver", left |-> WaitingOn(ts), grant |-> NoTicket]
<1>1. terminal' = Settle(ts, outcome) /\ frames' = Append(frames, f)
    BY DEF SettleDomains
<1>2. f \in Frames /\ f.grant = NoTicket
    BY DEF Frames, WaitingOn
<1>3. frames' \in Seq(Frames)
    BY <1>1, <1>2 DEF TypeOK
<1>4. \A t \in Tickets : Granted(t)' => Granted(t)
    <2> HIDE DEF f
    <2> QED
        BY <1>1, <1>2, AppendGrants, NoTicketIsNone
<1>5. terminal' \in [Tickets -> Outcomes]
    <2> HIDE DEF ts
    <2> QED
        BY <1>1, SettleType
<1>6. /\ pending' \in [Domains -> 0 .. MaxGeneration]
      /\ \A d \in Domains : pending'[d] = IF d \in ds THEN 0 ELSE pending[d]
      /\ work' \in [Domains -> 0 .. MaxGeneration]
    BY MutationConstants DEF SettleDomains, TypeOK
<1> QED
    BY <1>3, <1>4, <1>5, <1>6

\* What request_window_mutation does: the new generation is pending or settled at once,
\* and the older ticket of the domain is settled.
RequestEffect(d, g, outcome, new) ==
    /\ new \in {facts, Committed(native)} /\ facts' = new
    /\ g \in Generations
    /\ last_generation' = [last_generation EXCEPT ![d] = g]
    /\ pending' = [pending EXCEPT ![d] = IF outcome = "none" THEN g ELSE 0]
    /\ terminal' \in [Tickets -> Outcomes]
    /\ terminal'[<<d, g>>] = outcome
    /\ \A e \in Domains, h \in Generations :
         <<e, h>> # <<d, g>> =>
           terminal'[<<e, h>>] = IF e = d /\ h = pending[d] /\ terminal[<<e, h>>] = "none"
                                 THEN "superseded" ELSE terminal[<<e, h>>]
    /\ work' \in [Domains -> 0 .. MaxGeneration]
    /\ frames' \in Seq(Frames)
    /\ \A t \in Tickets : Granted(t)' => Granted(t) \/ (t = <<d, g>> /\ outcome = "none")

LEMMA RequestStep ==
    ASSUME TypeOK, NEW d \in Domains, NEW value \in BOOLEAN, NEW reply \in Replies,
           Request(d, value, reply)
    PROVE  \E outcome \in Outcomes, new \in Facts :
             RequestEffect(d, last_generation[d] + 1, outcome, new)
<1> DEFINE g == last_generation[d] + 1
           result == DispatchOutcome(d, value, reply)
           settled == Settle(Superseded(d), "superseded")
           f == [stage |-> "deliver", left |-> WaitingOn(Superseded(d)),
                 grant |-> IF result[1] = "none" THEN <<d, g>> ELSE NoTicket]
<1>1. result[1] \in Outcomes /\ result[2] \in Facts /\ result[2] \in {facts, Committed(native)}
    BY DispatchOutcomeType
<1>2. /\ g \in Generations
      /\ last_generation' = [last_generation EXCEPT ![d] = g]
      /\ pending' = [pending EXCEPT ![d] = IF result[1] = "none" THEN g ELSE 0]
      /\ terminal' = [settled EXCEPT ![<<d, g>>] = result[1]]
      /\ facts' = result[2]
      /\ work' = [work EXCEPT ![d] = IF result[1] = "none" THEN g ELSE 0]
      /\ frames' = Append(frames, f) /\ held' = held
    BY DEF Request, Allocates
<1>3. f \in Frames /\ f.grant = IF result[1] = "none" THEN <<d, g>> ELSE NoTicket
    BY <1>2 DEF Frames, WaitingOn, Tickets
<1>4. frames' \in Seq(Frames)
    BY <1>2, <1>3 DEF TypeOK
<1>5. settled \in [Tickets -> Outcomes] /\ <<d, g>> \in Tickets
    BY <1>2, SettleType DEF Outcomes, Tickets
<1>6. ASSUME NEW e \in Domains, NEW h \in Generations
      PROVE settled[<<e, h>>] = IF e = d /\ h = pending[d] /\ terminal[<<e, h>>] = "none"
                                THEN "superseded" ELSE terminal[<<e, h>>]
    BY UnsettledType DEF Settle, Superseded, Tickets
<1> HIDE DEF settled
<1>7. /\ terminal' \in [Tickets -> Outcomes] /\ terminal'[<<d, g>>] = result[1]
      /\ \A e \in Domains, h \in Generations :
           <<e, h>> # <<d, g>> =>
             terminal'[<<e, h>>] = IF e = d /\ h = pending[d] /\ terminal[<<e, h>>] = "none"
                                   THEN "superseded" ELSE terminal[<<e, h>>]
    BY <1>1, <1>2, <1>5, <1>6 DEF Tickets
<1>8. work' \in [Domains -> 0 .. MaxGeneration]
    BY <1>2, MutationConstants DEF TypeOK, Generations
<1>9. \A t \in Tickets : Granted(t)' => Granted(t) \/ (t = <<d, g>> /\ result[1] = "none")
    <2> HIDE DEF f, result, g
    <2> QED
        BY <1>2, <1>3, AppendGrants, NoTicketIsNone
<1> HIDE DEF result, g
<1>10. RequestEffect(d, g, result[1], result[2])
    BY <1>1, <1>2, <1>4, <1>7, <1>8, <1>9 DEF RequestEffect
<1> QED
    BY <1>1, <1>10 DEF g

\* What a current answer does.
LEMMA ObserveStep ==
    ASSUME TypeOK, QueuedIsAnswered, Observe, IsCurrent(Head(answers)), ~removed
    PROVE  \E d \in Domains, outcome \in Outcomes \ {"none"}, new \in Facts :
             /\ facts' = Committed(new)
             /\ pending[d] \in Generations /\ <<d, pending[d]>> \in answered
             /\ committed_generation' = [committed_generation EXCEPT ![d] = pending[d]]
             /\ pending' = [pending EXCEPT ![d] = 0]
             /\ terminal' \in [Tickets -> Outcomes]
             /\ \A e \in Domains, h \in Generations :
                  terminal'[<<e, h>>] = IF e = d /\ h = pending[d] /\ terminal[<<e, h>>] = "none"
                                        THEN outcome ELSE terminal[<<e, h>>]
             /\ frames' \in Seq(Frames)
             /\ \A t \in Tickets : Granted(t)' => Granted(t)
<1> DEFINE answer == Head(answers)
           d == answer.domain
           outcome == TerminalOutcome(answer, request[<<d, pending[d]>>], Committed(answer.facts))
           f == [stage |-> "bounds", left |-> WaitingOn(Unsettled(d)), grant |-> NoTicket]
<1>1. answer \in Answers /\ answer = answers[1] /\ 1 \in 1 .. Len(answers)
    BY DEF Observe, TypeOK
<1>2. /\ d \in Domains /\ answer.facts \in Facts /\ answer.generation \in Generations
      /\ answer.terminal \in Terminals /\ pending[d] = answer.generation
    BY <1>1 DEF Answers, IsCurrent
<1>3. outcome \in Outcomes \ {"none"}
    BY <1>2, MutationConstants DEF TerminalOutcome, Outcomes, Terminals
<1>4. <<d, pending[d]>> \in answered
    BY <1>1, <1>2 DEF QueuedIsAnswered
<1>5. /\ facts' = Committed(answer.facts)
      /\ committed_generation' = [committed_generation EXCEPT ![d] = pending[d]]
      /\ pending' = [pending EXCEPT ![d] = 0]
      /\ terminal' = Settle(Unsettled(d), outcome)
      /\ frames' = <<f>> /\ held' = held /\ frames = <<>>
    BY DEF Observe, WithoutTicket
<1>6. f \in Frames /\ f.grant = NoTicket
    BY DEF Frames, WaitingOn
<1>7. frames' \in Seq(Frames) /\ \A t \in Tickets : Granted(t)' => Granted(t)
    <2> HIDE DEF f
    <2>1. frames' = Append(frames, f)
        BY <1>5
    <2> QED
        BY <1>5, <1>6, <2>1, AppendGrants, NoTicketIsNone DEF TypeOK
<1> HIDE DEF outcome, d
<1>8. terminal' \in [Tickets -> Outcomes]
    BY <1>3, <1>5, SettleType
<1>9. \A e \in Domains, h \in Generations :
         terminal'[<<e, h>>] = IF e = d /\ h = pending[d] /\ terminal[<<e, h>>] = "none"
                               THEN outcome ELSE terminal[<<e, h>>]
    BY <1>2, <1>5, UnsettledType DEF Settle, Tickets
<1> QED
    BY <1>2, <1>3, <1>4, <1>5, <1>7, <1>8, <1>9
-----------------------------------------------------------------------------
LEMMA TypeStep == TypeOK /\ QueuedIsAnswered /\ Next => TypeOK'
<1> SUFFICES ASSUME TypeOK, QueuedIsAnswered, Next PROVE TypeOK'
    OBVIOUS
<1>0. WindowType /\ BackendType /\ TicketType
    BY TypeParts
<1>1. ASSUME NEW d \in Domains, NEW value \in BOOLEAN, NEW reply \in Replies,
             Request(d, value, reply)
      PROVE TypeOK'
    <2>1. /\ last_generation' \in [Domains -> 0 .. MaxGeneration]
          /\ pending' \in [Domains -> 0 .. MaxGeneration]
          /\ terminal' \in [Tickets -> Outcomes] /\ facts' \in Facts
          /\ work' \in [Domains -> 0 .. MaxGeneration] /\ frames' \in Seq(Frames)
        <3> DEFINE g == last_generation[d] + 1
        <3>1. PICK outcome \in Outcomes, new \in Facts : RequestEffect(d, g, outcome, new)
            BY <1>1, RequestStep
        <3> HIDE DEF g
        <3>2. /\ facts' \in Facts /\ terminal' \in [Tickets -> Outcomes]
              /\ work' \in [Domains -> 0 .. MaxGeneration] /\ frames' \in Seq(Frames)
            BY <3>1 DEF RequestEffect
        <3>3. /\ g \in 0 .. MaxGeneration /\ 0 \in 0 .. MaxGeneration
              /\ last_generation' = [last_generation EXCEPT ![d] = g]
              /\ pending' = [pending EXCEPT ![d] = IF outcome = "none" THEN g ELSE 0]
            BY <3>1, MutationConstants DEF RequestEffect, Generations
        <3>4. /\ last_generation' \in [Domains -> 0 .. MaxGeneration]
              /\ pending' \in [Domains -> 0 .. MaxGeneration]
            BY <1>0, <3>3 DEF WindowType
        <3> QED
            BY <3>2, <3>4
    <2>2. request' \in [Tickets -> BOOLEAN]
        BY <1>0, <1>1 DEF WindowType, Request
    <2> QED
        BY <1>0, <1>1, <2>1, <2>2 DEF TypeOK, Request, WindowType, BackendType, TicketType
<1>2. CASE Observe
    <2>1. answers' \in Seq(Answers)
        BY <1>0, <1>2 DEF Observe, BackendType
    <2>2. CASE IsCurrent(Head(answers)) /\ ~removed
        <3>1. PICK d \in Domains, outcome \in Outcomes \ {"none"}, new \in Facts :
                 /\ facts' = Committed(new)
                 /\ pending[d] \in Generations
                 /\ committed_generation' = [committed_generation EXCEPT ![d] = pending[d]]
                 /\ pending' = [pending EXCEPT ![d] = 0]
                 /\ terminal' \in [Tickets -> Outcomes]
                 /\ frames' \in Seq(Frames)
            BY <1>2, <2>2, ObserveStep
        <3>2. /\ committed_generation' \in [Domains -> 0 .. MaxGeneration]
              /\ pending' \in [Domains -> 0 .. MaxGeneration]
            BY <1>0, <3>1, MutationConstants DEF WindowType, Generations
        <3>3. facts' \in Facts
            BY <3>1, CommittedType
        <3> QED
            BY <1>0, <1>2, <2>1, <3>1, <3>2, <3>3
               DEF TypeOK, Observe, WindowType, BackendType, TicketType
    <2>3. CASE ~(IsCurrent(Head(answers)) /\ ~removed)
        BY <1>0, <1>2, <2>1, <2>3 DEF TypeOK, Observe, WindowType, BackendType, TicketType
    <2> QED
        BY <2>2, <2>3
<1>3. CASE BoundsChanged
    <2>1. facts' \in Facts
        BY <1>0, <1>3, CommittedType DEF BoundsChanged, BackendType
    <2> QED
        BY <1>0, <1>3, <2>1 DEF TypeOK, BoundsChanged, WindowType, BackendType, TicketType,
           backendVars, ticketVars
<1>4. CASE RemoveWindow
    <2>1. /\ terminal' \in [Tickets -> Outcomes] /\ pending' \in [Domains -> 0 .. MaxGeneration]
          /\ work' \in [Domains -> 0 .. MaxGeneration] /\ frames' \in Seq(Frames)
        BY <1>4, SettleDomainsStep DEF RemoveWindow, Outcomes
    <2> QED
        BY <1>0, <1>4, <2>1 DEF TypeOK, RemoveWindow, WindowType, BackendType, TicketType
<1>5. CASE QuiesceInteraction
    <2>1. /\ terminal' \in [Tickets -> Outcomes] /\ pending' \in [Domains -> 0 .. MaxGeneration]
          /\ work' \in [Domains -> 0 .. MaxGeneration] /\ frames' \in Seq(Frames)
        BY <1>5, SettleDomainsStep, MutationConstants DEF QuiesceInteraction, Outcomes
    <2>2. facts' \in Facts
        <3>1. \A d \in Domains : facts[d] \in BOOLEAN
            BY <1>0 DEF WindowType, Facts
        <3> QED
            BY <1>5, <3>1 DEF QuiesceInteraction, Facts
    <2> QED
        BY <1>0, <1>5, <2>1, <2>2
           DEF TypeOK, QuiesceInteraction, WindowType, BackendType, TicketType
<1>6. CASE DeliveryNext \/ TicketNext
    BY <1>0, <1>6, TicketStep
       DEF TypeOK, WindowType, BackendType, TicketType, windowVars, backendVars
<1>7. ASSUME NEW d \in Domains, NEW outcome \in Terminals, NEW value \in BOOLEAN,
             BackendAnswers(d, outcome, value)
      PROVE TypeOK'
    <2>1. native' \in Facts
        <3>1. \A e \in Domains : native[e] \in BOOLEAN
            BY <1>0 DEF BackendType, Facts
        <3> QED
            BY <1>0, <1>7, <3>1 DEF BackendAnswers, BackendType, Facts
    <2>2. work[d] \in Generations
        BY <1>0, <1>7, MutationConstants DEF BackendAnswers, BackendType, Generations
    <2>3. answers' \in Seq(Answers)
        BY <1>0, <1>7, <2>1, <2>2 DEF BackendAnswers, BackendType, Answers
    <2>4. answered' \subseteq Tickets /\ work' \in [Domains -> 0 .. MaxGeneration]
        BY <1>0, <1>7, <2>2, MutationConstants DEF BackendAnswers, BackendType, Tickets
    <2> QED
        BY <1>0, <1>7, <2>1, <2>3, <2>4
           DEF TypeOK, BackendAnswers, WindowType, TicketType, windowVars, ticketVars
<1>8. ASSUME NEW d \in Domains, NativeChange(d) PROVE TypeOK'
    <2>1. native' \in Facts
        <3>1. \A e \in Domains : native[e] \in BOOLEAN
            BY <1>0 DEF BackendType, Facts
        <3> QED
            BY <1>0, <1>8, <3>1 DEF NativeChange, BackendType, Facts
    <2> QED
        BY <1>0, <1>8, <2>1 DEF TypeOK, NativeChange, WindowType, BackendType, TicketType,
           windowVars, ticketVars
<1>9. CASE NativeClose
    BY <1>0, <1>9 DEF TypeOK, NativeClose, WindowType, BackendType, TicketType, backendVars,
       ticketVars
<1> QED
    BY <1>1, <1>2, <1>3, <1>4, <1>5, <1>6, <1>7, <1>8, <1>9 DEF Next, WindowNext, BackendNext

\* A backend step leaves the window and the tickets alone, and forgets no answer.
LEMMA BackendStep ==
    ASSUME TypeOK, BackendNext
    PROVE  /\ UNCHANGED <<last_generation, committed_generation, pending, terminal, removed,
                          facts, authority, held, frames>>
           /\ answered \subseteq answered'
           /\ QueuedIsAnswered => QueuedIsAnswered'
<1>0. BackendType
    BY TypeParts
<1>1. ASSUME NEW d \in Domains, NEW outcome \in Terminals, NEW value \in BOOLEAN,
             BackendAnswers(d, outcome, value), QueuedIsAnswered
      PROVE QueuedIsAnswered'
    <2> DEFINE a == [domain |-> d, generation |-> work[d], terminal |-> outcome,
                     facts |-> native']
    <2>1. answers' = Append(answers, a) /\ answered' = answered \cup {<<d, work[d]>>}
        BY <1>1 DEF BackendAnswers
    <2>2. a.domain = d /\ a.generation = work[d]
        OBVIOUS
    <2> HIDE DEF a
    <2>3. ASSUME NEW i \in 1 .. Len(answers')
          PROVE <<answers'[i].domain, answers'[i].generation>> \in answered'
        <3>1. CASE i = Len(answers) + 1
            BY <1>0, <2>1, <2>2, <3>1 DEF BackendType
        <3>2. CASE i # Len(answers) + 1
            <4>1. i \in 1 .. Len(answers) /\ answers'[i] = answers[i]
                BY <1>0, <2>1, <2>3, <3>2 DEF BackendType
            <4> QED
                BY <1>1, <2>1, <4>1 DEF QueuedIsAnswered
        <3> QED
            BY <3>1, <3>2
    <2> QED
        BY <2>3 DEF QueuedIsAnswered
<1>2. ASSUME NEW d \in Domains, NEW outcome \in Terminals, NEW value \in BOOLEAN,
             BackendAnswers(d, outcome, value)
      PROVE UNCHANGED <<windowVars, ticketVars>> /\ answered \subseteq answered'
    BY <1>2 DEF BackendAnswers
<1>3. ASSUME \/ \E d \in Domains : NativeChange(d)
             \/ NativeClose
      PROVE  /\ UNCHANGED <<last_generation, committed_generation, pending, terminal, removed,
                            facts, authority, held, frames, answers, answered>>
    BY <1>3 DEF NativeChange, NativeClose, windowVars, backendVars, ticketVars
<1> QED
    BY <1>1, <1>2, <1>3 DEF BackendNext, windowVars, ticketVars, QueuedIsAnswered

LEMMA QueuedStep == TypeOK /\ QueuedIsAnswered /\ Next => QueuedIsAnswered'
<1> SUFFICES ASSUME TypeOK, QueuedIsAnswered, Next PROVE QueuedIsAnswered'
    OBVIOUS
<1>1. CASE Observe
    <2>1. answers' = Tail(answers) /\ answered' = answered /\ answers \in Seq(Answers)
          /\ answers # <<>>
        BY <1>1 DEF Observe, TypeOK
    <2>2. ASSUME NEW i \in 1 .. Len(answers')
          PROVE i + 1 \in 1 .. Len(answers) /\ answers'[i] = answers[i + 1]
        BY <2>1
    <2> QED
        BY <2>1, <2>2 DEF QueuedIsAnswered
<1>2. CASE BackendNext
    BY <1>2, BackendStep
<1>3. CASE DeliveryNext \/ TicketNext
    BY <1>3, TicketStep DEF backendVars, QueuedIsAnswered
<1>4. CASE \/ \E d \in Domains, value \in BOOLEAN, reply \in Replies : Request(d, value, reply)
           \/ BoundsChanged \/ RemoveWindow \/ QuiesceInteraction
    <2>1. answers' = answers /\ answered' = answered
        <3>1. ASSUME NEW d \in Domains, NEW value \in BOOLEAN, NEW reply \in Replies,
                     Request(d, value, reply)
              PROVE  answers' = answers /\ answered' = answered
            BY <3>1 DEF Request
        <3>2. CASE BoundsChanged \/ RemoveWindow \/ QuiesceInteraction
            BY <3>2 DEF BoundsChanged, RemoveWindow, QuiesceInteraction, backendVars
        <3> QED
            BY <1>4, <3>1, <3>2
    <2> QED
        BY <2>1 DEF QueuedIsAnswered
<1> QED
    BY <1>1, <1>2, <1>3, <1>4 DEF Next, WindowNext

LEMMA PendingStep ==
    TypeOK /\ QueuedIsAnswered /\ NewestPending /\ UnsettledIsPending /\ Next
        => NewestPending' /\ UnsettledIsPending'
<1> SUFFICES ASSUME TypeOK, QueuedIsAnswered, NewestPending, UnsettledIsPending, Next
             PROVE NewestPending' /\ UnsettledIsPending'
    OBVIOUS
<1>0. /\ last_generation \in [Domains -> 0 .. MaxGeneration]
      /\ committed_generation \in [Domains -> 0 .. MaxGeneration]
      /\ pending \in [Domains -> 0 .. MaxGeneration] /\ MaxGeneration \in Nat
    BY MutationConstants DEF TypeOK
<1>1. ASSUME NEW d \in Domains, NEW value \in BOOLEAN, NEW reply \in Replies,
             Request(d, value, reply)
      PROVE NewestPending' /\ UnsettledIsPending'
    <2> DEFINE g == last_generation[d] + 1
    <2>1. PICK outcome \in Outcomes, new \in Facts :
             /\ g \in Generations
             /\ last_generation' = [last_generation EXCEPT ![d] = g]
             /\ pending' = [pending EXCEPT ![d] = IF outcome = "none" THEN g ELSE 0]
             /\ terminal'[<<d, g>>] = outcome
             /\ \A e \in Domains, h \in Generations :
                  <<e, h>> # <<d, g>> =>
                    terminal'[<<e, h>>] = IF e = d /\ h = pending[d] /\ terminal[<<e, h>>] = "none"
                                          THEN "superseded" ELSE terminal[<<e, h>>]
        <3>1. PICK outcome \in Outcomes, new \in Facts : RequestEffect(d, g, outcome, new)
            BY <1>1, RequestStep
        <3> HIDE DEF g
        <3> QED
            BY <3>1, Zenon DEF RequestEffect
    <2>2. committed_generation' = committed_generation /\ ~removed /\ removed' = removed
        BY <1>1 DEF Request, Admitted
    <2>3. NewestPending'
        BY <1>0, <2>1, <2>2 DEF NewestPending
    <2>4. ASSUME NEW e \in Domains, NEW h \in Generations
          PROVE h <= last_generation'[e] /\ terminal'[<<e, h>>] = "none"
                  <=> h = pending'[e] /\ h = last_generation'[e]
        <3>1. CASE e # d
            BY <1>0, <2>1, <3>1 DEF UnsettledIsPending, Generations
        <3>2. CASE e = d /\ h = g
            BY <1>0, <2>1, <3>2 DEF Generations
        <3>3. CASE e = d /\ h # g
            <4>1. h <= g => h <= last_generation[d]
                BY <1>0, <3>3 DEF Generations
            <4>2. terminal'[<<e, h>>] = IF h = pending[d] /\ terminal[<<e, h>>] = "none"
                                        THEN "superseded" ELSE terminal[<<e, h>>]
                BY <2>1, <3>3
            <4>3. h <= last_generation[d] => terminal'[<<e, h>>] # "none"
                BY <3>3, <4>2 DEF UnsettledIsPending
            <4> QED
                BY <1>0, <2>1, <3>3, <4>1, <4>3 DEF Generations
        <3> QED
            BY <3>1, <3>2, <3>3
    <2>5. ASSUME NEW e \in Domains, pending'[e] # 0
          PROVE committed_generation'[e] < pending'[e]
        BY <1>0, <2>1, <2>2, <2>5 DEF NewestPending, UnsettledIsPending
    <2> QED
        BY <2>2, <2>3, <2>4, <2>5 DEF UnsettledIsPending
<1>2. ASSUME NEW ds \in SUBSET Domains, NEW outcome \in Outcomes \ {"none"},
             \A d \in Domains, g \in Generations :
                 terminal'[<<d, g>>] =
                   IF d \in ds /\ g = pending[d] /\ terminal[<<d, g>>] = "none"
                   THEN outcome ELSE terminal[<<d, g>>],
             \A d \in Domains : pending'[d] = IF d \in ds THEN 0 ELSE pending[d],
             UNCHANGED <<last_generation, committed_generation>>,
             removed' => removed \/ ds = Domains
      PROVE NewestPending' /\ UnsettledIsPending'
    <2>2. NewestPending'
        BY <1>2 DEF NewestPending
    <2>3. ASSUME NEW e \in Domains, NEW h \in Generations
          PROVE h <= last_generation'[e] /\ terminal'[<<e, h>>] = "none"
                  <=> h = pending'[e] /\ h = last_generation'[e]
        <3>1. CASE e \notin ds
            BY <1>2, <3>1 DEF UnsettledIsPending
        <3>2. CASE e \in ds
            BY <1>2, <3>2 DEF UnsettledIsPending, Generations
        <3> QED
            BY <3>1, <3>2
    <2> QED
        BY <1>2, <2>2, <2>3 DEF UnsettledIsPending
<1>3. CASE RemoveWindow
    <2>1. /\ "closed" \in Outcomes \ {"none"} /\ Domains \in SUBSET Domains
          /\ SettleDomains(Domains, "closed")
        BY <1>3, MutationConstants DEF RemoveWindow, Outcomes
    <2>2. ASSUME NEW e \in Domains, NEW h \in Generations
          PROVE  terminal'[<<e, h>>] =
                   IF e \in Domains /\ h = pending[e] /\ terminal[<<e, h>>] = "none"
                   THEN "closed" ELSE terminal[<<e, h>>]
        BY <2>1, SettledTickets
    <2>3. \A e \in Domains : pending'[e] = IF e \in Domains THEN 0 ELSE pending[e]
        BY <2>1 DEF SettleDomains
    <2>4. /\ UNCHANGED <<last_generation, committed_generation>>
          /\ removed' => removed \/ Domains = Domains
        BY <1>3 DEF RemoveWindow
    <2> QED
        BY <1>2, <2>1, <2>2, <2>3, <2>4
<1>4. CASE QuiesceInteraction
    <2>1. /\ "rejected" \in Outcomes \ {"none"} /\ Gated \in SUBSET Domains
          /\ SettleDomains(Gated, "rejected")
        BY <1>4, MutationConstants DEF QuiesceInteraction, Outcomes
    <2>2. ASSUME NEW e \in Domains, NEW h \in Generations
          PROVE  terminal'[<<e, h>>] =
                   IF e \in Gated /\ h = pending[e] /\ terminal[<<e, h>>] = "none"
                   THEN "rejected" ELSE terminal[<<e, h>>]
        BY <2>1, SettledTickets
    <2>3. \A e \in Domains : pending'[e] = IF e \in Gated THEN 0 ELSE pending[e]
        BY <2>1 DEF SettleDomains
    <2>4. /\ UNCHANGED <<last_generation, committed_generation>>
          /\ removed' => removed \/ Gated = Domains
        BY <1>4 DEF QuiesceInteraction
    <2> QED
        BY <1>2, <2>1, <2>2, <2>3, <2>4
<1>5. CASE Observe /\ IsCurrent(Head(answers)) /\ ~removed
    <2>1. PICK d \in Domains, outcome \in Outcomes \ {"none"}, new \in Facts :
             /\ pending[d] \in Generations
             /\ committed_generation' = [committed_generation EXCEPT ![d] = pending[d]]
             /\ pending' = [pending EXCEPT ![d] = 0]
             /\ \A e \in Domains, h \in Generations :
                  terminal'[<<e, h>>] = IF e = d /\ h = pending[d] /\ terminal[<<e, h>>] = "none"
                                        THEN outcome ELSE terminal[<<e, h>>]
        BY <1>5, ObserveStep
    <2>2. last_generation' = last_generation /\ removed' = removed
        BY <1>5 DEF Observe
    <2>3. NewestPending'
        BY <1>0, <2>1, <2>2 DEF NewestPending, Generations
    <2>4. ASSUME NEW e \in Domains, NEW h \in Generations
          PROVE h <= last_generation'[e] /\ terminal'[<<e, h>>] = "none"
                  <=> h = pending'[e] /\ h = last_generation'[e]
        <3>1. CASE e # d
            BY <1>0, <2>1, <2>2, <3>1 DEF UnsettledIsPending
        <3>2. CASE e = d
            BY <1>0, <2>1, <2>2, <3>2 DEF UnsettledIsPending, Generations
        <3> QED
            BY <3>1, <3>2
    <2> QED
        BY <1>0, <1>5, <2>1, <2>2, <2>3, <2>4 DEF UnsettledIsPending
<1>6. ASSUME UNCHANGED <<last_generation, committed_generation, pending, terminal, removed>>
      PROVE NewestPending' /\ UnsettledIsPending'
    BY <1>6 DEF NewestPending, UnsettledIsPending
<1>7. CASE Observe /\ ~(IsCurrent(Head(answers)) /\ ~removed)
    BY <1>6, <1>7 DEF Observe
<1>8. CASE BoundsChanged
    BY <1>6, <1>8 DEF BoundsChanged
<1>9. CASE DeliveryNext \/ TicketNext
    BY <1>6, <1>9, TicketStep DEF windowVars
<1>10. CASE BackendNext
    BY <1>6, <1>10, BackendStep
<1> QED
    BY <1>1, <1>3, <1>4, <1>5, <1>7, <1>8, <1>9, <1>10 DEF Next, WindowNext

LEMMA QuietStep == TypeOK /\ QuiescedStaysQuiet /\ QueuedIsAnswered /\ Next => QuiescedStaysQuiet'
<1> SUFFICES ASSUME TypeOK, QuiescedStaysQuiet, QueuedIsAnswered, Next,
                    authority' = "quiesced", NEW d \in Gated
             PROVE ~facts'[d] /\ pending'[d] = 0
    BY DEF QuiescedStaysQuiet
<1>0. d \in Domains /\ Gated \subseteq Domains /\ pending \in [Domains -> 0 .. MaxGeneration]
    BY MutationConstants DEF TypeOK
<1>1. ASSUME NEW e \in Domains, NEW value \in BOOLEAN, NEW reply \in Replies,
             Request(e, value, reply)
      PROVE ~facts'[d] /\ pending'[d] = 0
    <2>1. authority = "quiesced" /\ e # d
        BY <1>1 DEF Request, Admitted
    <2>2. facts' \in {facts, Committed(native)}
        BY <1>1, RequestStep DEF RequestEffect
    <2>3. ~facts'[d]
        BY <2>1, <2>2, CommittedMasks DEF QuiescedStaysQuiet
    <2> QED
        BY <1>0, <1>1, <2>1, <2>3 DEF Request, QuiescedStaysQuiet
<1>2. CASE Observe /\ IsCurrent(Head(answers)) /\ ~removed
    <2>1. PICK e \in Domains, outcome \in Outcomes \ {"none"}, new \in Facts :
             facts' = Committed(new) /\ pending' = [pending EXCEPT ![e] = 0]
        BY <1>2, ObserveStep
    <2>2. authority = "quiesced"
        BY <1>2 DEF Observe
    <2> QED
        BY <1>0, <2>1, <2>2, CommittedMasks DEF QuiescedStaysQuiet
<1>3. CASE BoundsChanged
    BY <1>3, CommittedMasks DEF BoundsChanged, QuiescedStaysQuiet
<1>4. CASE RemoveWindow
    <2>1. authority = "quiesced" /\ facts' = facts /\ pending'[d] = 0
        BY <1>0, <1>4 DEF RemoveWindow, SettleDomains
    <2> QED
        BY <2>1 DEF QuiescedStaysQuiet
<1>5. CASE QuiesceInteraction
    BY <1>0, <1>5 DEF QuiesceInteraction, SettleDomains
<1>6. ASSUME UNCHANGED <<authority, facts, pending>> PROVE ~facts'[d] /\ pending'[d] = 0
    BY <1>6 DEF QuiescedStaysQuiet
<1>7. CASE Observe /\ ~(IsCurrent(Head(answers)) /\ ~removed)
    BY <1>6, <1>7 DEF Observe
<1>8. CASE DeliveryNext \/ TicketNext
    BY <1>6, <1>8, TicketStep DEF windowVars
<1>9. CASE BackendNext
    BY <1>6, <1>9, BackendStep
<1> QED
    BY <1>1, <1>2, <1>3, <1>4, <1>5, <1>7, <1>8, <1>9 DEF Next, WindowNext

LEMMA GrantedStep ==
    TypeOK /\ QueuedIsAnswered /\ NewestPending /\ GrantedFits /\ Next => GrantedFits'
<1> SUFFICES ASSUME TypeOK, QueuedIsAnswered, NewestPending, GrantedFits, Next,
                    NEW d \in Domains, NEW g \in Generations, Granted(<<d, g>>)'
             PROVE  /\ g <= last_generation'[d]
                    /\ terminal'[<<d, g>>] \in {"exact", "adjusted"} => <<d, g>> \in answered'
    BY DEF GrantedFits
<1>0. last_generation \in [Domains -> 0 .. MaxGeneration] /\ <<d, g>> \in Tickets
    BY DEF TypeOK, Tickets
<1>a. Granted(<<d, g>>) =>
        /\ g <= last_generation[d]
        /\ terminal[<<d, g>>] \in {"exact", "adjusted"} => <<d, g>> \in answered
    BY DEF GrantedFits
<1> DEFINE Goal == /\ g <= last_generation'[d]
                   /\ terminal'[<<d, g>>] \in {"exact", "adjusted"} => <<d, g>> \in answered'
<1>1. ASSUME NEW e \in Domains, NEW value \in BOOLEAN, NEW reply \in Replies,
             Request(e, value, reply)
      PROVE Goal
    <2> DEFINE n == last_generation[e] + 1
    <2>1. PICK outcome \in Outcomes, new \in Facts :
             /\ last_generation' = [last_generation EXCEPT ![e] = n]
             /\ terminal'[<<e, n>>] = outcome
             /\ \A c \in Domains, h \in Generations :
                  <<c, h>> # <<e, n>> =>
                    terminal'[<<c, h>>] = IF c = e /\ h = pending[e] /\ terminal[<<c, h>>] = "none"
                                          THEN "superseded" ELSE terminal[<<c, h>>]
             /\ \A t \in Tickets : Granted(t)' => Granted(t) \/ (t = <<e, n>> /\ outcome = "none")
        <3>1. PICK outcome \in Outcomes, new \in Facts : RequestEffect(e, n, outcome, new)
            BY <1>1, RequestStep
        <3> HIDE DEF n
        <3> QED
            BY <3>1, Zenon DEF RequestEffect
    <2>2. answered' = answered
        BY <1>1 DEF Request
    <2>3. CASE <<d, g>> = <<e, n>>
        <3>1. ~Granted(<<d, g>>)
            BY <1>0, <1>a, <2>3
        <3>2. outcome = "none" /\ d = e /\ g = n
            BY <1>0, <2>1, <2>3, <3>1
        <3> QED
            BY <1>0, <2>1, <3>2
    <2>4. CASE <<d, g>> # <<e, n>>
        <3>1. Granted(<<d, g>>)
            BY <1>0, <2>1, <2>4
        <3>2. last_generation[d] <= last_generation'[d]
            BY <1>0, <2>1
        <3> QED
            BY <1>0, <1>a, <2>1, <2>2, <2>4, <3>1, <3>2 DEF Generations
    <2> QED
        BY <2>3, <2>4
<1>2. CASE RemoveWindow
    <2>1. /\ "closed" \in Outcomes /\ Domains \in SUBSET Domains
          /\ SettleDomains(Domains, "closed") /\ held' = held
        BY <1>2, MutationConstants DEF RemoveWindow, Outcomes
    <2>2. ASSUME NEW e \in Domains, NEW h \in Generations
          PROVE  terminal'[<<e, h>>] =
                   IF e \in Domains /\ h = pending[e] /\ terminal[<<e, h>>] = "none"
                   THEN "closed" ELSE terminal[<<e, h>>]
        BY <2>1, SettledTickets
    <2>3. \A t \in Tickets : Granted(t)' => Granted(t)
        BY <2>1, SettleDomainsStep
    <2>4. UNCHANGED <<last_generation, answered>>
        BY <1>2 DEF RemoveWindow
    <2> QED
        BY <1>0, <1>a, <2>2, <2>3, <2>4
<1>3. CASE QuiesceInteraction
    <2>1. /\ "rejected" \in Outcomes /\ Gated \in SUBSET Domains
          /\ SettleDomains(Gated, "rejected") /\ held' = held
        BY <1>3, MutationConstants DEF QuiesceInteraction, Outcomes
    <2>2. ASSUME NEW e \in Domains, NEW h \in Generations
          PROVE  terminal'[<<e, h>>] =
                   IF e \in Gated /\ h = pending[e] /\ terminal[<<e, h>>] = "none"
                   THEN "rejected" ELSE terminal[<<e, h>>]
        BY <2>1, SettledTickets
    <2>3. \A t \in Tickets : Granted(t)' => Granted(t)
        BY <2>1, SettleDomainsStep
    <2>4. UNCHANGED <<last_generation, answered>>
        BY <1>3 DEF QuiesceInteraction
    <2> QED
        BY <1>0, <1>a, <2>2, <2>3, <2>4
<1>4. CASE Observe /\ IsCurrent(Head(answers)) /\ ~removed
    <2>1. PICK e \in Domains, outcome \in Outcomes \ {"none"}, new \in Facts :
             /\ <<e, pending[e]>> \in answered
             /\ \A c \in Domains, h \in Generations :
                  terminal'[<<c, h>>] = IF c = e /\ h = pending[e] /\ terminal[<<c, h>>] = "none"
                                        THEN outcome ELSE terminal[<<c, h>>]
             /\ \A t \in Tickets : Granted(t)' => Granted(t)
        BY <1>4, ObserveStep
    <2>2. UNCHANGED <<last_generation, answered>>
        BY <1>4 DEF Observe
    <2> QED
        BY <1>0, <1>a, <2>1, <2>2
<1>5. ASSUME UNCHANGED <<last_generation, terminal>>, answered \subseteq answered',
             Granted(<<d, g>>)
      PROVE Goal
    BY <1>5, <1>a
<1>6. ASSUME UNCHANGED <<held, frames>> PROVE Granted(<<d, g>>)
    BY <1>6 DEF Granted
<1>7. CASE Observe /\ ~(IsCurrent(Head(answers)) /\ ~removed)
    BY <1>5, <1>6, <1>7 DEF Observe
<1>8. CASE BoundsChanged
    BY <1>5, <1>6, <1>8 DEF BoundsChanged, backendVars, ticketVars
<1>9. CASE DeliveryNext \/ TicketNext
    BY <1>0, <1>5, <1>9, TicketStep DEF windowVars, backendVars
<1>10. CASE BackendNext
    BY <1>5, <1>6, <1>10, BackendStep
<1> QED
    BY <1>1, <1>2, <1>3, <1>4, <1>7, <1>8, <1>9, <1>10 DEF Next, WindowNext
-----------------------------------------------------------------------------
LEMMA Initially == Init => IInv
<1> SUFFICES ASSUME Init PROVE IInv
    OBVIOUS
<1>1. TypeOK
    <2>1. facts \in Facts /\ native \in Facts /\ frames \in Seq(Frames) /\ answers \in Seq(Answers)
        BY DEF Init
    <2>2. /\ pending \in [Domains -> 0 .. MaxGeneration]
          /\ last_generation \in [Domains -> 0 .. MaxGeneration]
          /\ committed_generation \in [Domains -> 0 .. MaxGeneration]
          /\ work \in [Domains -> 0 .. MaxGeneration]
        BY MutationConstants DEF Init
    <2> QED
        BY <2>1, <2>2 DEF Init, TypeOK, Outcomes
<1>2. NewestPending /\ QueuedIsAnswered /\ QuiescedStaysQuiet
    BY DEF Init, NewestPending, QueuedIsAnswered, QuiescedStaysQuiet
<1>3. UnsettledIsPending
    BY DEF Init, UnsettledIsPending, Generations
<1>4. GrantedFits
    BY DEF Init, GrantedFits, Granted
<1> QED
    BY <1>1, <1>2, <1>3, <1>4 DEF IInv

LEMMA Inductive == IInv /\ [Next]_mutationVars => IInv'
<1> SUFFICES ASSUME IInv, [Next]_mutationVars PROVE IInv'
    OBVIOUS
<1>1. CASE Next
    BY <1>1, TypeStep, QueuedStep, PendingStep, QuietStep, GrantedStep DEF IInv
<1>2. CASE UNCHANGED mutationVars
    <2>1. TypeOK'
        BY <1>2 DEF IInv, TypeOK, mutationVars, windowVars, backendVars, ticketVars
    <2>2. NewestPending' /\ QueuedIsAnswered' /\ QuiescedStaysQuiet' /\ UnsettledIsPending'
        BY <1>2 DEF IInv, NewestPending, QueuedIsAnswered, QuiescedStaysQuiet,
           UnsettledIsPending, mutationVars, windowVars, backendVars, ticketVars
    <2>3. GrantedFits'
        BY <1>2 DEF IInv, GrantedFits, Granted, mutationVars, windowVars, backendVars, ticketVars
    <2> QED
        BY <2>1, <2>2, <2>3 DEF IInv
<1> QED
    BY <1>1, <1>2

LEMMA Invariance == Spec => []IInv
BY Initially, Inductive, PTL DEF Spec

\* Requests, tickets, answers and deliveries in progress are well typed, however deeply
\* requests made inside callbacks nest (window_platform_mutation.rs).
THEOREM TypeCorrect == Spec => []TypeOK
<1>1. IInv => TypeOK
    BY DEF IInv
<1> QED
    BY <1>1, Invariance, PTL

\* Whatever requests, answers, quiescence and removal do in whatever order, the tickets
\* begun and not settled are the pending ones, each the newest of its domain
\* (begin, settle_from_terminal_facts, settle_all).
THEOREM NoTicketForgotten == Spec => []UnsettledIsPending
<1>1. IInv => UnsettledIsPending
    BY DEF IInv
<1> QED
    BY <1>1, Invariance, PTL

\* A caller's ticket never reports success on account of an answer that is not its own
\* (is_current_generation, window_mutation_observed).
THEOREM SuccessIsOwn == Spec => []OutcomeFromOwnAnswer
<1>1. IInv => OutcomeFromOwnAnswer
    <2> SUFFICES ASSUME IInv, NEW t \in held, terminal[t] \in {"exact", "adjusted"}
                 PROVE t \in answered
        BY DEF OutcomeFromOwnAnswer
    <2>1. PICK d \in Domains, g \in Generations : t = <<d, g>>
        BY DEF IInv, TypeOK, Tickets
    <2> QED
        BY <2>1 DEF IInv, GrantedFits, Granted
<1> QED
    BY <1>1, Invariance, PTL

\* No snapshot of the native window, however late, makes a quiesced window report that it
\* accepts input, and no request that could grant it is pending (quiesce_interaction,
\* commit_platform_facts).
THEOREM QuiescenceLasts == Spec => []QuiescedStaysQuiet
<1>1. IInv => QuiescedStaysQuiet
    BY DEF IInv
<1> QED
    BY <1>1, Invariance, PTL
===============================================================================

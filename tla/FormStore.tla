------------------------------- MODULE FormStore -------------------------------
(***************************************************************************)
(* crates/form: the form store and its debounce queue.  Validation and     *)
(* submission run elsewhere and come back with a ticket, late, twice or    *)
(* after the form changed.  Values are compared only, so they are members  *)
(* of a set; the errors of a field are present or absent.                  *)
(***************************************************************************)
EXTENDS Naturals, FiniteSets

CONSTANTS
    Fields,         \* field paths
    Values,         \* field values
    MaxRevision,    \* where the revision counters saturate (u64::MAX in the code)
    MaxGeneration   \* where next_generation gives up (u64::MAX in the code)

ASSUME FormConstants ==
    MaxRevision \in Nat \ {0} /\ MaxGeneration \in Nat \ {0} /\ Values # {}

VARIABLES
    registered,     \* fields in the map
    initial_value, value, value_revision,
    invalid,        \* fields with errors
    validating,     \* fields whose meta.validating is set
    active_validation_generation,   \* 0 for None
    marked,         \* some field is touched or visited: flags nothing else reads
    dirty,
    phase,          \* the SubmissionPhase
    submission,     \* the ticket of the submission in progress, NoSubmit for none
    errors,         \* a form-level error is recorded
    form_revision, next_validation_generation, next_submit_generation,
    queue,          \* DebouncedValidationQueue::pending
    validations,    \* validation tickets handed out; they may be cloned
    submits,        \* submission tickets handed out
    judged,         \* history: the value the last verdict on a field was about
    submitted_data  \* history: the registered values when submission began

fieldVars == <<registered, initial_value, value, value_revision, invalid, validating,
               active_validation_generation, marked, dirty, judged>>
formVars == <<phase, submission, errors, form_revision, submitted_data>>
ticketVars == <<next_validation_generation, next_submit_generation, queue, validations,
                submits>>
storeVars == <<fieldVars, formVars, ticketVars>>

Generations == 1 .. MaxGeneration
Revisions == 0 .. MaxRevision

\* about is history: the value the validator was given.
ValidationTickets == [path : Fields, value_revision : Revisions, generation : Generations,
                      about : Values]
SubmitTickets == [form_revision : Revisions, generation : Generations]
NoSubmit == [form_revision |-> 0, generation |-> 0]
Phases == {"idle", "submitting", "submitted", "failed"}

SaturatingIncrement(n) == IF n = MaxRevision THEN n ELSE n + 1
Data == {<<f, value[f]>> : f \in registered}
IsValidating == validating # {}
IsInvalid == invalid # {}
-----------------------------------------------------------------------------
FormInit ==
    /\ registered = {}
    /\ initial_value = [f \in Fields |-> CHOOSE v \in Values : TRUE]
    /\ value = initial_value
    /\ value_revision = [f \in Fields |-> 0]
    /\ invalid = {} /\ validating = {}
    /\ active_validation_generation = [f \in Fields |-> 0]
    /\ marked = FALSE /\ dirty = {}
    /\ judged = value
    /\ phase = "idle" /\ submission = NoSubmit /\ errors = FALSE
    /\ form_revision = 0
    /\ submitted_data = {}
    /\ next_validation_generation = 0 /\ next_submit_generation = 0
    /\ queue = {} /\ validations = {} /\ submits = {}

\* Mutant: registering leaves the submission in progress alone.
AdvanceFormRevisionOnly ==
    /\ form_revision' = SaturatingIncrement(form_revision)
    /\ UNCHANGED <<phase, submission, errors, submitted_data>>

\* advance_form_revision: whatever submission there was is over.
AdvanceFormRevision ==
    /\ form_revision' = SaturatingIncrement(form_revision)
    /\ phase' = "idle" /\ submission' = NoSubmit /\ errors' = FALSE
    /\ UNCHANGED submitted_data

\* clear_terminal_submission.
ClearTerminalSubmission ==
    /\ phase' = IF phase \in {"submitted", "failed"} THEN "idle" ELSE phase
    /\ errors' = IF phase \in {"submitted", "failed"} THEN FALSE ELSE errors
    /\ UNCHANGED <<submission, form_revision, submitted_data>>

RegisterField(f, v) ==
    /\ f \notin registered
    /\ registered' = registered \cup {f}
    /\ initial_value' = [initial_value EXCEPT ![f] = v]
    /\ value' = [value EXCEPT ![f] = v]
    /\ AdvanceFormRevision
    /\ UNCHANGED <<value_revision, invalid, validating, active_validation_generation,
                   marked, dirty, judged, ticketVars>>

\* Mutant: the validation in progress is not cancelled.
SetValueKeepsValidation(f, v) ==
    /\ f \in registered /\ value[f] # v
    /\ value' = [value EXCEPT ![f] = v]
    /\ value_revision' = [value_revision EXCEPT ![f] = SaturatingIncrement(@)]
    /\ dirty' = IF v = initial_value[f] THEN dirty \ {f} ELSE dirty \cup {f}
    /\ invalid' = invalid \ {f}
    /\ AdvanceFormRevision
    /\ UNCHANGED <<registered, initial_value, validating, active_validation_generation,
                   marked, judged, ticketVars>>

\* set_value; writing the value a field has changes nothing.
SetValue(f, v) ==
    /\ f \in registered /\ value[f] # v
    /\ value' = [value EXCEPT ![f] = v]
    /\ value_revision' = [value_revision EXCEPT ![f] = SaturatingIncrement(@)]
    /\ dirty' = IF v = initial_value[f] THEN dirty \ {f} ELSE dirty \cup {f}
    /\ invalid' = invalid \ {f}
    /\ validating' = validating \ {f}
    /\ active_validation_generation' = [active_validation_generation EXCEPT ![f] = 0]
    /\ AdvanceFormRevision
    /\ UNCHANGED <<registered, initial_value, marked, judged, ticketVars>>

\* touch and visit.
Mark(f) ==
    /\ f \in registered
    /\ marked' = TRUE
    /\ UNCHANGED <<registered, initial_value, value, value_revision, invalid, validating,
                   active_validation_generation, dirty, judged, formVars, ticketVars>>

\* The field after a verdict on its value.
Verdict(f, bad) ==
    /\ invalid' = IF bad THEN invalid \cup {f} ELSE invalid \ {f}
    /\ validating' = validating \ {f}
    /\ active_validation_generation' = [active_validation_generation EXCEPT ![f] = 0]

\* validate_field, synchronous.
ValidateField(f, bad) ==
    /\ phase # "submitting"
    /\ f \in registered
    /\ Verdict(f, bad)
    /\ judged' = [judged EXCEPT ![f] = value[f]]
    /\ ClearTerminalSubmission
    /\ UNCHANGED <<registered, initial_value, value, value_revision, marked, dirty,
                   ticketVars>>

HasNextGeneration(n) == n < MaxGeneration

\* begin_async_validation, called directly or by DebouncedValidationQueue::request,
\* which keeps the newest ticket per field.
BeginAsyncValidation(f, debounced) ==
    LET g == next_validation_generation + 1
        ticket == [path |-> f, value_revision |-> value_revision[f], generation |-> g,
                   about |-> value[f]]
    IN  /\ phase # "submitting"
        /\ f \in registered
        /\ HasNextGeneration(next_validation_generation)
        /\ next_validation_generation' = g
        /\ active_validation_generation' = [active_validation_generation EXCEPT ![f] = g]
        /\ validating' = validating \cup {f}
        /\ validations' = IF debounced THEN validations ELSE validations \cup {ticket}
        /\ queue' = IF debounced THEN {t \in queue : t.path # f} \cup {ticket} ELSE queue
        /\ ClearTerminalSubmission
        /\ UNCHANGED <<registered, initial_value, value, value_revision, invalid, marked,
                       dirty, judged, next_submit_generation, submits>>

\* DebouncedValidationQueue::take_pending.
TakePending ==
    /\ \E t \in queue :
        /\ queue' = queue \ {t}
        /\ validations' = validations \cup {t}
    /\ UNCHANGED <<fieldVars, formVars, next_validation_generation, next_submit_generation,
                   submits>>

\* Mutant: only the revision is compared.
AppliesByRevision(t) == t.value_revision = value_revision[t.path]

\* The conditions under which complete_validation applies a ticket.
Applies(t) ==
    /\ active_validation_generation[t.path] = t.generation
    /\ t.value_revision = value_revision[t.path]

\* complete_async_validation with a ticket it applies; a stale or cancelled one
\* changes nothing.
CompleteAsyncValidation(t, bad) ==
    /\ t \in validations
    /\ Applies(t)
    /\ Verdict(t.path, bad)
    /\ judged' = [judged EXCEPT ![t.path] = t.about]
    /\ UNCHANGED <<registered, initial_value, value, value_revision, marked, dirty,
                   formVars, ticketVars>>

CanSubmit == phase # "submitting" /\ ~IsValidating /\ ~IsInvalid

BeginSubmit ==
    LET ticket == [form_revision |-> form_revision, generation |-> next_submit_generation + 1]
    IN  /\ CanSubmit
        /\ HasNextGeneration(next_submit_generation)
        /\ next_submit_generation' = next_submit_generation + 1
        /\ phase' = "submitting" /\ submission' = ticket /\ errors' = FALSE
        /\ submits' = submits \cup {ticket}
        /\ submitted_data' = Data
        /\ UNCHANGED <<fieldVars, form_revision, next_validation_generation, queue,
                       validations>>

\* finish_submit_success and finish_submit_error with the active ticket; any other
\* ticket is stale or cancelled and changes nothing.
FinishSubmit(t, success) ==
    /\ t \in submits
    /\ phase = "submitting" /\ submission = t
    /\ phase' = IF success THEN "submitted" ELSE "failed"
    /\ submission' = NoSubmit
    /\ errors' = ~success
    /\ UNCHANGED <<fieldVars, form_revision, submitted_data, ticketVars>>

Reset ==
    /\ value' = [f \in Fields |-> IF f \in registered THEN initial_value[f] ELSE value[f]]
    /\ value_revision' = [f \in Fields |-> IF f \in registered
                              THEN SaturatingIncrement(value_revision[f])
                              ELSE value_revision[f]]
    /\ invalid' = {} /\ validating' = {} /\ marked' = FALSE /\ dirty' = {}
    /\ active_validation_generation' = [f \in Fields |-> 0]
    /\ AdvanceFormRevision
    /\ UNCHANGED <<registered, initial_value, judged, ticketVars>>

FormNext ==
    \/ \E f \in Fields, v \in Values : RegisterField(f, v) \/ SetValue(f, v)
    \/ \E f \in Fields : Mark(f)
    \/ \E f \in Fields, bad \in BOOLEAN : ValidateField(f, bad)
    \/ \E f \in Fields, debounced \in BOOLEAN : BeginAsyncValidation(f, debounced)
    \/ TakePending
    \/ \E t \in validations, bad \in BOOLEAN : CompleteAsyncValidation(t, bad)
    \/ BeginSubmit
    \/ \E t \in submits, success \in BOOLEAN : FinishSubmit(t, success)
    \/ Reset

FormSpec == FormInit /\ [][FormNext]_storeVars
-----------------------------------------------------------------------------
FormTypeOK ==
    /\ registered \subseteq Fields /\ invalid \subseteq Fields /\ validating \subseteq Fields
    /\ marked \in BOOLEAN /\ dirty \subseteq Fields
    /\ initial_value \in [Fields -> Values] /\ value \in [Fields -> Values]
    /\ judged \in [Fields -> Values]
    /\ value_revision \in [Fields -> Revisions]
    /\ active_validation_generation \in [Fields -> 0 .. MaxGeneration]
    /\ phase \in Phases /\ errors \in BOOLEAN
    /\ submission \in SubmitTickets \cup {NoSubmit}
    /\ form_revision \in Revisions
    /\ next_validation_generation \in 0 .. MaxGeneration
    /\ next_submit_generation \in 0 .. MaxGeneration
    /\ queue \subseteq ValidationTickets /\ validations \subseteq ValidationTickets
    /\ submits \subseteq SubmitTickets
    /\ submitted_data \subseteq Fields \X Values

\* A field that shows errors shows those of the value it has: no completion that
\* comes late, twice or after an edit, not even once the revisions have saturated,
\* applies the verdict on an older value (complete_validation, field.rs:98-116).
ErrorsFitValue == \A f \in invalid : judged[f] = value[f]

\* The form never stays in Validating for good: a field that is validating has a
\* ticket, handed out or queued, that complete_async_validation would still apply.
ValidationCanFinish ==
    \A f \in validating :
        \E t \in validations \cup queue : t.path = f /\ Applies(t)

\* While a submission is in progress, and once it has succeeded, the form holds the
\* data it began with; during it nothing is invalid or being validated ("A value change
\* cancels ... any active submission", crates/form/README.md:28).
SubmissionMatchesData ==
    /\ phase \in {"submitting", "submitted"} => submitted_data = Data
    /\ phase = "submitting" => ~IsInvalid /\ ~IsValidating /\ submission \in submits
===============================================================================

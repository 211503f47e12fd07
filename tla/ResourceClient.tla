---------------------------- MODULE ResourceClient ----------------------------
(***************************************************************************)
(* crates/resource/src/client.rs: the cache of query results and the state *)
(* of mutations.  The application runs the fetches and mutations; it comes *)
(* back with tickets in any order, late or twice.  A result is represented *)
(* by the generation that produced it.                                     *)
(***************************************************************************)
EXTENDS Naturals, FiniteSets

CONSTANTS
    Keys,           \* query keys
    Mutations,      \* mutation ids
    MaxAttempts,    \* bound on the fetches per key and the attempts per mutation
    MaxObservers    \* bound on the subscriptions per key

ASSUME ResourceConstants == MaxAttempts \in Nat /\ MaxObservers \in Nat

VARIABLES
    entries,    \* keys with a QueryEntry
    status,
    data,       \* generation of the cached data, 0 for None
    error,      \* generation of the recorded error, 0 for None
    observers, next_observer_id,
    fetch_generation, fetch_attempts,
    mutation    \* the MutationEntry of each id

queryVars == <<entries, status, data, error, observers, next_observer_id,
               fetch_generation, fetch_attempts>>
clientVars == <<queryVars, mutation>>

Attempts == 1 .. MaxAttempts
Statuses == {"idle", "loading", "success", "stale", "refetching", "error"}
MutationEntries == [status : {"idle", "pending", "success", "error"},
                    generation : 0 .. MaxAttempts,
                    data : 0 .. MaxAttempts, error : 0 .. MaxAttempts]

ClientInit ==
    /\ entries = {}
    /\ status = [k \in Keys |-> "idle"]
    /\ data = [k \in Keys |-> 0] /\ error = [k \in Keys |-> 0]
    /\ observers = [k \in Keys |-> {}]
    /\ next_observer_id = [k \in Keys |-> 0]
    /\ fetch_generation = [k \in Keys |-> 0]
    /\ fetch_attempts = [k \in Keys |-> 0]
    /\ mutation = [m \in Mutations |->
                      [status |-> "idle", generation |-> 0, data |-> 0, error |-> 0]]

EnsureQuery(k) ==
    /\ entries' = entries \cup {k}
    /\ UNCHANGED <<status, data, error, observers, next_observer_id, fetch_generation,
                   fetch_attempts, mutation>>

NewObserverId(k) == next_observer_id[k] + 1

Subscribe(k) ==
    /\ next_observer_id[k] < MaxObservers
    /\ entries' = entries \cup {k}
    /\ next_observer_id' = [next_observer_id EXCEPT ![k] = @ + 1]
    /\ observers' = [observers EXCEPT ![k] = @ \cup {NewObserverId(k)}]
    /\ UNCHANGED <<status, data, error, fetch_generation, fetch_attempts, mutation>>

\* unsubscribe; a handle used twice reports UnknownObserver and changes nothing.
Unsubscribe(k, id) ==
    /\ id \in observers[k]
    /\ observers' = [observers EXCEPT ![k] = @ \ {id}]
    /\ UNCHANGED <<entries, status, data, error, next_observer_id, fetch_generation,
                   fetch_attempts, mutation>>

BeginFetch(k) ==
    /\ fetch_generation[k] < MaxAttempts
    /\ entries' = entries \cup {k}
    /\ fetch_generation' = [fetch_generation EXCEPT ![k] = @ + 1]
    /\ fetch_attempts' = [fetch_attempts EXCEPT ![k] = @ + 1]
    /\ status' = [status EXCEPT ![k] = IF data[k] # 0 THEN "refetching" ELSE "loading"]
    /\ error' = [error EXCEPT ![k] = 0]
    /\ UNCHANGED <<data, observers, next_observer_id, mutation>>

\* Mutant: any ticket of the key completes the fetch.
IsCurrentAlways(k, g) == g <= fetch_generation[k]

\* Tickets that complete: only the newest generation's.
IsCurrent(k, g) == g = fetch_generation[k]

CompleteFetchSuccess(k, g) ==
    /\ IsCurrent(k, g)
    /\ status' = [status EXCEPT ![k] = "success"]
    /\ data' = [data EXCEPT ![k] = g]
    /\ error' = [error EXCEPT ![k] = 0]
    /\ UNCHANGED <<entries, observers, next_observer_id, fetch_generation, fetch_attempts,
                   mutation>>

\* Mutant: a failed refetch forgets that there is data.
StatusAfterErrorForgets(k) == "error"

StatusAfterError(k) == IF data[k] # 0 THEN "stale" ELSE "error"

CompleteFetchError(k, g) ==
    /\ IsCurrent(k, g)
    /\ status' = [status EXCEPT ![k] = StatusAfterError(k)]
    /\ error' = [error EXCEPT ![k] = g]
    /\ UNCHANGED <<entries, data, observers, next_observer_id, fetch_generation,
                   fetch_attempts, mutation>>

\* The statuses after invalidate for each key of ks that has an entry.
Invalidated(ks) ==
    [k \in Keys |->
        IF k \in ks \cap entries
        THEN IF observers[k] # {} THEN "refetching" ELSE "stale"
        ELSE status[k]]

Invalidate(k) ==
    /\ k \in entries
    /\ status' = Invalidated({k})
    /\ UNCHANGED <<entries, data, error, observers, next_observer_id, fetch_generation,
                   fetch_attempts, mutation>>

BeginMutation(m) ==
    /\ mutation[m].generation < MaxAttempts
    /\ mutation' = [mutation EXCEPT ![m] = [status |-> "pending", generation |-> @.generation + 1,
                                            data |-> @.data, error |-> 0]]
    /\ UNCHANGED queryVars

IsCurrentMutation(m, g) == g = mutation[m].generation

\* complete_mutation_success invalidates the keys it is given.
CompleteMutationSuccess(m, g, ks) ==
    /\ IsCurrentMutation(m, g)
    /\ mutation' = [mutation EXCEPT ![m] = [status |-> "success", generation |-> @.generation,
                                            data |-> g, error |-> 0]]
    /\ status' = Invalidated(ks)
    /\ UNCHANGED <<entries, data, error, observers, next_observer_id, fetch_generation,
                   fetch_attempts>>

CompleteMutationError(m, g) ==
    /\ IsCurrentMutation(m, g)
    /\ mutation' = [mutation EXCEPT ![m] = [status |-> "error", generation |-> @.generation,
                                            data |-> @.data, error |-> g]]
    /\ UNCHANGED queryVars

ClientNext ==
    \/ \E k \in Keys : EnsureQuery(k) \/ Subscribe(k) \/ BeginFetch(k) \/ Invalidate(k)
    \/ \E k \in Keys, id \in 1 .. MaxObservers : Unsubscribe(k, id)
    \/ \E k \in Keys, g \in Attempts :
          CompleteFetchSuccess(k, g) \/ CompleteFetchError(k, g)
    \/ \E m \in Mutations : BeginMutation(m)
    \/ \E m \in Mutations, g \in Attempts, ks \in SUBSET Keys :
          CompleteMutationSuccess(m, g, ks)
    \/ \E m \in Mutations, g \in Attempts : CompleteMutationError(m, g)

ClientSpec == ClientInit /\ [][ClientNext]_clientVars
-----------------------------------------------------------------------------
ClientTypeOK ==
    /\ entries \subseteq Keys
    /\ status \in [Keys -> Statuses]
    /\ data \in [Keys -> 0 .. MaxAttempts] /\ error \in [Keys -> 0 .. MaxAttempts]
    /\ next_observer_id \in [Keys -> 0 .. MaxObservers]
    /\ \A k \in Keys : observers[k] \subseteq 1 .. next_observer_id[k]
    /\ fetch_generation \in [Keys -> 0 .. MaxAttempts]
    /\ fetch_attempts \in [Keys -> 0 .. MaxAttempts]
    /\ mutation \in [Mutations -> MutationEntries]

\* What a snapshot says agrees with how it came about, whatever the order in which
\* fetches complete, fail and are invalidated: fresh data is the newest fetch's,
\* an error without data is the newest fetch's, and a first load has neither.
StatusAgrees ==
    \A k \in Keys :
        /\ status[k] = "success" => data[k] = fetch_generation[k] /\ error[k] = 0
        /\ status[k] = "error" => data[k] = 0 /\ error[k] = fetch_generation[k]
        /\ status[k] = "loading" => data[k] = 0 /\ error[k] = 0
        /\ error[k] \in {0, fetch_generation[k]}

\* Results never go back: the data of a query and of a mutation is only ever
\* replaced by that of a later attempt (late completions are ignored).
ResultsNeverGoBack ==
    [][ /\ \A k \in Keys : data[k] <= data'[k]
        /\ \A m \in Mutations : mutation[m].data <= mutation'[m].data
        /\ \A m \in Mutations : mutation'[m].status = "success" =>
              mutation'[m].data = mutation'[m].generation ]_clientVars
===============================================================================

----------------------------- MODULE CalloopQueue -----------------------------
(***************************************************************************)
(* crates/gpui_linux/src/linux/dispatcher.rs: the main thread's queue on   *)
(* Linux.  Any thread pushes a runnable and then pings an eventfd; the     *)
(* event loop wakes on the ping and drains the queue.  The queue itself    *)
(* is PriorityQueue; here it is the set of runnables it stores.            *)
(***************************************************************************)
EXTENDS Naturals, FiniteSets

CONSTANTS
    Callers,   \* threads that share the sender
    Runnables  \* runnables they dispatch on the main thread

VARIABLES
    stored,    \* runnables in the priority queue
    ran,       \* runnables the event loop ran
    caller,    \* the threads between the push and the ping of their send
    sender,    \* alive, pinged (inside its drop), gone (sender_count = 0)
    ping,      \* external: the eventfd is readable
    source,    \* polling, draining, running (a runnable), finishing, removed
    is_empty,  \* the local of process_events
    closed     \* Event::Closed was delivered

calloopVars == <<stored, ran, caller, sender, ping, source, is_empty, closed>>

Init ==
    /\ stored = {} /\ ran = {}
    /\ caller = {}
    /\ sender = "alive"
    /\ ping = FALSE
    /\ source = "polling"
    /\ is_empty = TRUE
    /\ closed = FALSE

\* The first half of send: the runnable is in the queue.  The main thread takes
\* part through the runnables it is running.
Push(c, x) ==
    /\ sender = "alive"
    /\ c \notin caller
    /\ x \notin stored \cup ran
    /\ stored' = stored \cup {x}
    /\ caller' = caller \cup {c}
    /\ UNCHANGED <<ran, sender, ping, source, is_empty, closed>>

\* Mutant: the ping is left to the next send.
PingAfterNot(c) ==
    /\ c \in caller
    /\ caller' = caller \ {c}
    /\ UNCHANGED <<stored, ran, sender, ping, source, is_empty, closed>>

\* The second half of send.
PingAfter(c) ==
    /\ c \in caller
    /\ ping' = TRUE
    /\ caller' = caller \ {c}
    /\ UNCHANGED <<stored, ran, sender, source, is_empty, closed>>

\* Drop for PriorityQueueCalloopSender: the drop body pings, and the inner sender
\* is dropped after it.
DropPings ==
    /\ sender = "alive" /\ caller = {}
    /\ sender' = "pinged"
    /\ ping' = TRUE
    /\ UNCHANGED <<stored, ran, caller, source, is_empty, closed>>

DropInner ==
    /\ sender = "pinged"
    /\ sender' = "gone"
    /\ UNCHANGED <<stored, ran, caller, ping, source, is_empty, closed>>

\* External: the event loop finds the eventfd readable; PingSource reads it, which
\* clears it, and calls the closure of process_events.
Wake ==
    /\ source = "polling" /\ ping
    /\ ping' = FALSE
    /\ source' = "draining"
    /\ is_empty' = TRUE
    /\ UNCHANGED <<stored, ran, caller, sender, closed>>

\* One iteration of try_iter that finds a runnable; the callback runs it.
DrainOne ==
    /\ source = "draining"
    /\ \E x \in stored : stored' = stored \ {x} /\ ran' = ran \cup {x}
    /\ source' = "running"
    /\ is_empty' = FALSE
    /\ UNCHANGED <<caller, sender, ping, closed>>

RunnableReturns ==
    /\ source = "running"
    /\ source' = "draining"
    /\ UNCHANGED <<stored, ran, caller, sender, ping, is_empty, closed>>

\* try_iter ends: Ok(None) from a live channel, or RecvError once the sender is
\* gone, which delivers Event::Closed and removes the source.
DrainEnds ==
    /\ source = "draining" /\ stored = {}
    /\ source' = IF sender = "gone" THEN "removed" ELSE "finishing"
    /\ closed' = (sender = "gone")
    /\ UNCHANGED <<stored, ran, caller, sender, ping, is_empty>>

\* The end of process_events: after running something the source pings itself.
Finish ==
    /\ source = "finishing"
    /\ ping' = (ping \/ ~is_empty)
    /\ source' = "polling"
    /\ UNCHANGED <<stored, ran, caller, sender, is_empty, closed>>

Loop == Wake \/ DrainOne \/ RunnableReturns \/ DrainEnds \/ Finish

Next ==
    \/ \E c \in Callers, x \in Runnables : Push(c, x)
    \/ \E c \in Callers : PingAfter(c)
    \/ DropPings \/ DropInner
    \/ Loop

\* The event loop keeps running, a send or a drop that started ends.
Spec ==
    /\ Init /\ [][Next]_calloopVars
    /\ WF_calloopVars(Loop)
    /\ \A c \in Callers : WF_calloopVars(PingAfter(c))
    /\ WF_calloopVars(DropInner)
-----------------------------------------------------------------------------
TypeOK ==
    /\ stored \subseteq Runnables /\ ran \subseteq Runnables /\ stored \cap ran = {}
    /\ caller \subseteq Callers
    /\ sender \in {"alive", "pinged", "gone"}
    /\ source \in {"polling", "draining", "running", "finishing", "removed"}
    /\ ping \in BOOLEAN /\ is_empty \in BOOLEAN /\ closed \in BOOLEAN

\* A stored runnable always has somebody on the way to it: a ping, a thread about
\* to ping, or the loop while it drains (send, dispatcher.rs:168-174, process_events,
\* dispatcher.rs:231-282).
NoStrandedRunnable ==
    stored # {} => ping \/ caller # {} \/ source \in {"draining", "running"}
===============================================================================

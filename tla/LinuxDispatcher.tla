--------------------------- MODULE LinuxDispatcher ---------------------------
(***************************************************************************)
(* crates/gpui_linux/src/linux/dispatcher.rs: the dispatcher of an         *)
(* application on Linux, composed of the worker threads over their         *)
(* PriorityQueue and of the main thread over its CalloopQueue.  Task i is  *)
(* dispatched in the background as item i; running it on a worker          *)
(* dispatches its continuation, runnable i, on the main thread.  Runnable  *)
(* 0 is one the main thread dispatches to itself.  The event loop runs a   *)
(* runnable from its idle callbacks, after the source's process_events.    *)
(* The timer thread (dispatch_after) is left out.                          *)
(***************************************************************************)
EXTENDS CalloopQueue, Sequences

CONSTANTS
    Workers,    \* the worker threads
    Main,       \* the main thread
    Original,   \* the receiver LinuxDispatcher::new makes and clones
    MaxItems,   \* bound on the tasks
    Level,      \* the priority each task is dispatched with
    MaxPanics   \* bound on the tasks that panic

ASSUME DispatcherConstants ==
    /\ IsFiniteSet(Workers)
    /\ Callers = Workers \cup {Main} /\ Main \notin Workers /\ Original \notin Callers
    /\ MaxItems \in Nat /\ MaxPanics \in Nat /\ Runnables = 0 .. MaxItems
    /\ Level \in [1 .. MaxItems -> {"high", "medium", "low"}]

VARIABLES
    queues, sender_count, receiver_count, receiver, dispatching, next_item, accepted, popped,
    refused, unwrapped_none,
    running,    \* the task each worker runs, 0 for none
    idle,       \* runnables in the event loop's idle callbacks
    panicked    \* history: tasks whose run panicked

Background == INSTANCE PriorityQueue WITH
    Receivers <- Workers \cup {Original}, Callers <- Callers, caller <- dispatching

backgroundVars == <<queues, sender_count, receiver_count, receiver, dispatching, next_item,
                    accepted, popped, refused, unwrapped_none>>
taskVars == <<running, idle, panicked>>
dispatcherVars == <<calloopVars, backgroundVars, taskVars>>

DispatcherTypeOK ==
    /\ TypeOK /\ Background!TypeOK
    /\ running \in [Workers -> 0 .. MaxItems] /\ idle \subseteq Runnables
    /\ panicked \subseteq 1 .. MaxItems

DispatcherInit ==
    /\ Init /\ Background!Init /\ receiver[Original] = "idle"
    /\ running = [w \in Workers |-> 0] /\ idle = {} /\ panicked = {}

-----------------------------------------------------------------------------
\* LinuxDispatcher::new clones the receiver for each thread it spawns, and drops its own.
SpawnWorker(w) ==
    /\ Background!CloneReceiver(Original, w)
    /\ UNCHANGED <<calloopVars, taskVars>>

NewReturns ==
    /\ \A w \in Workers : receiver[w] # "unborn"
    /\ receiver[Original] = "idle" /\ Background!DropReceiver(Original)
    /\ UNCHANGED <<calloopVars, taskVars>>

\* A thread runs code that may dispatch, and is not inside a dispatch.
Runs(c) ==
    /\ IF c = Main THEN source = "polling" /\ receiver[Original] = "dropped" ELSE running[c] # 0
    /\ c \notin caller /\ dispatching[c] = 0 /\ sender = "alive"

\* dispatch, whose send checks the receivers before it takes the lock.
Dispatch(c) == Runs(c) /\ Background!SendCheck(c) /\ UNCHANGED <<calloopVars, taskVars>>
DispatchPush(c) ==
    /\ dispatching[c] # 0 /\ Background!SendPush(c, Level[dispatching[c]])
    /\ UNCHANGED <<calloopVars, taskVars>>

\* dispatch_on_main_thread: a worker wakes the continuation of its task.
DispatchOnMainThread(c) ==
    /\ Runs(c) /\ Push(c, IF c = Main THEN 0 ELSE running[c])
    /\ UNCHANGED <<backgroundVars, taskVars>>
MainPing(c) == PingAfter(c) /\ UNCHANGED <<backgroundVars, taskVars>>

\* The item a step popped, 0 for none.
Obtained ==
    IF popped' = popped THEN 0
    ELSE LET p == CHOOSE q \in Background!Priorities : popped'[q] # popped[q]
         IN popped'[p][Len(popped'[p])]

\* for runnable in receiver.iter()
WorkerPops(w) ==
    /\ running[w] = 0 /\ Background!Pop(w)
    /\ running' = [running EXCEPT ![w] = Obtained]
    /\ UNCHANGED <<calloopVars, idle, panicked>>

RunReturns(w) ==
    /\ running[w] \in stored \cup ran /\ running[w] # 0 /\ w \notin caller /\ dispatching[w] = 0
    /\ running' = [running EXCEPT ![w] = 0]
    /\ UNCHANGED <<calloopVars, backgroundVars, idle, panicked>>

\* The panic of a runnable unwinds the worker thread, which drops its receiver.
RunPanics(w) ==
    /\ running[w] \in 1 .. MaxItems \ (stored \cup ran) /\ w \notin caller /\ dispatching[w] = 0
    /\ Cardinality(panicked) < MaxPanics
    /\ panicked' = panicked \cup {running[w]} /\ running' = [running EXCEPT ![w] = 0]
    /\ Background!DropReceiver(w)
    /\ UNCHANGED <<calloopVars, idle>>

\* The iterator ended: the thread returns.
WorkerEnds(w) ==
    /\ receiver[w] = "done" /\ Background!DropReceiver(w)
    /\ UNCHANGED <<calloopVars, taskVars>>

\* The event loop, on the main thread.  What process_events hands over becomes an idle
\* callback, and the idle callbacks run before the loop polls again.
MainLoop ==
    /\ Main \notin caller /\ dispatching[Main] = 0 /\ (source = "polling" => idle = {})
    /\ Loop /\ idle' = idle \cup (ran' \ ran)
    /\ UNCHANGED <<backgroundVars, running, panicked>>

IdleRuns(x) ==
    /\ source = "polling" /\ x \in idle /\ Main \notin caller /\ dispatching[Main] = 0
    /\ idle' = idle \ {x}
    /\ UNCHANGED <<calloopVars, backgroundVars, running, panicked>>

\* Every runnable keeps the dispatcher alive; its fields are dropped in order.
Unused ==
    /\ receiver[Original] = "dropped" /\ stored = {} /\ idle = {} /\ Background!IsEmpty
    /\ \A c \in Callers : c \notin caller /\ dispatching[c] = 0
    /\ \A w \in Workers : running[w] = 0
DropMainSender ==
    /\ Unused /\ source = "polling" /\ DropPings /\ UNCHANGED <<backgroundVars, taskVars>>
DropMainSenderInner == DropInner /\ UNCHANGED <<backgroundVars, taskVars>>
DropBackgroundSender ==
    sender = "gone" /\ Background!DropSender /\ UNCHANGED <<calloopVars, taskVars>>

Worker(w) ==
    \/ WorkerPops(w) \/ RunReturns(w) \/ WorkerEnds(w)
    \/ w \in caller /\ MainPing(w)
    \/ DispatchOnMainThread(w) \/ DispatchPush(w)

MainThread ==
    \/ MainLoop \/ MainPing(Main) \/ \E x \in Runnables : IdleRuns(x)
    \/ DispatchPush(Main)

DispatcherNext ==
    \/ \E w \in Workers : SpawnWorker(w) \/ Worker(w) \/ RunPanics(w)
    \/ NewReturns \/ MainThread \/ DispatchOnMainThread(Main)
    \/ \E c \in Callers : Dispatch(c)
    \/ DropMainSender \/ DropMainSenderInner \/ DropBackgroundSender

\* Every thread keeps running: a task ends, the event loop goes round.
DispatcherSpec ==
    /\ DispatcherInit /\ [][DispatcherNext]_dispatcherVars
    /\ WF_dispatcherVars(MainThread)
    /\ \A w \in Workers : WF_dispatcherVars(Worker(w))

-----------------------------------------------------------------------------
\* No wake-up is lost while tasks run, dispatch and panic: PriorityQueue.
NoLostWakeup == Background!NoLostWakeup

\* A blocking pop always has an item to unwrap: PriorityQueue.
PopAlwaysYields == Background!PopAlwaysYields

\* A task that dispatch accepted runs on a worker, and the main thread then runs its
\* continuation, unless the task panicked or every worker died of such panics.
TaskContinues ==
    \A i \in 1 .. MaxItems :
        (\E p \in Background!Priorities : i \in Background!In(accepted[p]))
            ~> ((i \in ran /\ i \notin idle) \/ i \in panicked \/ receiver_count = 0)
=============================================================================

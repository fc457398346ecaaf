------------------------------- MODULE Event -------------------------------
(***************************************************************************)
(* Event::Await and Event::Trigger over the scheduler: threads wait for    *)
(* one of several events, threads and interrupt handlers trigger them, and *)
(* the timer interrupt may fall between any two instructions that run with *)
(* interrupts on.  System calls run with interrupts on.                    *)
(*                                                                         *)
(* A thread's pc is the next thing it will do:                             *)
(*   user      anything: await, trigger, create a thread, exit             *)
(*   block     Scheduler::Block is about to take Thread::m_Lock            *)
(*   write     ... to store eBlocked                                       *)
(*   release   ... to release Thread::m_Lock                               *)
(*   yield     Yield(true) is about to disable interrupts                  *)
(*   spin      Yield waits for Tick to release YieldAwaitLock              *)
(*   detach    Await is about to remove its listeners                      *)
(*   return    Trigger left interrupts off; the return to user mode is next*)
(*   enqueue, unlock   the kernel thread holds s_Lock in EnqueueThread     *)
(*   exit, leave       Process::Exit is about to trigger, to yield         *)
(*   yielded   after sched_yield                                           *)
(*   none      not created yet, or gone                                    *)
(***************************************************************************)
EXTENDS Scheduler

CONSTANTS
    Events,     \* the Event objects
    MaxPending  \* bound on Event::Pending

ASSUME PendingAssumption == MaxPending \in Nat \ {0}

VARIABLES
    pending,    \* Event::Pending
    listeners,  \* Event::Listeners, the waiting threads in order of arrival
    awaited,    \* Thread::Events(): the events of the thread's Await call
    which,      \* Thread::Which(): index of the event that woke the thread
    pc,         \* where each thread is
    child       \* the thread that a thread at enqueue or unlock creates

eventVars == <<pending, listeners, awaited, which>>

vars == <<schedVars, eventVars, pc, child>>

Pcs == {"none", "user", "block", "write", "release", "yield", "spin",
        "detach", "return", "enqueue", "unlock", "exit", "leave",
        "yielded"}

\* Between attaching the listeners and removing them.
Waiting == {"block", "write", "release", "yield", "spin", "detach"}

Init ==
    /\ SchedInit
    /\ pending = [e \in Events |-> 0]
    /\ listeners = [e \in Events |-> <<>>]
    /\ awaited = [t \in Threads |-> <<>>]
    /\ which = [t \in Threads |-> 0]
    /\ pc = [t \in Threads |-> IF t = KernelThread THEN "user" ELSE "none"]
    /\ child = [t \in Threads |-> t]

\* Thread t executes and is about to do what "at" names.
Runs(t, at) == panic = "none" /\ current = t /\ pc[t] = at

Goto(t, at) == pc' = [pc EXCEPT ![t] = at]

-----------------------------------------------------------------------------
\* Mutant: the first event's count is decremented, not that of the one found.
AwaitPendingFirst(t, es) ==
    /\ \E i \in DOMAIN es : pending[es[i]] > 0
    /\ pending' = [pending EXCEPT ![es[1]] = @ - 1]
    /\ UNCHANGED <<schedVars, listeners, awaited, which, pc, child>>

\* Event::Await with a pending event: consume it and return its index.
AwaitPending(t, es) ==
    LET i == SelectInSeq(es, LAMBDA e : pending[e] > 0)
    IN  /\ i # 0
        /\ pending' = [pending EXCEPT ![es[i]] = @ - 1]
        /\ UNCHANGED <<schedVars, listeners, awaited, which, pc, child>>

\* Event::Await up to the call of Block: attach and enable interrupts.
AwaitAttach(t, es) ==
    /\ \A i \in DOMAIN es : pending[es[i]] = 0
    /\ listeners' = [e \in Events |->
                       IF e \in ToSet(es) THEN Append(listeners[e], t)
                                          ELSE listeners[e]]
    /\ awaited' = [awaited EXCEPT ![t] = es]
    /\ interrupts' = TRUE
    /\ Goto(t, "block")
    /\ UNCHANGED <<state, enqueued, execQueue, blockedQueue, current,
                   yieldAwaitLock, threadLock, schedLock, panic,
                   pending, which, child>>

AwaitLists == {es \in UNION {[1..n -> Events] : n \in 1..Cardinality(Events)} :
                 IsInjective(es)}

Await(t, es) ==
    /\ Runs(t, "user")
    /\ t # KernelThread
    /\ AwaitPending(t, es) \/ AwaitAttach(t, es)

\* Block: take Thread::m_Lock, store eBlocked, release the lock.
BlockLock(t) ==
    /\ Runs(t, "block")
    /\ state[t] # "eBlocked"
    /\ threadLock' = [threadLock EXCEPT ![t] = TRUE]
    /\ Goto(t, "write")
    /\ UNCHANGED <<state, enqueued, execQueue, blockedQueue, current,
                   yieldAwaitLock, schedLock, interrupts, panic,
                   eventVars, child>>

BlockWrite(t) ==
    /\ Runs(t, "write")
    /\ state' = [state EXCEPT ![t] = "eBlocked"]
    /\ Goto(t, "release")
    /\ UNCHANGED <<enqueued, execQueue, blockedQueue, current, yieldAwaitLock,
                   threadLock, schedLock, interrupts, panic, eventVars, child>>

BlockRelease(t) ==
    /\ Runs(t, "release")
    /\ threadLock' = [threadLock EXCEPT ![t] = FALSE]
    /\ Goto(t, "yield")
    /\ UNCHANGED <<state, enqueued, execQueue, blockedQueue, current,
                   yieldAwaitLock, schedLock, interrupts, panic,
                   eventVars, child>>

\* Yield(true) up to the second Acquire.  The first one runs with interrupts
\* off: were the lock taken, nobody could release it.
Yield(t) ==
    /\ Runs(t, "yield")
    /\ panic' = IF yieldAwaitLock[t] THEN "deadlock" ELSE "none"
    /\ yieldAwaitLock' = [yieldAwaitLock EXCEPT ![t] = TRUE]
    /\ interrupts' = TRUE
    /\ Goto(t, "spin")
    /\ UNCHANGED <<state, enqueued, execQueue, blockedQueue, current,
                   threadLock, schedLock, eventVars, child>>

\* Mutant: the second Acquire has no Release.
YieldReturnsLocked(t) ==
    /\ Runs(t, "spin")
    /\ ~yieldAwaitLock[t]
    /\ yieldAwaitLock' = [yieldAwaitLock EXCEPT ![t] = TRUE]
    /\ Goto(t, "detach")
    /\ UNCHANGED <<state, enqueued, execQueue, blockedQueue, current,
                   threadLock, schedLock, interrupts, panic, eventVars, child>>

YieldReturns(t) ==
    /\ Runs(t, "spin")
    /\ ~yieldAwaitLock[t]
    /\ Goto(t, "detach")
    /\ UNCHANGED <<schedVars, eventVars, child>>

\* Mutant: the listeners of the events that did not fire stay behind.
AwaitKeepListeners(t) ==
    /\ Runs(t, "detach")
    /\ awaited' = [awaited EXCEPT ![t] = <<>>]
    /\ Goto(t, "user")
    /\ UNCHANGED <<schedVars, listeners, pending, which, child>>

\* The rest of Await: remove the listeners that no trigger has removed.
AwaitDetach(t) ==
    /\ Runs(t, "detach")
    /\ listeners' = [e \in Events |->
                       IF e \in ToSet(awaited[t])
                         THEN SelectSeq(listeners[e], LAMBDA u : u # t)
                         ELSE listeners[e]]
    /\ awaited' = [awaited EXCEPT ![t] = <<>>]
    /\ Goto(t, "user")
    /\ UNCHANGED <<schedVars, pending, which, child>>

-----------------------------------------------------------------------------
\* The index of event e in the Await call of thread t.
IndexIn(t, e) == SelectInSeq(awaited[t], LAMBDA f : f = e)

\* The body of Event::Trigger(event, false), with interrupts off.
TriggerNobody(e) ==
    /\ listeners[e] = <<>>
    /\ pending[e] < MaxPending
    /\ pending' = [pending EXCEPT ![e] = @ + 1]
    /\ UNCHANGED <<state, enqueued, execQueue, blockedQueue, panic,
                   listeners, which>>

\* Mutant: SetWhich is left out.
TriggerAnonymous(e) ==
    /\ listeners[e] # <<>>
    /\ ~UnblockNeedsTakenLock(listeners[e])
    /\ Unblock(listeners[e])
    /\ listeners' = [listeners EXCEPT ![e] = <<>>]
    /\ UNCHANGED <<which, pending, panic>>

TriggerListeners(e) ==
    /\ listeners[e] # <<>>
    /\ ~UnblockNeedsTakenLock(listeners[e])
    /\ Unblock(listeners[e])
    /\ which' = [t \in Threads |->
                   IF t \in ToSet(listeners[e]) THEN IndexIn(t, e) ELSE which[t]]
    /\ listeners' = [listeners EXCEPT ![e] = <<>>]
    /\ UNCHANGED <<pending, panic>>

TriggerDeadlocks(e) ==
    /\ listeners[e] # <<>>
    /\ UnblockNeedsTakenLock(listeners[e])
    /\ panic' = "deadlock"
    /\ UNCHANGED <<state, enqueued, execQueue, blockedQueue,
                   pending, listeners, which>>

TriggerBody(e) ==
    TriggerNobody(e) \/ TriggerListeners(e) \/ TriggerDeadlocks(e)

\* A thread triggers an event.  With no listener the early return leaves
\* interrupts off until the thread returns to user mode.
Trigger(t, e) ==
    /\ Runs(t, "user")
    /\ TriggerBody(e)
    /\ interrupts' = (listeners[e] # <<>>)
    /\ Goto(t, IF listeners[e] = <<>> THEN "return" ELSE "user")
    /\ UNCHANGED <<current, yieldAwaitLock, threadLock, schedLock,
                   awaited, child>>

ReturnToUser(t) ==
    /\ Runs(t, "return")
    /\ interrupts' = TRUE
    /\ Goto(t, "user")
    /\ UNCHANGED <<state, enqueued, execQueue, blockedQueue, current,
                   yieldAwaitLock, threadLock, schedLock, panic,
                   eventVars, child>>

\* A device or timer interrupt triggers an event; iret restores interrupts.
Interrupt(e) ==
    /\ panic = "none"
    /\ interrupts
    /\ TriggerBody(e)
    /\ UNCHANGED <<current, yieldAwaitLock, threadLock, schedLock, interrupts,
                   awaited, pc, child>>

TimerTick == Tick /\ UNCHANGED <<eventVars, pc, child>>

-----------------------------------------------------------------------------
\* A thread that is not queued yet and that nobody is about to queue.
Fresh(new) ==
    state[new] = "eDequeued" /\ \A t \in Threads : child[t] = new => t = new

\* The kernel thread hands a new thread to EnqueueThread, interrupts on.
Create(t, new) ==
    /\ Runs(t, "user")
    /\ t = KernelThread
    /\ Fresh(new)
    /\ LockScheduler
    /\ child' = [child EXCEPT ![t] = new]
    /\ Goto(t, "enqueue")
    /\ UNCHANGED <<state, enqueued, execQueue, blockedQueue, current,
                   yieldAwaitLock, threadLock, interrupts, panic, eventVars>>

CreateEnqueue(t) ==
    /\ Runs(t, "enqueue")
    /\ EnqueueThread(child[t])
    /\ pc' = [pc EXCEPT ![t] = "unlock", ![child[t]] = "user"]
    /\ UNCHANGED <<blockedQueue, current, yieldAwaitLock, threadLock,
                   schedLock, interrupts, panic, eventVars, child>>

CreateUnlock(t) ==
    /\ Runs(t, "unlock")
    /\ UnlockScheduler
    /\ child' = [child EXCEPT ![t] = t]
    /\ Goto(t, "user")
    /\ UNCHANGED <<state, enqueued, execQueue, blockedQueue, current,
                   yieldAwaitLock, threadLock, interrupts, panic, eventVars>>

\* Fork: interrupts are off from the system call's start to its return.
Fork(t, new) ==
    /\ Runs(t, "user")
    /\ t # KernelThread
    /\ Fresh(new)
    /\ ~schedLock
    /\ EnqueueThread(new)
    /\ interrupts' = FALSE
    /\ pc' = [pc EXCEPT ![t] = "return", ![new] = "user"]
    /\ UNCHANGED <<blockedQueue, current, yieldAwaitLock, threadLock,
                   schedLock, panic, eventVars, child>>

\* Exec: the calling thread dies, a new one is queued, and Yield(false) makes
\* Idle the current thread, all with interrupts off.
Exec(t, new) ==
    /\ Runs(t, "user")
    /\ t # KernelThread
    /\ Fresh(new)
    /\ ~schedLock
    /\ enqueued' = [enqueued EXCEPT ![new] = TRUE]
    /\ state' = [state EXCEPT ![new] = "eReady", ![t] = "eExited"]
    /\ execQueue' = Append(execQueue, new)
    /\ current' = Idle
    /\ interrupts' = TRUE
    /\ pc' = [pc EXCEPT ![t] = "none", ![new] = "user"]
    /\ UNCHANGED <<blockedQueue, yieldAwaitLock, threadLock, schedLock, panic,
                   eventVars, child>>

\* sched_yield calls Yield(false) too: Idle becomes the current thread, and
\* Tick queues the thread GS points to, not the one that yielded.
SchedYield(t) ==
    /\ Runs(t, "user")
    /\ t # KernelThread
    /\ current' = Idle
    /\ interrupts' = TRUE
    /\ Goto(t, "yielded")
    /\ UNCHANGED <<state, enqueued, execQueue, blockedQueue, yieldAwaitLock,
                   threadLock, schedLock, panic, eventVars, child>>

\* The end of Process::Exit, with interrupts off from its start: the thread
\* is dead, the event of its process is triggered, and Yield(false) makes Idle
\* the current thread.
Exit(t) ==
    /\ Runs(t, "user")
    /\ t # KernelThread
    /\ \E e \in Events : pending[e] < MaxPending
    /\ interrupts' = FALSE
    /\ state' = [state EXCEPT ![t] = "eExited"]
    /\ Goto(t, "exit")
    /\ UNCHANGED <<enqueued, execQueue, blockedQueue, current, yieldAwaitLock,
                   threadLock, schedLock, panic, eventVars, child>>

ExitTrigger(t, e) ==
    /\ Runs(t, "exit")
    /\ TriggerBody(e)
    /\ Goto(t, "leave")
    /\ UNCHANGED <<current, yieldAwaitLock, threadLock, schedLock, interrupts,
                   awaited, child>>

ExitYield(t) ==
    /\ Runs(t, "leave")
    /\ current' = Idle
    /\ interrupts' = TRUE
    /\ Goto(t, "none")
    /\ UNCHANGED <<state, enqueued, execQueue, blockedQueue, yieldAwaitLock,
                   threadLock, schedLock, panic, eventVars, child>>

-----------------------------------------------------------------------------
\* What thread t does next, whichever it is.
Step(t) ==
    \/ \E es \in AwaitLists : Await(t, es)
    \/ BlockLock(t)
    \/ BlockWrite(t)
    \/ BlockRelease(t)
    \/ Yield(t)
    \/ YieldReturns(t)
    \/ AwaitDetach(t)
    \/ \E e \in Events : Trigger(t, e)
    \/ ReturnToUser(t)
    \/ \E new \in Threads : Create(t, new)
    \/ CreateEnqueue(t)
    \/ CreateUnlock(t)
    \/ \E new \in Threads : Fork(t, new) \/ Exec(t, new)
    \/ SchedYield(t)
    \/ Exit(t)
    \/ \E e \in Events : ExitTrigger(t, e)
    \/ ExitYield(t)

Next ==
    \/ \E t \in Threads : Step(t)
    \/ \E e \in Events : Interrupt(e)
    \/ TimerTick

Spec == Init /\ [][Next]_vars

\* With interrupts off only the running thread moves, and it moves: no call
\* waits.  The timer is rearmed by every Tick, and Yield sends itself the
\* timer's interrupt; an interrupt that comes while interrupts are off stays
\* pending in the local APIC, so Tick comes if they are on again and again.
FairSpec ==
    /\ Spec
    /\ SF_vars(TimerTick)
    /\ \A t \in Threads : WF_vars(~interrupts /\ Step(t))

-----------------------------------------------------------------------------
TypeOK ==
    /\ SchedTypeOK
    /\ pending \in [Events -> 0 .. MaxPending]
    /\ listeners \in [Events -> Seq(Threads)]
    /\ awaited \in [Threads -> Seq(Events)]
    /\ which \in [Threads -> 0 .. Cardinality(Events)]
    /\ pc \in [Threads -> Pcs]
    /\ child \in [Threads -> Threads]

\* A thread's hook is in one place at most: never twice in the execution
\* queue and never in both queues, and m_IsEnqueued says exactly whether it is
\* in the execution queue (Unblock decides by the flag whether to relink the
\* hook).
QueuedOnce ==
    /\ IsInjective(execQueue)
    /\ ToSet(execQueue) \cap blockedQueue = {}
    /\ \A t \in Threads : enqueued[t] <=> t \in ToSet(execQueue)


\* Yield takes YieldAwaitLock with interrupts off, when nobody could release
\* it.  The lock is free whenever a thread is about to do so: SwitchContext
\* leaves it taken only for a thread it picked again, which happens to no
\* thread that blocks, because the kernel thread is always there to be picked.
YieldLockFree ==
    \A t \in Threads : pc[t] = "yield" => ~yieldAwaitLock[t]

\* Listeners name threads that are inside Await for that event, once each: a
\* trigger never wakes a thread out of some later, unrelated wait.
ListenersAreWaiting ==
    \A e \in Events :
        /\ IsInjective(listeners[e])
        /\ \A t \in ToSet(listeners[e]) :
              pc[t] \in Waiting /\ e \in ToSet(awaited[t])

\* Await never returns for no reason, and the index it returns is that of an
\* event of this very call that has been triggered: its listener is gone.
AwaitReportsFired ==
    \A t \in Threads : pc[t] = "detach" =>
        /\ which[t] \in DOMAIN awaited[t]
        /\ t \notin ToSet(listeners[awaited[t][which[t]]])

\* Blocked with a listener missing: an event of the wait was triggered, and
\* the thread was not made ready.
Stranded(t) ==
    /\ state[t] = "eBlocked"
    /\ \E e \in ToSet(awaited[t]) : t \notin ToSet(listeners[e])

\* The only way to lose a wakeup is a trigger that comes after Await has
\* attached its listeners and before Block has stored eBlocked: the thread
\* strands itself by that store.  No trigger strands a blocked thread, and no
\* Tick does.
LostOnlyBeforeBlocked ==
    [][\A t \in Threads :
         ~Stranded(t) /\ Stranded(t)' => pc[t] = "write" /\ pc'[t] = "release"]_vars

\* A ready thread in the execution queue eventually runs, unless the kernel
\* stops: round robin starves nobody, whatever interrupts and triggers occur.
ReadyRuns ==
    \A t \in Threads :
        (t \in ToSet(execQueue) /\ state[t] = "eReady")
            ~> (current = t \/ panic # "none")

\* EnqueueNotReady's assertion: the hook of the thread that Tick preempts is
\* in no queue.
HookNotLinked == panic # "assert"
=============================================================================

----------------------------- MODULE Scheduler -----------------------------
(***************************************************************************)
(* The round-robin scheduler of one processor: the execution queue, the    *)
(* blocked queue, the intrusive hook that puts a thread in at most one of  *)
(* them, and the timer interrupt (Scheduler::Tick) that switches threads.  *)
(*                                                                         *)
(* Threads are only ever queued on the processor that creates or wakes     *)
(* them, and only the boot processor creates any, so one processor with    *)
(* interrupts is the whole system.  Code that runs with interrupts off is  *)
(* one step; a spin lock that such code finds taken is never released, and *)
(* Spinlock::Acquire gives up with the DEADLOCK panic.                     *)
(***************************************************************************)
EXTENDS Integers, Sequences, SequencesExt, FiniteSets

CONSTANTS
    Threads,        \* every thread the system ever creates
    KernelThread,   \* the boot thread: it ends in a halt loop and never blocks
    Idle            \* CPU::Current()->Idle, never queued

ASSUME ThreadAssumption ==
    /\ KernelThread \in Threads
    /\ Idle \notin Threads
    /\ IsFiniteSet(Threads)

VARIABLES
    state,          \* Thread::m_State
    enqueued,       \* Thread::m_IsEnqueued
    execQueue,      \* ExecutionQueue(cpu)
    blockedQueue,   \* the members of BlockedQueue(cpu), whose order is unused
    current,        \* CPU::GetCurrentThread(), the thread GS points to
    yieldAwaitLock, \* Thread::YieldAwaitLock is taken
    threadLock,     \* Thread::m_Lock is taken
    schedLock,      \* s_Lock is taken
    interrupts,     \* the processor's interrupt flag
    panic           \* why the kernel stopped, "none" while it runs

schedVars == <<state, enqueued, execQueue, blockedQueue, current,
               yieldAwaitLock, threadLock, schedLock, interrupts, panic>>

ThreadState == {"eDequeued", "eReady", "eRunning", "eBlocked", "eExited"}

IsDead(t) == state[t] = "eExited"

\* Thread::Hook.IsLinked(): the hook is in one of the queues.
IsLinked(t) == t \in ToSet(execQueue) \cup blockedQueue

SchedInit ==
    /\ state = [t \in Threads |->
                  IF t = KernelThread THEN "eRunning" ELSE "eDequeued"]
    /\ enqueued = [t \in Threads |-> FALSE]
    /\ execQueue = <<>>
    /\ blockedQueue = {}
    /\ current = KernelThread
    /\ yieldAwaitLock = [t \in Threads \cup {Idle} |-> FALSE]
    /\ threadLock = [t \in Threads |-> FALSE]
    /\ schedLock = FALSE
    /\ interrupts = TRUE
    /\ panic = "none"

SchedTypeOK ==
    /\ state \in [Threads -> ThreadState]
    /\ enqueued \in [Threads -> BOOLEAN]
    /\ execQueue \in Seq(Threads)
    /\ blockedQueue \subseteq Threads
    /\ current \in Threads \cup {Idle}
    /\ yieldAwaitLock \in [Threads \cup {Idle} -> BOOLEAN]
    /\ threadLock \in [Threads -> BOOLEAN]
    /\ schedLock \in BOOLEAN
    /\ interrupts \in BOOLEAN
    /\ panic \in {"none", "assert", "deadlock", "hang"}

-----------------------------------------------------------------------------
\* The kernel stops for good; nothing after a panic is of interest.
Panic(reason) ==
    /\ panic' = reason
    /\ UNCHANGED <<state, enqueued, execQueue, blockedQueue, current,
                   yieldAwaitLock, threadLock, schedLock, interrupts>>

\* How many threads PickReadyThread takes off the queue before a ready one.
Skipped ==
    LET ready == SelectInSeq(execQueue, LAMBDA t : state[t] = "eReady")
    IN  IF ready = 0 THEN Len(execQueue) ELSE ready - 1

\* Blocked threads met on the way are parked.  A dead one is deleted over and
\* over: the loop never takes the next thread.  Any other is queued again.
Parked == {t \in ToSet(SubSeq(execQueue, 1, Skipped)) : state[t] = "eBlocked"}

Requeued ==
    SelectSeq(SubSeq(execQueue, 1, Skipped), LAMBDA t : state[t] # "eBlocked")

PickReadyThread ==
    IF Skipped < Len(execQueue) THEN execQueue[Skipped + 1] ELSE current

PickHangs ==
    \/ \E t \in ToSet(Requeued) : IsDead(t)
    \/ Skipped = Len(execQueue) /\ Requeued # <<>>

QueueAfterPick == SubSeq(execQueue, Skipped + 2, Len(execQueue)) \o Requeued

\* The threads that PickReadyThread leaves in no queue or in the blocked one.
Taken == Parked \cup (IF Skipped < Len(execQueue) THEN {PickReadyThread} ELSE {})

\* SwitchContext finds the current thread picked again: it releases the yield
\* lock and takes it back.
KeepCurrent ==
    /\ PickReadyThread = current
    /\ execQueue' = QueueAfterPick
    /\ blockedQueue' = blockedQueue \cup Parked
    /\ enqueued' = [t \in Threads |-> enqueued[t] /\ t \notin Taken]
    /\ state' = [state EXCEPT ![current] = "eRunning"]
    /\ yieldAwaitLock' = [yieldAwaitLock EXCEPT ![current] = TRUE]
    /\ UNCHANGED <<current, threadLock, schedLock, interrupts, panic>>


\* Mutant: the preempted thread goes to the front.
EnqueueNotReadyInFront(t, queue) ==
    /\ execQueue' = <<t>> \o queue
    /\ enqueued' = [u \in Threads |-> u = t \/ (enqueued[u] /\ u \notin Taken)]
    /\ state' = [state EXCEPT
                   ![t] = IF @ = "eRunning" THEN "eReady" ELSE @,
                   ![PickReadyThread] = "eRunning"]

\* SwitchContext to another thread: EnqueueNotReady puts the current one at
\* the back of the queue, ready unless it is blocked.
EnqueueNotReady(t, queue) ==
    /\ execQueue' = Append(queue, t)
    /\ enqueued' = [u \in Threads |-> u = t \/ (enqueued[u] /\ u \notin Taken)]
    /\ state' = [state EXCEPT
                   ![t] = IF @ = "eRunning" THEN "eReady" ELSE @,
                   ![PickReadyThread] = "eRunning"]

SwitchFromThread ==
    /\ PickReadyThread # current
    /\ current # Idle
    /\ EnqueueNotReady(current, QueueAfterPick)
    /\ blockedQueue' = blockedQueue \cup Parked
    /\ yieldAwaitLock' = [yieldAwaitLock EXCEPT ![current] = FALSE]
    /\ current' = PickReadyThread
    /\ UNCHANGED <<threadLock, schedLock, interrupts, panic>>

\* After Yield(false) of a dying thread the current thread is Idle.
SwitchFromIdle ==
    /\ current = Idle
    /\ PickReadyThread # Idle
    /\ execQueue' = QueueAfterPick
    /\ blockedQueue' = blockedQueue \cup Parked
    /\ enqueued' = [t \in Threads |-> enqueued[t] /\ t \notin Taken]
    /\ state' = [state EXCEPT ![PickReadyThread] = "eRunning"]
    /\ yieldAwaitLock' = [yieldAwaitLock EXCEPT ![Idle] = FALSE]
    /\ current' = PickReadyThread
    /\ UNCHANGED <<threadLock, schedLock, interrupts, panic>>

SwitchContext == KeepCurrent \/ SwitchFromThread \/ SwitchFromIdle

\* EnqueueNotReady asserts that the hook of the preempted thread is free
\* once the picked and the parked threads have left the queue.
HookStillLinked ==
    /\ current # Idle
    /\ PickReadyThread # current
    /\ current \in ToSet(QueueAfterPick) \cup blockedQueue \cup Parked

\* A lock that Tick needs is held by the code it interrupted.
TickNeedsTakenLock ==
    \/ /\ PickReadyThread # current
       /\ current # Idle
       /\ schedLock \/ (state[current] = "eRunning" /\ threadLock[current])
    \/ PickReadyThread # Idle /\ threadLock[PickReadyThread]
    \/ Requeued # <<>> /\ schedLock

TickStops ==
    CASE PickHangs -> "hang"
      [] ~PickHangs /\ HookStillLinked -> "assert"
      [] ~PickHangs /\ ~HookStillLinked /\ TickNeedsTakenLock -> "deadlock"
      [] OTHER -> "none"

\* The scheduler timer's interrupt, or the one Yield and Unblock send.
Tick ==
    /\ panic = "none"
    /\ interrupts
    /\ IF TickStops = "none" THEN SwitchContext ELSE Panic(TickStops)

-----------------------------------------------------------------------------
\* EnqueueThread for a thread nobody else knows of yet, called with interrupts
\* on (fork, exec, CreateThread): s_Lock is held across a few instructions.
LockScheduler == ~schedLock /\ schedLock' = TRUE

EnqueueThread(t) ==
    /\ enqueued' = [enqueued EXCEPT ![t] = TRUE]
    /\ state' = [state EXCEPT ![t] = "eReady"]
    /\ execQueue' = Append(execQueue, t)

UnlockScheduler == schedLock' = FALSE

\* Mutant: m_IsEnqueued is not tested.
ToEnqueueAlways(ts) == SelectSeq(ts, LAMBDA t : state[t] = "eBlocked")

\* Unblock for each thread of a sequence, in order.  A thread still in the
\* execution queue becomes ready where it is, one that is parked or in no
\* queue goes to the back.
ToEnqueue(ts) ==
    SelectSeq(ts, LAMBDA t : state[t] = "eBlocked" /\ ~enqueued[t])

UnblockNeedsTakenLock(ts) ==
    \/ \E t \in ToSet(ts) : state[t] = "eBlocked" /\ threadLock[t]
    \/ ToEnqueue(ts) # <<>> /\ schedLock

\* Mutant: a thread still in the execution queue is left alone.
UnblockParkedOnly(ts) ==
    /\ state' = [t \in Threads |->
                   IF t \in ToSet(ToEnqueue(ts)) THEN "eReady" ELSE state[t]]
    /\ execQueue' = execQueue \o ToEnqueue(ts)
    /\ blockedQueue' = blockedQueue \ ToSet(ToEnqueue(ts))
    /\ enqueued' = [t \in Threads |-> enqueued[t] \/ t \in ToSet(ToEnqueue(ts))]

Unblock(ts) ==
    /\ state' = [t \in Threads |->
                   IF t \in ToSet(ts) /\ state[t] = "eBlocked"
                     THEN "eReady" ELSE state[t]]
    /\ execQueue' = execQueue \o ToEnqueue(ts)
    /\ blockedQueue' = blockedQueue \ ToSet(ToEnqueue(ts))
    /\ enqueued' = [t \in Threads |-> enqueued[t] \/ t \in ToSet(ToEnqueue(ts))]

=============================================================================

------------------------------ MODULE Process ------------------------------
(***************************************************************************)
(* The life of processes: fork, exec, exit, wait, process groups, and the  *)
(* signals the terminal sends to a group.                                  *)
(*                                                                         *)
(* Every user process has one thread.  Fork, exec and exit run with        *)
(* interrupts off and are one step each.  WaitPid runs with interrupts on: *)
(* it selects children, then calls Event::Await on their events.  Of an    *)
(* event the model keeps what module Event shows: a trigger with no        *)
(* listener is remembered; one with listeners removes them, and makes a    *)
(* listener run only if it has already stored eBlocked.  A signal is acted *)
(* upon by the scheduler when it picks the thread, while another thread is *)
(* still the current one.                                                  *)
(***************************************************************************)
EXTENDS Integers, Sequences, SequencesExt, FiniteSets, FiniteSetsExt

CONSTANTS
    Procs,      \* the Process objects; none is used twice
    InitProc,   \* init: it never leaves its loop of fork and wait
    Kernel,     \* the kernel process, parent of init and not in s_Processes
    None,
    MaxPid,     \* bound on pids
    WaitArgs,   \* bound: the pid arguments of WaitPid
    JobControl  \* bound: whether programs change their process group

ASSUME ProcAssumption ==
    /\ InitProc \in Procs
    /\ {Kernel, None} \cap Procs = {}
    /\ MaxPid \in Nat \ {0}
    /\ WaitArgs \subseteq -MaxPid .. MaxPid
    /\ JobControl \in BOOLEAN

VARIABLES
    life,       \* "none" before fork, "live", "dead" (ProcessState::eDead)
    thread,     \* "live" or "dead" (eExited): the process's thread
    pid,        \* m_Pid
    parent,     \* m_Parent
    children,   \* m_Children, from which nothing is ever removed
    processes,  \* s_Processes: pid -> process
    pgid,       \* m_Credentials.ProcessGroupID
    sid,        \* m_Credentials.SessionID
    signal,     \* a terminating signal is in m_PendingSignals
    pending,    \* m_Event.Pending
    wait,       \* the WaitPid call a process is in
    reaped      \* how often WaitPid returned the process

famVars == <<life, thread, pid, parent, children, processes>>
idVars == <<pgid, sid>>
waitVars == <<pending, wait, reaped>>
vars == <<famVars, idVars, signal, waitVars>>

Pids == 1 .. MaxPid

NoWait == [at |-> "none", procs |-> <<>>, heard |-> {}, which |-> 0]

\* selected: the children are chosen; attached: listening, eBlocked not stored;
\* blocked: eBlocked stored; woken: made ready again.
Phases == {"none", "selected", "attached", "blocked", "woken"}

Init ==
    /\ life = [p \in Procs |-> IF p = InitProc THEN "live" ELSE "none"]
    /\ thread = [p \in Procs |-> IF p = InitProc THEN "live" ELSE "none"]
    /\ pid = [p \in Procs |-> IF p = InitProc THEN 1 ELSE 0]
    /\ parent = [p \in Procs |-> IF p = InitProc THEN Kernel ELSE None]
    /\ children = [p \in Procs |-> <<>>]
    /\ processes = [i \in Pids |-> IF i = 1 THEN InitProc ELSE None]
    /\ pgid = [p \in Procs |-> 0]
    /\ sid = [p \in Procs |-> 0]
    /\ signal = [p \in Procs |-> FALSE]
    /\ pending = [p \in Procs |-> 0]
    /\ wait = [p \in Procs |-> NoWait]
    /\ reaped = [p \in Procs |-> 0]

\* Process p is running and in no WaitPid call.
Runs(p) == thread[p] = "live" /\ wait[p].at = "none"

-----------------------------------------------------------------------------
\* The pid AllocatePid returns: the lowest that is not in use.
AllocatePid(i) ==
    /\ processes[i] = None
    /\ \A j \in Pids : j < i => processes[j] # None

Fork(p, c) ==
    /\ Runs(p)
    /\ life[c] = "none"
    /\ \E i \in Pids :
          /\ AllocatePid(i)
          /\ pid' = [pid EXCEPT ![c] = i]
          /\ processes' = [processes EXCEPT ![i] = c]
    /\ life' = [life EXCEPT ![c] = "live"]
    /\ thread' = [thread EXCEPT ![c] = "live"]
    /\ parent' = [parent EXCEPT ![c] = p]
    /\ children' = [children EXCEPT ![p] = Append(@, c)]
    /\ pgid' = [pgid EXCEPT ![c] = pgid[p]]
    /\ sid' = [sid EXCEPT ![c] = sid[p]]
    /\ UNCHANGED <<signal, waitVars>>

\* Exec replaces the thread, and with it the pending signals.
Exec(p) ==
    /\ Runs(p)
    /\ p # InitProc
    /\ signal' = [signal EXCEPT ![p] = FALSE]
    /\ UNCHANGED <<famVars, idVars, waitVars>>

\* Those that listen to the event of process c, and its index in their call.
Listens(p, c) ==
    /\ wait[p].at \in {"attached", "blocked", "woken"}
    /\ \E i \in DOMAIN wait[p].procs : wait[p].procs[i] = c /\ i \notin wait[p].heard

IndexOf(p, c) == SelectInSeq(wait[p].procs, LAMBDA q : q = c)

\* Mutant: Trigger leaves the listeners in place.
TriggerExitKept(c, alive) ==
    /\ pending' = [pending EXCEPT ![c] = @ + 1]
    /\ wait' = [p \in Procs |->
                  IF ~Listens(p, c) THEN wait[p]
                  ELSE [wait[p] EXCEPT
                          !.which = IndexOf(p, c),
                          !.at = IF @ = "blocked" /\ p \in alive
                                   THEN "woken" ELSE @]]

\* Mutant: an exit nobody listens to is dropped.
TriggerExitDropped(c, alive) ==
    /\ pending' = pending
    /\ wait' = [p \in Procs |->
                  IF ~Listens(p, c) THEN wait[p]
                  ELSE [wait[p] EXCEPT
                          !.heard = @ \cup {IndexOf(p, c)},
                          !.which = IndexOf(p, c),
                          !.at = IF @ = "blocked" /\ p \in alive
                                   THEN "woken" ELSE @]]

\* Event::Trigger on c's event.  A dead thread is not eBlocked.
TriggerExit(c, alive) ==
    /\ pending' = [pending EXCEPT ![c] =
                     IF \E p \in Procs : Listens(p, c) THEN @ ELSE @ + 1]
    /\ wait' = [p \in Procs |->
                  IF ~Listens(p, c) THEN wait[p]
                  ELSE [wait[p] EXCEPT
                          !.heard = @ \cup {IndexOf(p, c)},
                          !.which = IndexOf(p, c),
                          !.at = IF @ = "blocked" /\ p \in alive
                                   THEN "woken" ELSE @]]

\* Mutant: the children keep their dead parent.
ExitByKeepsChildren(p, r) ==
    /\ life' = [life EXCEPT ![p] = "dead"]
    /\ thread' = [q \in Procs |-> IF q \in {p, r} THEN "dead" ELSE thread[q]]
    /\ processes' = [processes EXCEPT ![pid[p]] = None]
    /\ TriggerExit(p, {q \in Procs \ {p, r} : thread[q] = "live"})
    /\ UNCHANGED <<parent, children, pid, reaped>>

\* Mutant: the process stays in s_Processes.
ExitByKeepsPid(p, r) ==
    /\ life' = [life EXCEPT ![p] = "dead"]
    /\ thread' = [q \in Procs |-> IF q \in {p, r} THEN "dead" ELSE thread[q]]
    /\ parent' = [q \in Procs |->
                    IF q \in ToSet(children[p]) THEN processes[1] ELSE parent[q]]
    /\ children' = [children EXCEPT ![processes[1]] = @ \o children[p]]
    /\ TriggerExit(p, {q \in Procs \ {p, r} : thread[q] = "live"})
    /\ UNCHANGED <<processes, pid, reaped>>

\* Mutant: the process that exits is not marked dead.
ExitByForgetsState(p, r) ==
    /\ thread' = [q \in Procs |-> IF q \in {p, r} THEN "dead" ELSE thread[q]]
    /\ parent' = [q \in Procs |->
                    IF q \in ToSet(children[p]) THEN processes[1] ELSE parent[q]]
    /\ children' = [children EXCEPT ![processes[1]] = @ \o children[p]]
    /\ processes' = [processes EXCEPT ![pid[p]] = None]
    /\ TriggerExit(p, {q \in Procs \ {p, r} : thread[q] = "live"})
    /\ UNCHANGED <<life, pid, reaped>>

\* Process::Exit of p, executed by the thread of process r: that thread, and
\* the threads of p, are dead afterwards.  Children go to the subreaper.
ExitBy(p, r) ==
    /\ life' = [life EXCEPT ![p] = "dead"]
    /\ thread' = [q \in Procs |-> IF q \in {p, r} THEN "dead" ELSE thread[q]]
    /\ parent' = [q \in Procs |->
                    IF q \in ToSet(children[p]) THEN processes[1] ELSE parent[q]]
    /\ children' = [children EXCEPT ![processes[1]] = @ \o children[p]]
    /\ processes' = [processes EXCEPT ![pid[p]] = None]
    /\ TriggerExit(p, {q \in Procs \ {p, r} : thread[q] = "live"})
    /\ UNCHANGED <<pid, reaped>>

Exit(p) ==
    /\ Runs(p)
    /\ p # InitProc
    /\ ExitBy(p, p)
    /\ UNCHANGED <<idVars, signal>>

-----------------------------------------------------------------------------
\* The children WaitPid(arg) waits for.
Selected(p, arg) ==
    LET First(Test(_)) == LET i == SelectInSeq(children[p], Test)
                          IN  IF i = 0 THEN <<>> ELSE <<children[p][i]>>
    IN  CASE arg = -1 -> children[p]
          [] arg < -1 -> First(LAMBDA c : pgid[c] = -arg)
          [] arg = 0  -> First(LAMBDA c : pgid[c] = pgid[p])
          [] arg > 0  -> First(LAMBDA c : pid[c] = arg)

WaitSelect(p, arg) ==
    /\ Runs(p)
    /\ Selected(p, arg) # <<>>
    /\ wait' = [wait EXCEPT ![p] =
                  [NoWait EXCEPT !.at = "selected", !.procs = Selected(p, arg)]]
    /\ UNCHANGED <<famVars, idVars, signal, pending, reaped>>

\* WaitPid returns child c; the status it stores is not modelled.
Report(p, c) ==
    /\ reaped' = [reaped EXCEPT ![c] = @ + 1]
    /\ wait' = [wait EXCEPT ![p] = NoWait]

\* Mutant: the pending exit is taken from the first child of the call.
WaitAwaitFirst(p, block) ==
    LET i == SelectInSeq(wait[p].procs, LAMBDA c : pending[c] > 0)
    IN  /\ thread[p] = "live"
        /\ wait[p].at = "selected"
        /\ i # 0
        /\ pending' = [pending EXCEPT ![wait[p].procs[1]] = @ - 1]
        /\ Report(p, wait[p].procs[i])
        /\ UNCHANGED <<famVars, idVars, signal>>

\* Event::Await up to Block, interrupts off.
WaitAwait(p, block) ==
    LET i == SelectInSeq(wait[p].procs, LAMBDA c : pending[c] > 0)
    IN  /\ thread[p] = "live"
        /\ wait[p].at = "selected"
        /\ \/ /\ i # 0
              /\ pending' = [pending EXCEPT ![wait[p].procs[i]] = @ - 1]
              /\ Report(p, wait[p].procs[i])
           \/ /\ i = 0
              /\ wait' = IF block THEN [wait EXCEPT ![p].at = "attached"]
                                  ELSE [wait EXCEPT ![p] = NoWait]
              /\ UNCHANGED <<pending, reaped>>
        /\ UNCHANGED <<famVars, idVars, signal>>

WaitBlock(p) ==
    /\ thread[p] = "live"
    /\ wait[p].at = "attached"
    /\ wait' = [wait EXCEPT ![p].at = "blocked"]
    /\ UNCHANGED <<famVars, idVars, signal, pending, reaped>>

WaitReturn(p) ==
    /\ thread[p] = "live"
    /\ wait[p].at = "woken"
    /\ Report(p, wait[p].procs[wait[p].which])
    /\ UNCHANGED <<famVars, idVars, signal, pending>>

-----------------------------------------------------------------------------
\* setpgid on the caller or one of its children.
SetPGid(p, i, g) ==
    LET q == IF i = 0 THEN p ELSE processes[i]
    IN  /\ Runs(p) /\ JobControl
        /\ p # InitProc
        /\ q # None
        /\ q = p \/ q \in ToSet(children[p])
        /\ \/ g = 0 /\ pgid' = [pgid EXCEPT ![q] = pid[q]]
           \/ /\ g # 0
              /\ processes[g] # None
              /\ sid[q] = sid[processes[g]]
              /\ pgid' = [pgid EXCEPT ![q] = g]
        /\ UNCHANGED <<famVars, sid, signal, waitVars>>

SetSid(p) ==
    /\ Runs(p) /\ JobControl
    /\ p # InitProc
    /\ pid[p] # pgid[p]
    /\ pgid' = [pgid EXCEPT ![p] = pid[p]]
    /\ sid' = [sid EXCEPT ![p] = pid[p]]
    /\ UNCHANGED <<famVars, signal, waitVars>>

\* The terminal sends a terminating signal to its foreground group.
SendGroupSignal(g) ==
    /\ \E p \in Procs : pgid[p] = g
    /\ signal' = [p \in Procs |->
                    signal[p] \/ (life[p] = "live" /\ pgid[p] = g)]
    /\ UNCHANGED <<famVars, idVars, waitVars>>

\* PickReadyThread has picked the thread of p and acts on its signal while
\* the thread of process r (or of no user process) is the current one: Exit
\* takes Thread::Current() for the thread of p.
DispatchSignal(p, r) ==
    /\ thread[p] = "live"
    /\ wait[p].at # "blocked"
    /\ signal[p]
    /\ r # None => r # p /\ thread[r] = "live"
    /\ signal' = [signal EXCEPT ![p] = FALSE]
    /\ \/ pid[p] # pgid[p] /\ ExitBy(p, r)
       \/ pid[p] = pgid[p] /\ UNCHANGED <<famVars, waitVars>>
    /\ UNCHANGED idVars

Next ==
    \/ \E p \in Procs :
          \/ \E c \in Procs : Fork(p, c)
          \/ Exec(p)
          \/ Exit(p)
          \/ \E arg \in WaitArgs : WaitSelect(p, arg)
          \/ \E block \in BOOLEAN : WaitAwait(p, block)
          \/ WaitBlock(p)
          \/ WaitReturn(p)
          \/ \E i, g \in 0 .. MaxPid : SetPGid(p, i, g)
          \/ SetSid(p)
          \/ \E r \in Procs \cup {None} : DispatchSignal(p, r)
    \/ \E g \in Pids : SendGroupSignal(g)

Spec == Init /\ [][Next]_vars

-----------------------------------------------------------------------------
TypeOK ==
    /\ life \in [Procs -> {"none", "live", "dead"}]
    /\ thread \in [Procs -> {"none", "live", "dead"}]
    /\ pid \in [Procs -> 0 .. MaxPid]
    /\ parent \in [Procs -> Procs \cup {Kernel, None}]
    /\ children \in [Procs -> Seq(Procs)]
    /\ processes \in [Pids -> Procs \cup {None}]
    /\ pgid \in [Procs -> 0 .. MaxPid]
    /\ sid \in [Procs -> 0 .. MaxPid]
    /\ signal \in [Procs -> BOOLEAN]
    /\ pending \in [Procs -> 0 .. 1]
    /\ \A p \in Procs :
          /\ wait[p].at \in Phases
          /\ wait[p].heard \subseteq DOMAIN wait[p].procs

\* The process table holds exactly the live processes under their own pids,
\* so no two live processes share a pid, although a pid is free for the next
\* fork as soon as its process exits, waited for or not.
ProcessTableExact ==
    \A p \in Procs : life[p] = "live" <=>
        \E i \in Pids : processes[i] = p /\ pid[p] = i

\* Every live process but init has a live parent that lists it among its
\* children, through any sequence of forks, exits and adoptions by init.
LiveProcessHasParent ==
    \A p \in Procs \ {InitProc} : life[p] = "live" =>
        /\ parent[p] \in Procs
        /\ life[parent[p]] = "live"
        /\ p \in ToSet(children[parent[p]])

\* WaitPid returns a process at most once in its life, and only after it has
\* exited: whichever of its parents waits, and although the child stays in
\* m_Children.
ReapedOnceAfterExit ==
    \A c \in Procs : reaped[c] <= 1 /\ (reaped[c] = 1 => life[c] = "dead")

\* The exit of c is remembered by its event or on its way to a waiter.
Known(c) ==
    \/ pending[c] > 0
    \/ \E p \in Procs :
          /\ thread[p] = "live"
          /\ wait[p].at = "woken"
          /\ wait[p].procs[wait[p].which] = c

ExitLost(c) == life[c] = "dead" /\ reaped[c] = 0 /\ ~Known(c)

\* An exit is lost to WaitPid only in these ways: the waiter has attached its
\* listeners and not yet stored eBlocked, or it is dead; or the waiter has been
\* woken for this exit and, before it runs, it is killed or another child it
\* waits for exits too and overwrites Thread::Which().
ExitLostOnlyByRace ==
    [][\A c \in Procs : ~ExitLost(c) /\ ExitLost(c)' =>
         \E p \in Procs :
            \/ Listens(p, c) /\ (wait[p].at = "attached" \/ thread'[p] = "dead")
            \/ /\ wait[p].at = "woken"
               /\ wait[p].procs[wait[p].which] = c
               /\ thread'[p] = "dead" \/ wait'[p].which # wait[p].which]_vars

\* A live process loses its thread in one way only: the scheduler acts on the
\* signal of another process while this one is interrupted, and Exit kills
\* the interrupted thread with the signalled process.
ThreadLostOnlyBySignal ==
    [][\A p \in Procs :
         thread[p] = "live" /\ thread'[p] = "dead" /\ life'[p] = "live" =>
            \E q \in Procs \ {p} :
               signal[q] /\ ~signal'[q] /\ life[q] = "live" /\ life'[q] = "dead"]_vars
=============================================================================

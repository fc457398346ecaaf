-------------------------------- MODULE TTY --------------------------------
(***************************************************************************)
(* The line discipline of a terminal: characters from the keyboard         *)
(* interrupt are edited into lines, and processes read lines or            *)
(* characters, sleeping on two events.                                     *)
(*                                                                         *)
(* System calls run with interrupts on, so a key may come between any two  *)
(* steps of a read, except inside Event::Await up to the attached listener.*)
(* The step of a reader is the next thing it will do:                      *)
(*   await     the mode is known; call Event::Await                        *)
(*   attached  listening, eBlocked not stored yet                          *)
(*   blocked   asleep                                                      *)
(*   lock      acquire m_RawLock                                           *)
(*   locked    take what there is and release m_RawLock                    *)
(*   lost      asleep on an event that has fired (see module Event)        *)
(***************************************************************************)
EXTENDS Integers, Sequences, SequencesExt, FiniteSets, FiniteSetsExt

CONSTANTS
    Readers,    \* threads that read the terminal
    Chars,      \* the characters that are typed
    Capacity,   \* the size of m_RawBuffer
    MaxBytes,   \* bound: the largest count of a read
    MaxPending, \* bound: the largest Pending of m_RawEvent when a key is typed
    MaxLines    \* bound: the lines, and the Pending of m_OnAddLine, likewise

ASSUME TTYAssumption ==
    /\ Chars \subseteq {"x", "space", "nl", "cr", "eof", "kill", "erase", "werase",
                        "nul", "intr", "esc"}
    /\ {Capacity, MaxBytes, MaxPending, MaxLines} \subseteq Nat \ {0}

VARIABLES
    raw,        \* m_RawBuffer: which characters are spaces
    lines,      \* m_LineQueue: the lengths of the lines
    termios,    \* m_Termios: ICANON and ISIG
    event,      \* m_OnAddLine ("line") and m_RawEvent ("raw")
    pc,         \* the next step of each reader
    want,       \* the event each reader's call is about, and its count
    panic,      \* Spinlock::Acquire gave up
    shared,     \* some trigger of m_OnAddLine found several readers
    overlap,    \* some read began during another one
    underflow   \* a line was taken from an empty m_LineQueue

ghosts == <<shared, overlap, underflow>>

vars == <<raw, lines, termios, event, pc, want, panic, ghosts>>

Events == {"line", "raw"}

NoWant == [event |-> "line", count |-> 1]

Init ==
    /\ raw = <<>>
    /\ lines = <<>>
    /\ termios = [canon |-> TRUE, isig |-> TRUE]
    /\ event = [e \in Events |-> [pending |-> 0, listeners |-> {}]]
    /\ pc = [r \in Readers |-> "idle"]
    /\ want = [r \in Readers |-> NoWant]
    /\ panic = FALSE
    /\ shared = FALSE
    /\ overlap = FALSE
    /\ underflow = FALSE

-----------------------------------------------------------------------------
(* Events. *)


\* Event::Trigger: without listeners it is remembered; a listener that is not
\* asleep yet goes to sleep after it and is not woken.
Triggered(s, e) ==
    IF s.event[e].listeners = {}
      THEN [s EXCEPT !.event[e].pending = @ + 1]
      ELSE [event |-> [s.event EXCEPT ![e].listeners = {}],
            pc    |-> [r \in Readers |->
                         IF r \notin s.event[e].listeners THEN s.pc[r]
                         ELSE IF s.pc[r] = "blocked" THEN "lock" ELSE "lost"]]

\* Event::Await that finds nothing pending attaches a listener.
Attach(r, e) ==
    /\ event[e].pending = 0
    /\ event' = [event EXCEPT ![e].listeners = @ \cup {r}]
    /\ pc' = [pc EXCEPT ![r] = "attached"]

ConsumeKept(r, e) ==
    /\ event[e].pending > 0
    /\ UNCHANGED event
    /\ pc' = [pc EXCEPT ![r] = "lock"]

\* Event::Await that finds the event pending.
Consume(r, e) ==
    /\ event[e].pending > 0
    /\ event' = [event EXCEPT ![e].pending = @ - 1]
    /\ pc' = [pc EXCEPT ![r] = "lock"]

-----------------------------------------------------------------------------
(* Input. *)

Stored(c) == IF c = "space" THEN c ELSE "x"

PutUnchecked(s, c) == {Append(s, Stored(c))}

\* What Push does with a full queue is the container's choice: it drops the
\* new character or the oldest one.
Put(s, c) ==
    IF Len(s) < Capacity THEN {Append(s, Stored(c))} ELSE {s, Append(Tail(s), Stored(c))}

\* How much of s is left when its last word, and the spaces before it, go.
WordStart(s) ==
    LET space == Max({0} \cup {i \in DOMAIN s : s[i] = "space"})
    IN  Max({0} \cup {i \in 1 .. space : s[i] # "space"})

\* The raw buffer and the new lines after one character.  Which end PopFront
\* takes a character from is the container's choice; when it is the oldest,
\* EraseWord never sees another last character and erases everything.
OnCanonChar(c) ==
    CASE c = "esc"    -> {[raw |-> raw, add |-> <<>>]}
      [] c = "eof"    -> {[raw |-> <<>>, add |-> <<Len(raw)>>]}
      [] c = "kill"   -> {[raw |-> <<>>, add |-> <<>>]}
      [] c = "erase"  -> {[raw |-> s, add |-> <<>>] :
                             s \in IF raw = <<>> THEN {raw} ELSE {Tail(raw), Front(raw)}}
      [] c = "werase" -> {[raw |-> s, add |-> <<>>] : s \in {<<>>, SubSeq(raw, 1, WordStart(raw))}}
      [] c = "nl"     -> {[raw |-> <<>>, add |-> <<Len(s)>>] : s \in Put(raw, c)}
      [] c = "nul"    -> {[raw |-> s, add |-> <<Len(raw)>>] : s \in Put(<<>>, c)}
      [] OTHER        -> {[raw |-> s, add |-> <<>>] : s \in Put(raw, c)}

OnChar(c) ==
    IF termios.isig /\ c = "intr" THEN {[raw |-> raw, add |-> <<>>]}
    ELSE LET d == IF c = "cr" THEN "nl" ELSE c
         IN  IF termios.canon THEN OnCanonChar(d)
             ELSE {[raw |-> s, add |-> <<>>] : s \in Put(raw, d)}

\* A reader is inside m_RawLock.
Locked == \E r \in Readers : pc[r] = "locked"

\* EnqueueChar, AddLine, KillLine and EraseChar take m_RawLock; EraseWord looks
\* at the buffer first, signals and escape sequences never touch it.
NeedsLock(c) ==
    /\ ~(termios.isig /\ c = "intr")
    /\ termios.canon => c # "esc" /\ (c = "werase" => raw # <<>>)

SendBufferQuiet(c) ==
    /\ ~panic
    /\ Len(lines) < MaxLines
    /\ event["line"].pending < MaxLines /\ event["raw"].pending < MaxPending
    /\ IF NeedsLock(c) /\ Locked
         THEN panic' = TRUE /\ UNCHANGED <<raw, lines, event, pc, shared>>
         ELSE \E o \in OnChar(c) :
                 LET s0 == [event |-> event, pc |-> pc]
                     s1 == IF o.add = <<>> THEN s0 ELSE Triggered(s0, "line")
                 IN  /\ raw' = o.raw
                     /\ lines' = lines \o o.add
                     /\ event' = s1.event /\ pc' = s1.pc
                     /\ shared' = (shared \/ (o.add # <<>>
                                      /\ Cardinality(event["line"].listeners) > 1))
                     /\ UNCHANGED panic
    /\ UNCHANGED <<termios, want, overlap, underflow>>

\* SendBuffer with one character, or with one escape sequence, from the
\* keyboard interrupt.  When the code it interrupted holds m_RawLock nobody
\* will release it.
SendBuffer(c) ==
    /\ ~panic
    /\ Len(lines) < MaxLines
    /\ event["line"].pending < MaxLines /\ event["raw"].pending < MaxPending
    /\ IF NeedsLock(c) /\ Locked
         THEN panic' = TRUE /\ UNCHANGED <<raw, lines, event, pc, shared>>
         ELSE \E o \in OnChar(c) :
                 LET s0 == [event |-> event, pc |-> pc]
                     s1 == IF o.add = <<>> THEN s0 ELSE Triggered(s0, "line")
                     s2 == Triggered(s1, "raw")
                 IN  /\ raw' = o.raw
                     /\ lines' = lines \o o.add
                     /\ event' = s2.event /\ pc' = s2.pc
                     /\ shared' = (shared \/ (o.add # <<>>
                                      /\ Cardinality(event["line"].listeners) > 1))
                     /\ UNCHANGED panic
    /\ UNCHANGED <<termios, want, overlap, underflow>>

-----------------------------------------------------------------------------
(* Read, and the requests that set the termios. *)

\* Read up to the Await: the mode, and the size of the raw buffer, are looked
\* at without the lock.
Read(r, count) ==
    LET e == IF termios.canon THEN "line" ELSE "raw"
    IN  /\ ~panic
        /\ pc[r] = "idle"
        /\ want' = [want EXCEPT ![r] = [event |-> e, count |-> count]]
        /\ pc' = [pc EXCEPT ![r] = IF e = "raw" /\ Len(raw) >= count THEN "lock" ELSE "await"]
        /\ overlap' = (overlap \/ \E q \in Readers \ {r} : pc[q] # "idle")
        /\ UNCHANGED <<raw, lines, termios, event, panic, shared, underflow>>

Await(r) ==
    /\ ~panic
    /\ pc[r] = "await"
    /\ Consume(r, want[r].event) \/ Attach(r, want[r].event)
    /\ UNCHANGED <<raw, lines, termios, want, panic, ghosts>>

\* Scheduler::Block stores eBlocked.
Block(r) ==
    /\ ~panic
    /\ pc[r] = "attached"
    /\ pc' = [pc EXCEPT ![r] = "blocked"]
    /\ UNCHANGED <<raw, lines, termios, event, want, panic, ghosts>>

Lock(r) ==
    /\ ~panic
    /\ pc[r] = "lock"
    /\ ~Locked
    /\ pc' = [pc EXCEPT ![r] = "locked"]
    /\ UNCHANGED <<raw, lines, termios, event, want, panic, ghosts>>

\* A line goes to one read; what does not fit in its buffer is dropped.
TakeLine ==
    /\ underflow' = (underflow \/ lines = <<>>)
    /\ lines' = IF lines = <<>> THEN lines ELSE Tail(lines)
    /\ UNCHANGED raw

TakeRaw(count) ==
    LET n == Min({count, Len(raw)})
    IN  /\ raw' = SubSeq(raw, n + 1, Len(raw))
        /\ UNCHANGED <<lines, underflow>>

\* The rest of Read, under the lock.
Take(r) ==
    /\ ~panic
    /\ pc[r] = "locked"
    /\ pc' = [pc EXCEPT ![r] = "idle"]
    /\ want' = [want EXCEPT ![r] = NoWant]
    /\ \/ want[r].event = "line" /\ TakeLine
       \/ want[r].event = "raw" /\ TakeRaw(want[r].count)
    /\ UNCHANGED <<termios, event, panic, shared, overlap>>

\* TCSETS, TCSETSW and TCSETSF drop what is in the raw buffer.
SetTermios(canon, isig) ==
    /\ ~panic
    /\ termios' = [canon |-> canon, isig |-> isig]
    /\ raw' = <<>>
    /\ UNCHANGED <<lines, event, pc, want, panic, ghosts>>

\* TCSETS2, TCSETSW2 and TCSETSF2 do not.
SetTermios2(canon, isig) ==
    /\ ~panic
    /\ termios' = [canon |-> canon, isig |-> isig]
    /\ UNCHANGED <<raw, lines, event, pc, want, panic, ghosts>>

Next ==
    \/ \E c \in Chars : SendBuffer(c)
    \/ \E r \in Readers :
          \/ \E count \in 1 .. MaxBytes : Read(r, count)
          \/ Await(r)
          \/ Block(r)
          \/ Lock(r)
          \/ Take(r)
    \/ \E canon, isig \in BOOLEAN : SetTermios(canon, isig) \/ SetTermios2(canon, isig)

Spec == Init /\ [][Next]_vars

-----------------------------------------------------------------------------
(* Properties. *)

Steps == {"idle", "await", "attached", "blocked", "lock", "locked", "lost"}

\* Type correctness: the raw buffer keeps its capacity.
TypeOK ==
    /\ raw \in Seq({"space", "x"}) /\ Len(raw) <= Capacity
    /\ lines \in Seq(0 .. Capacity)
    /\ termios \in [canon : BOOLEAN, isig : BOOLEAN]
    /\ event \in [Events -> [pending : Nat, listeners : SUBSET Readers]]
    /\ pc \in [Readers -> Steps]
    /\ want \in [Readers -> [event : Events, count : 1 .. MaxBytes]]
    /\ {panic, shared, overlap, underflow} \subseteq BOOLEAN

LineReadersAt(steps) == {r \in Readers : pc[r] \in steps /\ want[r].event = "line"}


\* A read takes a line from an empty queue only after one line has woken
\* several readers (Trigger wakes every listener, Read pops unconditionally):
\* otherwise the pending count and the queue never part, wherever keys and
\* changes of mode fall between the steps of the reads.
UnderflowOnlyShared == underflow => shared

\* As long as reads do not overlap, a reader that waits for characters is
\* short of them, although Read looks at the size of the buffer before it
\* waits and keys come in between: every key, also one that is edited away or
\* raises a signal, ends in a trigger of m_RawEvent, which Await remembers.
RawWaiterIsShort ==
    ~overlap => \A r \in event["raw"].listeners : Len(raw) < want[r].count

\* Spinlock::Acquire never gives up with the DEADLOCK panic.
NoDeadlockPanic == ~panic
=============================================================================

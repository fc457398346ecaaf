-------------------------- MODULE FileDescriptors --------------------------
(***************************************************************************)
(* File descriptors: the descriptor table of each process, the open files  *)
(* (class FileDescriptor) that several numbers and several processes may   *)
(* share, and their offsets.                                               *)
(*                                                                         *)
(* User processes have one thread, so calls on one table do not overlap.   *)
(* Calls on one open file do: read and write pick up m_Offset before they  *)
(* take the open file's lock.                                              *)
(***************************************************************************)
EXTENDS Integers, Sequences, SequencesExt, FiniteSets

CONSTANTS
    Procs,      \* processes; the first one exists from the start
    First,
    Descs,      \* the FileDescriptor objects that processes open
    Terminal,   \* the open file that stands for the standard streams
    None,
    MaxFd,      \* bound on descriptor numbers
    MaxOffset,  \* bound on offsets
    Requests,   \* bound: the numbers dup2 asks for; -1 is dup's
    Modes,      \* bound: the access modes of the files opened
    Closed,     \* bound: the numbers that programs close
    Positions   \* bound: the positions of seek, pread and pwrite

ASSUME FdAssumption ==
    /\ First \in Procs
    /\ {Terminal, None} \cap Descs = {} /\ Terminal # None
    /\ MaxFd \in Nat /\ MaxFd >= 6
    /\ MaxOffset \in Nat
    /\ Requests \subseteq -1 .. MaxFd
    /\ Closed \subseteq 0 .. MaxFd
    /\ Positions \subseteq -1 .. MaxOffset
    /\ Modes \subseteq SUBSET {"read", "write"}

VARIABLES
    alive,      \* the processes that have been forked and have not exited
    table,      \* m_Table: number -> open file
    nextIndex,  \* m_NextIndex
    byNumber,   \* the numbers that were asked for, not taken from m_NextIndex
    offset,     \* m_Offset
    mode,       \* m_AccessMode: subset of {"read", "write"}
    call,       \* the read or write a process is in, offset already picked up
    seen,       \* the bytes of the file that went through the open file
    moved       \* seek, pread or pwrite was used on the open file

tabVars == <<alive, table, nextIndex, byNumber>>
fileVars == <<offset, mode, seen, moved>>
vars == <<tabVars, fileVars, call>>

Fds == 0 .. MaxFd

Empty == [f \in Fds |-> None]

Idle == [kind |-> "none", desc |-> None, from |-> 0, count |-> 0]

\* A descriptor table is a record of m_Table, m_NextIndex and the numbers that
\* were asked for, so that several insertions can make one step.
Table(p) == [map |-> table[p], next |-> nextIndex[p], asked |-> byNumber[p]]

\* Mutant: m_NextIndex does not move on.
InsertNoAdvance(t, d, desired) ==
    LET free == desired >= 0 /\ t.map[desired] = None
        f    == IF free THEN desired ELSE t.next
    IN  [map   |-> [t.map EXCEPT ![f] = d],
         next  |-> t.next,
         asked |-> IF free THEN t.asked \cup {f} ELSE t.asked \ {f}]

\* FileDescriptorTable::Insert: the desired number if it is free, otherwise
\* m_NextIndex, whatever is there.  desired = -1 asks for any number.
Insert(t, d, desired) ==
    LET free == desired >= 0 /\ t.map[desired] = None
        f    == IF free THEN desired ELSE t.next
    IN  [map   |-> [t.map EXCEPT ![f] = d],
         next  |-> t.next + 1,
         asked |-> IF free THEN t.asked \cup {f} ELSE t.asked \ {f}]

\* Mutant: the numbers start at 0 again.
ClearToZero == [map |-> Empty, next |-> 0, asked |-> {}]

Clear == [map |-> Empty, next |-> 3, asked |-> {}]

OpenStdioStreams(t) ==
    Insert(Insert(Insert(t, Terminal, 0), Terminal, 1), Terminal, 2)

Init ==
    /\ alive = {First}
    /\ LET start(p) == IF p = First THEN OpenStdioStreams(Clear) ELSE Clear
       IN  /\ table = [p \in Procs |-> start(p).map]
           /\ nextIndex = [p \in Procs |-> start(p).next]
           /\ byNumber = [p \in Procs |-> start(p).asked]
    /\ offset = [d \in Descs |-> 0]
    /\ mode = [d \in Descs |-> {}]
    /\ call = [p \in Procs |-> Idle]
    /\ seen = [d \in Descs |-> {}]
    /\ moved = [d \in Descs |-> FALSE]

Runs(p) == p \in alive /\ call[p] = Idle

InUse(d) == \/ \E p \in alive, f \in Fds : table[p][f] = d
            \/ \E p \in alive : call[p].desc = d

-----------------------------------------------------------------------------
SetTable(p, t) ==
    /\ table' = [table EXCEPT ![p] = t.map]
    /\ nextIndex' = [nextIndex EXCEPT ![p] = t.next]
    /\ byNumber' = [byNumber EXCEPT ![p] = t.asked]

\* OpenAt: a new open file at the next number.
Open(p, d, m) ==
    /\ Runs(p)
    /\ ~InUse(d)
    /\ nextIndex[p] <= MaxFd
    /\ SetTable(p, Insert(Table(p), d, -1))
    /\ offset' = [offset EXCEPT ![d] = 0]
    /\ mode' = [mode EXCEPT ![d] = m]
    /\ seen' = [seen EXCEPT ![d] = {}]
    /\ moved' = [moved EXCEPT ![d] = FALSE]
    /\ UNCHANGED <<alive, call>>

\* FileDescriptorTable::Erase
Close(p, f) ==
    /\ Runs(p)
    /\ table[p][f] # None
    /\ table' = [table EXCEPT ![p][f] = None]
    /\ byNumber' = [byNumber EXCEPT ![p] = @ \ {f}]
    /\ UNCHANGED <<alive, nextIndex, fileVars, call>>

\* DupFd skips every number in use, from the requested one (or 0) upwards; so
\* its close of the target never runs.
DupTarget(p, new, f) ==
    /\ f >= new /\ f >= 0
    /\ table[p][f] = None
    /\ \A g \in Fds : g >= new /\ g < f => table[p][g] # None

DupFd(p, old, new) ==
    /\ Runs(p)
    /\ old # new
    /\ nextIndex[p] <= MaxFd
    /\ table[p][old] # None
    /\ \E f \in Fds :
          DupTarget(p, new, f) /\ SetTable(p, Insert(Table(p), table[p][old], f))
    /\ UNCHANGED <<alive, fileVars, call>>

\* Fork: the child's constructor opens the standard streams, then the entries
\* of the parent's table are inserted in the order the hash table yields them.
InsertAll(t, parent, order) ==
    FoldLeft(LAMBDA u, f : Insert(u, parent[f], f), t, order)

Entries(p) == {f \in Fds : table[p][f] # None}

Fork(p, c) ==
    /\ Runs(p)
    /\ c \notin alive
    /\ Cardinality(Entries(p)) <= MaxFd - 5   \* bound
    /\ \E order \in SetToSeqs(Entries(p)) :
          SetTable(c, InsertAll(OpenStdioStreams(Clear), table[p], order))
    /\ alive' = alive \cup {c}
    /\ UNCHANGED <<fileVars, call>>

\* Exec: every descriptor is closed, the standard streams are opened again.
Exec(p) ==
    /\ Runs(p)
    /\ SetTable(p, OpenStdioStreams(Clear))
    /\ UNCHANGED <<alive, fileVars, call>>

Exit(p) ==
    /\ Runs(p)
    /\ p # First
    /\ alive' = alive \ {p}
    /\ SetTable(p, Clear)
    /\ UNCHANGED <<fileVars, call>>

-----------------------------------------------------------------------------
(* The open files. *)

\* Read(buffer, count) and Write(buffer, count) pass on the m_Offset of now.
Begin(p, f, kind, n) ==
    /\ Runs(p)
    /\ table[p][f] \in Descs
    /\ kind \in mode[table[p][f]]
    /\ call' = [call EXCEPT ![p] =
                  [kind |-> kind, desc |-> table[p][f],
                   from |-> offset[table[p][f]], count |-> n]]
    /\ UNCHANGED <<tabVars, fileVars>>

\* The file's answer to a request for count bytes: what the file systems and
\* devices return, -1 included, which FileDescriptor takes for a count.
Answers(count) == -1 .. count

\* Mutant: the offset moves on from where it is now, not from where the
\* transfer began.
TransferFromNow(d, given, n) ==
    LET from == IF given < 0 THEN offset[d] ELSE given
    IN  /\ offset[d] + n \in -1 .. MaxOffset
        /\ offset' = [offset EXCEPT ![d] = @ + n]
        /\ seen' = [seen EXCEPT ![d] = @ \cup from .. (from + n - 1)]

\* The locked part of Read and Write.  A negative offset stands for m_Offset.
Transfer(d, given, n) ==
    LET from == IF given < 0 THEN offset[d] ELSE given
    IN  /\ from + n \in -1 .. MaxOffset
        /\ offset' = [offset EXCEPT ![d] = from + n]
        /\ seen' = [seen EXCEPT ![d] = @ \cup from .. (from + n - 1)]

End(p, n) ==
    /\ call[p] # Idle
    /\ n \in Answers(call[p].count)
    /\ Transfer(call[p].desc, call[p].from, n)
    /\ call' = [call EXCEPT ![p] = Idle]
    /\ UNCHANGED <<tabVars, mode, moved>>

\* pread and pwrite give the offset; they leave m_Offset behind the transfer.
Positioned(p, f, kind, from, n) ==
    /\ Runs(p)
    /\ table[p][f] \in Descs
    /\ kind \in mode[table[p][f]]
    /\ Transfer(table[p][f], from, n)
    /\ moved' = [moved EXCEPT ![table[p][f]] = TRUE]
    /\ UNCHANGED <<tabVars, mode, call>>

\* Seek: SEEK_SET and SEEK_CUR refuse a negative result, SEEK_END does not;
\* the file may have any size, so every position can be the result.
Seek(p, f, to) ==
    /\ Runs(p)
    /\ table[p][f] \in Descs
    /\ offset' = [offset EXCEPT ![table[p][f]] = to]
    /\ moved' = [moved EXCEPT ![table[p][f]] = TRUE]
    /\ UNCHANGED <<tabVars, mode, seen, call>>

Next ==
    \E p \in Procs :
        \/ \E d \in Descs : \E m \in Modes : Open(p, d, m)
        \/ \E f \in Closed : Close(p, f)
        \/ \E old \in Fds : \E new \in Requests : DupFd(p, old, new)
        \/ \E c \in Procs : Fork(p, c)
        \/ Exec(p)
        \/ Exit(p)
        \/ \E f \in Fds, kind \in {"read", "write"}, n \in 1 .. 2 : Begin(p, f, kind, n)
        \/ \E n \in -1 .. 2 : End(p, n)
        \/ \E f \in Fds, kind \in {"read", "write"}, from \in Positions, n \in -1 .. 1 :
              Positioned(p, f, kind, from, n)
        \/ \E f \in Fds, to \in Positions : Seek(p, f, to)

Spec == Init /\ [][Next]_vars

-----------------------------------------------------------------------------
TypeOK ==
    /\ alive \subseteq Procs
    /\ table \in [Procs -> [Fds -> Descs \cup {Terminal, None}]]
    /\ nextIndex \in [Procs -> 3 .. MaxFd + 1]
    /\ byNumber \in [Procs -> SUBSET Fds]
    /\ offset \in [Descs -> -1 .. MaxOffset]
    /\ mode \in [Descs -> SUBSET {"read", "write"}]
    /\ moved \in [Descs -> BOOLEAN]
    /\ \A p \in Procs : call[p].desc \in Descs \cup {None}

\* A number that came from m_NextIndex keeps its open file until the process
\* closes it or clears its table: Insert writes to m_NextIndex without looking,
\* but that is only ever over a number that dup2 or fork asked for.
NextIndexNumbersKept ==
    [][\A p \in alive, f \in Fds :
         /\ table[p][f] # None
         /\ f \notin byNumber[p]
         /\ table'[p][f] # None
         => table'[p][f] = table[p][f]]_vars

\* As long as nobody seeks or uses pread or pwrite on an open file, every byte
\* before its offset went through it, however the reads and writes of the
\* processes that share it overlap, and although each starts at an offset that
\* may be stale when it gets the lock: bytes may be transferred twice, none is
\* passed over.
NoByteSkipped ==
    \A d \in Descs : ~moved[d] => \A b \in 0 .. MaxOffset : b < offset[d] => b \in seen[d]
=============================================================================

---------------------------- MODULE AddressSpace ----------------------------
(***************************************************************************)
(* User memory: the regions of each process, its page table, and the       *)
(* physical pages behind them, through mmap, munmap, mprotect, page        *)
(* faults, fork, exec and exit.                                            *)
(*                                                                         *)
(* The unit of virtual and of physical memory is one page.  A process has  *)
(* one thread; its calls and its page faults are one step each.            *)
(***************************************************************************)
EXTENDS Integers, Sequences, SequencesExt, FiniteSets, FiniteSetsExt

CONSTANTS
    Procs,      \* processes
    First,      \* the process that exists from the start
    MaxVirt,    \* bound: virtual pages are 0 .. MaxVirt
    MaxPhys,    \* bound: physical pages are 0 .. MaxPhys; 0 is the null pointer
    TotalBase,  \* m_TotalRange.Base()
    Images,     \* the segments programs are loaded at: [base, size]
    StackTop,   \* the first value of m_UserStackTop
    MaxLength,  \* bound: the largest number of pages asked for
    FixedBases, \* bound: the addresses MAP_FIXED is used with
    MaxRegions, \* bound: the regions of a process when it calls mmap
    MaxCalls    \* bound: the calls and faults of a behaviour

ASSUME SpaceAssumption ==
    /\ First \in Procs
    /\ {MaxVirt, MaxPhys, TotalBase, StackTop, MaxLength, MaxRegions, MaxCalls} \subseteq Nat
    /\ MaxPhys >= 2
    /\ 2 <= StackTop /\ StackTop <= MaxVirt /\ TotalBase <= MaxVirt
    /\ Images # {}
    /\ Images \subseteq [base : 1 .. StackTop - 2, size : {1}]
    /\ FixedBases \subseteq 0 .. MaxVirt

VARIABLES
    alive,      \* the processes that exist
    regions,    \* m_RegionTree: base -> region
    pageTable,  \* the leaf entries of PageMap: virtual -> physical page
    readOnly,   \* the virtual pages whose entry forbids writing
    stackTop,   \* m_UserStackTop
    stack,      \* m_Stacks of the main thread: [virt, phys], one page
    free,       \* the physical pages the allocator has
    lastIndex,  \* the search cursor of the allocator
    released,   \* the physical pages that munmap or exec gave back
    execed,     \* the processes whose regions went through an exec
    calls       \* how many calls and faults there were

vars == <<alive, regions, pageTable, readOnly, stackTop, stack, free, lastIndex,
          released, execed, calls>>

Virt == 0 .. MaxVirt

Phys == 0 .. MaxPhys

\* A page table entry that is not present, and one that holds an address
\* outside memory.
NotPresent == -1

Bogus == -2

NoRegion == [size |-> 0, phys |-> 0, writable |-> FALSE]

Regions == [size : 0 .. MaxVirt + 1, phys : Phys, writable : BOOLEAN]

PagesOf(base, count) == base .. (base + count - 1)

Bases(p) == {b \in Virt : regions[p][b] # NoRegion}

RegionEnd(p, b) == b + regions[p][b].size

Init ==
    /\ alive = {First}
    /\ \E image \in Images :
          LET segment == [size |-> image.size, phys |-> 1, writable |-> TRUE]
              top     == [size |-> 1, phys |-> 2, writable |-> TRUE]
          IN  /\ regions = [p \in Procs |-> [b \in Virt |->
                    IF p = First /\ b = image.base THEN segment
                    ELSE IF p = First /\ b = StackTop - 1 THEN top
                    ELSE NoRegion]]
              /\ pageTable = [p \in Procs |-> [v \in Virt |->
                    IF p = First /\ v = image.base THEN 1
                    ELSE IF p = First /\ v = StackTop - 1 THEN 2
                    ELSE NotPresent]]
    /\ readOnly = [p \in Procs |-> {}]
    /\ stackTop = [p \in Procs |-> StackTop - 2]
    /\ stack = [p \in Procs |-> [virt |-> StackTop - 1, phys |-> 2]]
    /\ free = Phys \ {0, 1, 2}
    /\ lastIndex = 3
    /\ released = {}
    /\ execed = {}
    /\ calls = 0

-----------------------------------------------------------------------------
(* The region tree. *)

IsAvailableByStart(p, base, length) ==
    \A b \in Bases(p) : base + length <= b \/ base > b

IsAvailable(p, base, length) ==
    \A b \in Bases(p) : base + length <= b \/ base >= RegionEnd(p, b)

\* The address AllocateRegion is at before it looks at region b: the end of
\* the region before b, also when that lies below m_TotalRange.
Before(p, b) ==
    LET lower == {c \in Bases(p) : c < b}
    IN  IF lower = {} THEN TotalBase ELSE RegionEnd(p, Max(lower))

Fits(p, b, length) ==
    Before(p, b) + length <= b /\ IsAvailable(p, Before(p, b), length)

\* The base of the region AllocateRegion returns.
AllocateRegion(p, length, base) ==
    LET fitting == {b \in Bases(p) : Fits(p, b, length)}
    IN  \/ fitting # {} /\ base = Before(p, Min(fitting))
        \/ /\ fitting = {}
           /\ base = Before(p, MaxVirt + 1)
           /\ IsAvailable(p, base, length)

\* The region Find returns: the first that holds the address.
Find(p, v) == {b \in Bases(p) : b <= v /\ v < RegionEnd(p, b)}

Region(size, phys, writable) == [size |-> size, phys |-> phys, writable |-> writable]

MMap(p, length, base, writable) ==
    /\ p \in alive
    /\ base + length <= MaxVirt + 1
    /\ Cardinality(Bases(p)) < MaxRegions
    /\ regions' = [regions EXCEPT ![p][base] = Region(length, 0, writable)]
    /\ UNCHANGED <<alive, pageTable, readOnly, stackTop, stack, free, lastIndex, released, execed>>

MMapFixed(p, length, base, writable) ==
    IsAvailable(p, base, length) /\ MMap(p, length, base, writable)

MMapAnonymous(p, length, base, writable) ==
    AllocateRegion(p, length, base) /\ MMap(p, length, base, writable)

-----------------------------------------------------------------------------
(* Page tables and physical pages. *)

\* CallocatePages: the first run of free pages from the cursor to the top, or
\* else from the bottom to the cursor; the null pointer when there is none.
Allocate(pool, count) ==
    LET runs(from, limit) == {x \in from .. limit - count :
                                 PagesOf(x, count) \subseteq pool.free}
        taken(x) == [free   |-> pool.free \ PagesOf(x, count),
                     cursor |-> x + count,
                     phys   |-> Append(pool.phys, x)]
    IN  IF runs(pool.cursor, MaxPhys + 1) # {} THEN taken(Min(runs(pool.cursor, MaxPhys + 1)))
        ELSE IF runs(0, pool.cursor) # {} THEN taken(Min(runs(0, pool.cursor)))
        ELSE [pool EXCEPT !.phys = Append(@, 0)]

\* The pages of several calls, one after the other.
AllocateAll(avail, counts) ==
    FoldLeft(Allocate, [free |-> avail, cursor |-> lastIndex, phys |-> <<>>], counts)

FreedRoundedUp(phys, count) == IF phys = 0 THEN {} ELSE PagesOf(phys, count + 1)

\* FreePages ignores the null pointer.
Freed(phys, count) == IF phys = 0 THEN {} ELSE PagesOf(phys, count)

MappedOneMore(table, base, size, phys) ==
    [v \in Virt |-> IF v \in PagesOf(base, size + 1) THEN phys + (v - base) ELSE table[v]]

\* MapRegion and MapRange: every page of the region.
Mapped(table, base, size, phys) ==
    [v \in Virt |-> IF v \in PagesOf(base, size) THEN phys + (v - base) ELSE table[v]]

\* An access to a page of a region that is not present, or a write the page
\* table forbids: the whole region gets new memory.
PageFault(p, v) ==
    /\ p \in alive
    /\ pageTable[p][v] = NotPresent \/ v \in readOnly[p]
    /\ Find(p, v) # {}
    /\ LET b    == Min(Find(p, v))
           r    == regions[p][b]
           pool == AllocateAll(free, <<r.size>>)
       IN  /\ pool.phys[1] # 0
           /\ free' = pool.free /\ lastIndex' = pool.cursor
           /\ regions' = [regions EXCEPT ![p][b].phys = pool.phys[1]]
           /\ pageTable' = [pageTable EXCEPT ![p] = Mapped(@, b, r.size, pool.phys[1])]
           /\ readOnly' = [readOnly EXCEPT ![p] =
                 IF r.writable THEN @ \ PagesOf(b, r.size) ELSE @ \cup PagesOf(b, r.size)]
    /\ UNCHANGED <<alive, stackTop, stack, released, execed>>

\* MProtect accepts only the addresses 0 and PAGE_SIZE.  RemapRegion maps a
\* page that was not present to the address that stands for "not present".
MProtect(p, v, writable) ==
    /\ p \in alive
    /\ v \in {0, 1}
    /\ Find(p, v) # {}
    /\ LET b     == Min(Find(p, v))
           pages == PagesOf(b, regions[p][b].size)
       IN  /\ regions' = [regions EXCEPT ![p][b].writable = writable]
           /\ pageTable' = [pageTable EXCEPT ![p] = [x \in Virt |->
                 IF x \in pages /\ @[x] = NotPresent THEN Bogus ELSE @[x]]]
           /\ readOnly' = [readOnly EXCEPT ![p] =
                 IF writable THEN @ \ pages ELSE @ \cup pages]
    /\ UNCHANGED <<alive, stackTop, stack, free, lastIndex, released, execed>>


\* MUnMap of a region by its base: the pages go back, the page table entries
\* stay.  A region that was never touched has physical base 0.
MUnMap(p, b) ==
    /\ p \in alive
    /\ b \in Bases(p)
    /\ LET pages == Freed(regions[p][b].phys, regions[p][b].size)
       IN  free' = free \cup pages /\ released' = released \cup pages
    /\ regions' = [regions EXCEPT ![p][b] = NoRegion]
    /\ UNCHANGED <<alive, pageTable, readOnly, stackTop, stack, lastIndex, execed>>

\* The page whose contents Fork puts at v in the child: Thread::Fork copies
\* the stack of the thread after Process::Fork has copied the regions in the
\* order of their bases.
ForkSource(p, v) ==
    IF v = stack[p].virt THEN stack[p].phys
    ELSE LET b == Max(Find(p, v)) IN regions[p][b].phys + (v - b)

\* Fork: every region gets pages of its own, all writable in the page table;
\* then the thread's stack gets another page, mapped over the region's.  The
\* child's stack is recorded at its physical address.
Fork(p, c) ==
    /\ p \in alive
    /\ c \notin alive
    /\ LET bases == SetToSortSeq(Bases(p), <)
           pool  == AllocateAll(free, [i \in DOMAIN bases |-> regions[p][bases[i]].size] \o <<1>>)
           phys(b)   == pool.phys[CHOOSE i \in DOMAIN bases : bases[i] = b]
           stackPhys == Last(pool.phys)
       IN  /\ \A b \in Bases(p) : phys(b) # 0
           /\ free' = pool.free /\ lastIndex' = pool.cursor
           /\ regions' = [regions EXCEPT ![c] = [b \in Virt |->
                 IF b \in Bases(p) THEN [regions[p][b] EXCEPT !.phys = phys(b)]
                 ELSE NoRegion]]
           /\ pageTable' = [pageTable EXCEPT ![c] = [v \in Virt |->
                 IF v = stack[p].virt THEN stackPhys
                 ELSE IF Find(p, v) = {} THEN NotPresent
                 ELSE LET b == Max(Find(p, v)) IN phys(b) + (v - b)]]
           /\ stack' = [stack EXCEPT ![c] = [virt |-> stackPhys, phys |-> stackPhys]]
    /\ readOnly' = [readOnly EXCEPT ![c] = {}]
    /\ stackTop' = [stackTop EXCEPT ![c] = stackTop[p]]
    /\ alive' = alive \cup {c}
    /\ execed' = IF p \in execed THEN execed \cup {c} ELSE execed
    /\ UNCHANGED released

\* The pages Exec gives back before it loads the program.
Given(p) == UNION {Freed(regions[p][b].phys, regions[p][b].size) : b \in Bases(p)}

\* Exec gives back the pages of every region, starts an empty page table and
\* loads a segment and a stack; the new main thread replaces the old one,
\* whose destructor gives its stack back.  The old regions stay in the tree;
\* what Insert does with a base that is in it is the container's choice.
Exec(p, image, replaces) ==
    LET virt      == stackTop[p] - 1
        pool      == AllocateAll(free \cup Given(p), <<1, 1>>)
        phys      == pool.phys[1]
        stackPhys == pool.phys[2]
        Insert(b, x) == IF regions[p][b] = NoRegion \/ replaces
                          THEN Region(1, x, TRUE) ELSE regions[p][b]
    IN  /\ p \in alive
        /\ virt >= 2
        /\ image.base # virt
        /\ phys # 0
        /\ free' = pool.free \cup Freed(stack[p].phys, 1) /\ lastIndex' = pool.cursor
        /\ regions' = [regions EXCEPT ![p][image.base] = Insert(image.base, phys),
                                      ![p][virt] = Insert(virt, stackPhys)]
        /\ pageTable' = [pageTable EXCEPT ![p] = [v \in Virt |->
              CASE v = image.base -> phys [] v = virt -> stackPhys
                [] OTHER -> NotPresent]]
        /\ stack' = [stack EXCEPT ![p] = [virt |-> virt, phys |-> stackPhys]]
        /\ readOnly' = [readOnly EXCEPT ![p] = {}]
        /\ stackTop' = [stackTop EXCEPT ![p] = virt - 1]
        /\ released' = released \cup Given(p) \cup Freed(stack[p].phys, 1)
        /\ execed' = execed \cup {p}
        /\ UNCHANGED alive

\* Exit deletes the page map; the pages of the regions are not given back.
Exit(p) ==
    /\ p \in alive
    /\ p # First
    /\ alive' = alive \ {p}
    /\ regions' = [regions EXCEPT ![p] = [b \in Virt |-> NoRegion]]
    /\ pageTable' = [pageTable EXCEPT ![p] = [v \in Virt |-> NotPresent]]
    /\ readOnly' = [readOnly EXCEPT ![p] = {}]
    /\ execed' = execed \ {p}
    /\ UNCHANGED <<stackTop, stack, lastIndex>>

\* The exit system call, and a page fault outside every region or one that
\* finds no memory.
ExitCall(p) == Exit(p) /\ UNCHANGED <<free, released>>

\* A program that cannot be loaded: the pages are gone, and so is the process.
ExecFails(p) ==
    /\ Exit(p)
    /\ free' = free \cup Given(p)
    /\ released' = released \cup Given(p)

Next ==
    /\ calls < MaxCalls
    /\ calls' = calls + 1
    /\ \E p \in Procs :
        \/ \E length \in 1 .. MaxLength, writable \in BOOLEAN :
              \/ \E base \in FixedBases : MMapFixed(p, length, base, writable)
              \/ \E base \in Virt : MMapAnonymous(p, length, base, writable)
        \/ \E v \in Virt : PageFault(p, v)
        \/ \E v \in Virt, writable \in BOOLEAN : MProtect(p, v, writable)
        \/ \E b \in Virt : MUnMap(p, b)
        \/ \E c \in Procs : Fork(p, c)
        \/ \E image \in Images, replaces \in BOOLEAN : Exec(p, image, replaces)
        \/ ExitCall(p)
        \/ ExecFails(p)

Spec == Init /\ [][Next]_vars

-----------------------------------------------------------------------------
(* Properties. *)

\* Type correctness: regions and page tables hold pages of the machine.
TypeOK ==
    /\ alive \subseteq Procs /\ execed \subseteq alive
    /\ regions \in [Procs -> [Virt -> Regions]]
    /\ pageTable \in [Procs -> [Virt -> Phys \cup {NotPresent, Bogus}]]
    /\ readOnly \in [Procs -> SUBSET Virt]
    /\ stackTop \in [Procs -> 0 .. StackTop]
    /\ stack \in [Procs -> [virt : Nat, phys : Phys]]
    /\ free \subseteq Phys /\ released \subseteq Phys /\ lastIndex \in 0 .. MaxPhys + 1
    /\ calls \in 0 .. MaxCalls

\* The regions of a process do not overlap, whatever it maps, unmaps, forks
\* or inherits (the purpose of IsAvailable), until an exec leaves the old
\* regions in the tree of the new program.
RegionsDisjoint ==
    \A p \in alive \ execed : \A a, b \in Bases(p) :
        a < b => RegionEnd(p, a) <= b

\* The places a physical page is mapped at.
Uses(x) == {u \in alive \X Virt : pageTable[u[1]][u[2]] = x}

\* A physical page is mapped once among all page tables, and never while the
\* allocator has it, unless munmap or exec gave it back: those two leave page
\* table entries or regions behind.  Faults, forks and mprotect share nothing.
\* (Page 0 is where a stack that could not be allocated is mapped.)
SharedOnlyAfterRelease ==
    \A x \in Phys \ ({0} \cup released) :
        /\ Cardinality(Uses(x)) <= 1
        /\ x \in free => Uses(x) = {}

\* Some live process can still give the page back.
Held(x) ==
    \E p \in alive :
        \/ x = stack[p].phys
        \/ \E b \in Bases(p) : x \in Freed(regions[p][b].phys, regions[p][b].size)


\* What a fork copies is what the process sees: for each mapped page of a
\* region, the page Process::Fork and Thread::Fork copy is the mapped one.
ForkCopiesMemory ==
    \A p \in alive \ execed : \A v \in Virt :
        pageTable[p][v] \in Phys /\ Find(p, v) # {} => ForkSource(p, v) = pageTable[p][v]
=============================================================================

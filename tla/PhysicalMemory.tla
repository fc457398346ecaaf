--------------------------- MODULE PhysicalMemory ---------------------------
(***************************************************************************)
(* The physical memory manager: the early heap carved out of the boot      *)
(* memory map (MM::PrepareInitialHeap), the early page allocator that eats *)
(* into the same map (PMM::EarlyAllocatePages), and the bitmap allocator   *)
(* that takes over after PMM::Initialize (BitmapAllocator).                *)
(*                                                                         *)
(* The unit of memory is one page.  The page bitmap is the set of the pages*)
(* whose bit is clear.  Every call runs under the allocator's lock, so a   *)
(* call is one step.                                                       *)
(***************************************************************************)
EXTENDS Integers, Sequences, FiniteSets, Functions

CONSTANTS
    MemoryMap,      \* the boot memory map: a sequence of zones
    EarlyHeapPages, \* size of the early heap (64 MiB in the code)
    Callers,        \* the clients of PMM, each with at most one live block
    EarlyHeap,      \* the client that stands for the early heap
    MaxRequest,     \* bound: the largest number of pages asked for
    Word            \* the counters are unsigned machine words, modulo Word

ZoneTypes == {"usable", "reclaimable", "kernel", "reserved"}

Zone == [base : Nat, length : Nat, type : ZoneTypes]

PagesOf(base, count) == base .. (base + count - 1)

ASSUME MapAssumption ==
    /\ MemoryMap \in Seq(Zone)
    /\ \A i, j \in DOMAIN MemoryMap :
          i # j => PagesOf(MemoryMap[i].base, MemoryMap[i].length)
                     \cap PagesOf(MemoryMap[j].base, MemoryMap[j].length) = {}

ASSUME SizeAssumption ==
    /\ EarlyHeapPages \in Nat \ {0}
    /\ MaxRequest \in Nat \ {0}
    /\ Word \in Nat \ {0}
    /\ EarlyHeap \notin Callers

VARIABLES
    phase,      \* "boot", "early" (PMM not initialised) or "ready"
    zones,      \* the memory map entries, shrunk by MemoryZone::Allocate
    free,       \* the pages whose bit in m_PageBitmap is clear
    lastIndex,  \* the search cursor of AllocatePages
    total,      \* m_TotalMemory, in pages
    used,       \* m_UsedMemory, in pages
    blocks,     \* the block each client holds
    last        \* the last AllocatePages call: pages asked for, page returned

vars == <<phase, zones, free, lastIndex, total, used, blocks, last>>

Holders == Callers \cup {EarlyHeap}

Block == [base : Nat, count : Nat]

NoBlock == [base |-> 0, count |-> 0]

Held(h) == PagesOf(blocks[h].base, blocks[h].count)

Usable(i) == zones[i].type = "usable"

-----------------------------------------------------------------------------
(* Boot: zones are consumed from their low end. *)

Init ==
    /\ phase = "boot"
    /\ zones = MemoryMap
    /\ free = {}
    /\ lastIndex = 0
    /\ total = 0
    /\ used = 0
    /\ blocks = [h \in Holders |-> NoBlock]
    /\ last = NoBlock

\* Mutant: the zone loses pages but its base stays.
ZoneAllocateInPlace(i, count) ==
    zones' = [zones EXCEPT ![i].length = @ - count]

\* MemoryZone::Allocate
ZoneAllocate(i, count) ==
    zones' = [zones EXCEPT ![i].base = @ + count, ![i].length = @ - count]

\* A null pointer is a failure to the client, whatever was consumed.
Give(h, base, count) ==
    blocks' = IF base = 0 THEN blocks
              ELSE [blocks EXCEPT ![h] = [base |-> base, count |-> count]]

\* Mutant: the zone's length is not compared.
FirstZoneUnchecked(i, pages) ==
    Usable(i) /\ \A j \in DOMAIN zones : j < i => ~Usable(j)

\* The first usable zone of at least so many pages.
FirstZone(i, pages) ==
    /\ Usable(i) /\ zones[i].length >= pages
    /\ \A j \in DOMAIN zones : j < i => ~(Usable(j) /\ zones[j].length >= pages)

PrepareInitialHeap ==
    /\ phase = "boot"
    /\ \E i \in DOMAIN zones :
          /\ FirstZone(i, EarlyHeapPages + 1)
          /\ ZoneAllocate(i, EarlyHeapPages)
          /\ Give(EarlyHeap, zones[i].base, EarlyHeapPages)
    /\ phase' = "early"
    /\ UNCHANGED <<free, lastIndex, total, used, last>>

EarlyAllocatePages(c, count) ==
    /\ phase = "early"
    /\ blocks[c] = NoBlock
    /\ \E i \in DOMAIN zones :
          /\ FirstZone(i, count)
          /\ ZoneAllocate(i, count)
          /\ Give(c, zones[i].base, count)
    /\ UNCHANGED <<phase, free, lastIndex, total, used, last>>

\* The pages Initialize marks free: every page of a usable zone but page 0.
UsablePages(zs) ==
    {p \in UNION {PagesOf(zs[i].base, zs[i].length) :
                    i \in {j \in DOMAIN zs : zs[j].type = "usable"}} : p # 0}

Lengths(types) ==
    SumFunctionOnSet([i \in DOMAIN zones |-> zones[i].length],
                     {i \in DOMAIN zones : zones[i].type \in types})

Initialize ==
    /\ phase = "early"
    /\ \E i \in DOMAIN zones : Usable(i)
    /\ phase' = "ready"
    /\ free' = UsablePages(zones)
    /\ total' = Lengths({"usable", "reclaimable", "kernel"}) % Word
    /\ used' = Lengths({"reclaimable", "kernel"}) % Word
    /\ UNCHANGED <<zones, lastIndex, blocks, last>>

-----------------------------------------------------------------------------
(* The bitmap allocator. *)

\* m_UsableMemoryTop: a zone keeps its top when it is consumed.
UsableTop ==
    CHOOSE t \in {zones[i].base + zones[i].length : i \in {j \in DOMAIN zones : Usable(j)}} :
        \A i \in DOMAIN zones : Usable(i) => zones[i].base + zones[i].length <= t

\* Where a scan of FindFreeRegions from start to limit can stop with success:
\* just after count consecutive clear bits.
RunEnds(start, count, limit) ==
    {e \in (start + count) .. limit : PagesOf(e - count, count) \subseteq free}

\* FindFreeRegions takes the first of them and marks the run used.
FindFreeRegions(c, start, count, limit) ==
    \E e \in RunEnds(start, count, limit) :
        /\ \A f \in RunEnds(start, count, limit) : e <= f
        /\ free' = free \ PagesOf(e - count, count)
        /\ lastIndex' = e
        /\ Give(c, e - count, count)
        /\ last' = [base |-> e - count, count |-> count]

AllocateAhead(c, count) ==
    /\ FindFreeRegions(c, lastIndex, count, UsableTop)
    /\ used' = (used + count) % Word

\* Mutant: the second scan forgets m_UsedMemory.
AllocateWrappedUncounted(c, count) ==
    /\ RunEnds(lastIndex, count, UsableTop) = {}
    /\ FindFreeRegions(c, 0, count, lastIndex)
    /\ used' = used

AllocateWrapped(c, count) ==
    /\ RunEnds(lastIndex, count, UsableTop) = {}
    /\ FindFreeRegions(c, 0, count, lastIndex)
    /\ used' = (used + count) % Word

\* Mutant: no second scan.
AllocateFailsEarly(count) ==
    /\ RunEnds(lastIndex, count, UsableTop) = {}
    /\ last' = [base |-> 0, count |-> count]
    /\ UNCHANGED <<free, lastIndex, used, blocks>>

AllocateFails(count) ==
    /\ RunEnds(lastIndex, count, UsableTop) = {}
    /\ RunEnds(0, count, lastIndex) = {}
    /\ last' = [base |-> 0, count |-> count]
    /\ UNCHANGED <<free, lastIndex, used, blocks>>

AllocatePages(c, count) ==
    /\ phase = "ready"
    /\ blocks[c] = NoBlock
    /\ \/ AllocateAhead(c, count)
       \/ AllocateWrapped(c, count)
       \/ AllocateFails(count)
    /\ UNCHANGED <<phase, zones, total>>

\* Mutant: the loop that clears the bits stops one page early.
FreePagesShort(c) ==
    /\ phase = "ready"
    /\ blocks[c] # NoBlock
    /\ free' = free \cup PagesOf(blocks[c].base, blocks[c].count - 1)
    /\ used' = (used - blocks[c].count) % Word
    /\ blocks' = [blocks EXCEPT ![c] = NoBlock]
    /\ UNCHANGED <<phase, zones, lastIndex, total, last>>

\* A client gives back its whole block.  Before Initialize the page size is
\* still 0 and nobody frees.
FreePages(c) ==
    /\ phase = "ready"
    /\ blocks[c] # NoBlock
    /\ free' = free \cup Held(c)
    /\ used' = (used - blocks[c].count) % Word
    /\ blocks' = [blocks EXCEPT ![c] = NoBlock]
    /\ UNCHANGED <<phase, zones, lastIndex, total, last>>

Next ==
    \/ PrepareInitialHeap
    \/ Initialize
    \/ \E c \in Callers, count \in 1 .. MaxRequest :
          EarlyAllocatePages(c, count) \/ AllocatePages(c, count)
    \/ \E c \in Callers : FreePages(c)

Spec == Init /\ [][Next]_vars

-----------------------------------------------------------------------------
(* Properties. *)

\* The state has its type.  The two counters are covered by FreeMemoryExact.
TypeOK ==
    /\ phase \in {"boot", "early", "ready"}
    /\ zones \in [DOMAIN MemoryMap -> Zone]
    /\ free \subseteq Nat
    /\ lastIndex \in Nat
    /\ blocks \in [Holders -> Block]
    /\ last \in Block

\* A page is handed out once: two live blocks (the early heap and the pages
\* allocated before PMM::Initialize included) share no page, and no page of a
\* live block is free in the bitmap or left in a zone that Initialize will free.
PagesHandedOutOnce ==
    /\ \A g, h \in Holders : g # h => Held(g) \cap Held(h) = {}
    /\ \A h \in Holders : Held(h) \cap free = {}
    /\ phase # "ready" =>
         \A h \in Holders, i \in DOMAIN zones :
            Usable(i) => Held(h) \cap PagesOf(zones[i].base, zones[i].length) = {}

\* FreeMemorySize (total - used, as machine words) is the number of clear bits
\* of the bitmap, plus the reserved page 0 when a usable zone still starts
\* there, even after pages of the early allocator, which were never counted as
\* used, have been freed.
FreeMemoryExact ==
    phase = "ready" =>
        (total - used) % Word =
            (Cardinality(free)
               + Cardinality({i \in DOMAIN zones :
                                Usable(i) /\ zones[i].base = 0 /\ zones[i].length > 0}))
              % Word

\* No page is lost: every usable page of the boot map is free or held, except in
\* a zone that starts at page 0, where an early allocation returns null.
NoPageLost ==
    phase = "ready" =>
        \A i \in DOMAIN MemoryMap :
            MemoryMap[i].type = "usable" /\ MemoryMap[i].base # 0 =>
                PagesOf(MemoryMap[i].base, MemoryMap[i].length)
                    \subseteq free \cup UNION {Held(h) : h \in Holders}

\* AllocatePages fails only when every free run that is long enough straddles
\* the search cursor (the second scan stops where the first one started); in
\* particular a request for one page fails only when no page is free.
FailsOnlyAtTheCursor ==
    [][\A c \in Callers, n \in 1 .. MaxRequest :
          AllocatePages(c, n) /\ last'.base = 0 =>
              \A p \in free :
                 PagesOf(p, n) \subseteq free => p < lastIndex /\ lastIndex < p + n]_vars
=============================================================================

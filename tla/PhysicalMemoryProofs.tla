------------------------ MODULE PhysicalMemoryProofs ------------------------
(***************************************************************************)
(* PMM never hands a page out twice, for every memory map, every size of   *)
(* the early heap and every number of clients.                             *)
(*                                                                         *)
(* The invariant is inductive once the zones are known to shrink in place: *)
(* a zone keeps its type and its top, so distinct zones stay disjoint and  *)
(* what MemoryZone::Allocate takes from one is in no other zone.           *)
(***************************************************************************)
EXTENDS PhysicalMemory, TLAPS

ZoneShrinksInPlace ==
    \A i \in DOMAIN MemoryMap :
        /\ zones[i].type = MemoryMap[i].type
        /\ MemoryMap[i].base <= zones[i].base
        /\ zones[i].base + zones[i].length = MemoryMap[i].base + MemoryMap[i].length

IInv ==
    /\ TypeOK
    /\ ZoneShrinksInPlace
    /\ PagesHandedOutOnce
    /\ phase # "ready" => free = {}

-----------------------------------------------------------------------------

\* The boot memory map is a function from its indices to zones.
LEMMA MapIsFunction == MemoryMap \in [DOMAIN MemoryMap -> Zone]
  BY MapAssumption

\* Zones that shrank in place are still pairwise disjoint.
LEMMA ZonesDisjoint ==
    ASSUME TypeOK, ZoneShrinksInPlace,
           NEW i \in DOMAIN MemoryMap, NEW j \in DOMAIN MemoryMap, i # j
    PROVE  PagesOf(zones[i].base, zones[i].length)
             \cap PagesOf(zones[j].base, zones[j].length) = {}
<1>1. \A k \in DOMAIN MemoryMap :
         /\ zones[k] \in Zone /\ MemoryMap[k] \in Zone
         /\ PagesOf(zones[k].base, zones[k].length)
              \subseteq PagesOf(MemoryMap[k].base, MemoryMap[k].length)
  BY MapIsFunction DEF TypeOK, ZoneShrinksInPlace, PagesOf, Zone
<1>2. QED
  BY <1>1, MapAssumption

\* The initial state satisfies the invariant.
LEMMA InitIInv == Init => IInv
<1> SUFFICES ASSUME Init PROVE IInv
  OBVIOUS
<1> USE DEF Init
<1>1. TypeOK
  BY MapIsFunction DEF TypeOK, Block, NoBlock
<1>2. ZoneShrinksInPlace
  BY MapIsFunction DEF ZoneShrinksInPlace, Zone
<1>3. \A h \in Holders : Held(h) = {}
  BY DEF Held, PagesOf, NoBlock
<1>4. QED
  BY <1>1, <1>2, <1>3 DEF IInv, PagesHandedOutOnce

\* Taking count pages from the low end of a usable zone during boot, and giving
\* them to h, keeps the invariant.
LEMMA ZoneAllocateIInv ==
    ASSUME IInv, phase # "ready", phase' \in {"boot", "early"},
           NEW h \in Holders, NEW i \in DOMAIN zones, NEW count \in Nat \ {0},
           Usable(i), zones[i].length >= count,
           ZoneAllocate(i, count), Give(h, zones[i].base, count),
           UNCHANGED <<free, lastIndex, last>>
    PROVE  IInv'
<1> DEFINE z == zones[i]
<1>1. z \in Zone /\ i \in DOMAIN MemoryMap /\ DOMAIN zones = DOMAIN MemoryMap
  BY DEF IInv, TypeOK
<1>2. /\ zones' \in [DOMAIN MemoryMap -> Zone]
      /\ zones'[i].base = z.base + count /\ zones'[i].length = z.length - count
      /\ \A j \in DOMAIN MemoryMap : zones'[j].type = zones[j].type
      /\ \A j \in DOMAIN MemoryMap : j # i => zones'[j] = zones[j]
  BY <1>1 DEF ZoneAllocate, IInv, TypeOK, Zone
<1>3. TypeOK'
  BY <1>1, <1>2 DEF Give, IInv, TypeOK, Block, Zone
<1>4. ZoneShrinksInPlace'
  BY <1>1, <1>2, MapIsFunction DEF IInv, TypeOK, ZoneShrinksInPlace, Zone
<1>5. \A j \in DOMAIN MemoryMap :
         PagesOf(zones'[j].base, zones'[j].length)
           \subseteq PagesOf(zones[j].base, zones[j].length)
  BY <1>1, <1>2 DEF PagesOf, Zone
<1>6. /\ PagesOf(z.base, count) \subseteq PagesOf(z.base, z.length)
      /\ PagesOf(z.base, count) \cap PagesOf(zones'[i].base, zones'[i].length) = {}
  BY <1>1, <1>2 DEF PagesOf, Zone
<1>7. \A g \in Holders :
         Held(g)' = Held(g) \/ (g = h /\ Held(g)' = PagesOf(z.base, count))
  BY DEF Give, Held, IInv, TypeOK
<1>8. \A g \in Holders, j \in DOMAIN zones :
         Usable(j) => Held(g) \cap PagesOf(zones[j].base, zones[j].length) = {}
  BY DEF IInv, PagesHandedOutOnce
<1>9. \A j \in DOMAIN MemoryMap : j # i =>
         PagesOf(z.base, count) \cap PagesOf(zones'[j].base, zones'[j].length) = {}
  BY <1>1, <1>5, <1>6, ZonesDisjoint DEF IInv
<1>10. \A g, k \in Holders : g # k => Held(g)' \cap Held(k)' = {}
  BY <1>1, <1>6, <1>7, <1>8 DEF IInv, PagesHandedOutOnce
<1>11. \A g \in Holders, j \in DOMAIN MemoryMap :
          Usable(j)' => Held(g)' \cap PagesOf(zones'[j].base, zones'[j].length) = {}
  BY <1>1, <1>2, <1>5, <1>6, <1>7, <1>8, <1>9 DEF Usable
<1>12. PagesHandedOutOnce' /\ free' = {}
  BY <1>1, <1>2, <1>10, <1>11 DEF IInv, TypeOK, PagesHandedOutOnce
<1>13. QED
  BY <1>3, <1>4, <1>12 DEF IInv

\* FindFreeRegions gives the client pages that were free, and only those.
LEMMA FindFreeRegionsIInv ==
    ASSUME IInv, phase = "ready", NEW c \in Callers, NEW count \in Nat \ {0},
           NEW start \in Nat, NEW limit,
           FindFreeRegions(c, start, count, limit),
           UNCHANGED <<phase, zones>>
    PROVE  IInv'
<1>1. PICK e \in RunEnds(start, count, limit) :
         /\ free' = free \ PagesOf(e - count, count)
         /\ lastIndex' = e
         /\ Give(c, e - count, count)
         /\ last' = [base |-> e - count, count |-> count]
  BY DEF FindFreeRegions
<1>2. /\ e \in Int /\ start + count <= e /\ e - count \in Nat /\ e \in Nat
      /\ PagesOf(e - count, count) \subseteq free
  BY DEF RunEnds
<1>3. TypeOK'
  BY <1>1, <1>2 DEF Give, IInv, TypeOK, Block
<1>4. \A g \in Holders :
         Held(g)' = Held(g) \/ (g = c /\ Held(g)' = PagesOf(e - count, count))
  BY <1>1, <1>2 DEF Give, Held, IInv, TypeOK
<1>5. PagesHandedOutOnce'
  BY <1>1, <1>2, <1>4 DEF IInv, PagesHandedOutOnce
<1>6. QED
  BY <1>3, <1>5 DEF IInv, ZoneShrinksInPlace

\* The invariant is inductive.
LEMMA NextIInv == IInv /\ [Next]_vars => IInv'
<1> SUFFICES ASSUME IInv, [Next]_vars PROVE IInv'
  OBVIOUS
<1>1. CASE PrepareInitialHeap
  <2>1. PICK i \in DOMAIN zones :
           /\ FirstZone(i, EarlyHeapPages + 1)
           /\ ZoneAllocate(i, EarlyHeapPages)
           /\ Give(EarlyHeap, zones[i].base, EarlyHeapPages)
    BY <1>1 DEF PrepareInitialHeap
  <2>2. zones[i].length >= EarlyHeapPages /\ Usable(i)
    BY <2>1, SizeAssumption DEF FirstZone, IInv, TypeOK, Zone
  <2>3. QED
    BY <1>1, <2>1, <2>2, SizeAssumption, ZoneAllocateIInv DEF PrepareInitialHeap, Holders
<1>2. CASE Initialize
  <2>1. TypeOK' /\ ZoneShrinksInPlace'
    <3>1. free' \subseteq Nat
      BY <1>2 DEF Initialize, UsablePages, IInv, TypeOK, PagesOf, Zone
    <3>2. QED
      BY <1>2, <3>1 DEF Initialize, IInv, TypeOK, ZoneShrinksInPlace
  <2>2. \A p \in free' : \E i \in DOMAIN zones :
           Usable(i) /\ p \in PagesOf(zones[i].base, zones[i].length)
    BY <1>2 DEF Initialize, UsablePages, Usable
  <2>3. \A h \in Holders : Held(h)' = Held(h)
    BY <1>2 DEF Initialize, Held
  <2>4. PagesHandedOutOnce'
    BY <1>2, <2>2, <2>3 DEF Initialize, IInv, PagesHandedOutOnce
  <2>5. QED
    BY <1>2, <2>1, <2>4 DEF IInv, Initialize
<1>3. ASSUME NEW c \in Callers, NEW count \in 1 .. MaxRequest, EarlyAllocatePages(c, count)
      PROVE  IInv'
  <2>1. PICK i \in DOMAIN zones :
           FirstZone(i, count) /\ ZoneAllocate(i, count) /\ Give(c, zones[i].base, count)
    BY <1>3 DEF EarlyAllocatePages
  <2>2. QED
    BY <1>3, <2>1, SizeAssumption, ZoneAllocateIInv DEF EarlyAllocatePages, FirstZone, Holders
<1>4. ASSUME NEW c \in Callers, NEW count \in 1 .. MaxRequest, AllocatePages(c, count)
      PROVE  IInv'
  <2> count \in Nat \ {0}
    BY SizeAssumption
  <2>1. CASE AllocateAhead(c, count)
    BY <1>4, <2>1, FindFreeRegionsIInv DEF AllocatePages, AllocateAhead, IInv, TypeOK
  <2>2. CASE AllocateWrapped(c, count)
    BY <1>4, <2>2, FindFreeRegionsIInv DEF AllocatePages, AllocateWrapped
  <2>3. CASE AllocateFails(count)
    BY <1>4, <2>3
    DEF AllocatePages, AllocateFails, IInv, TypeOK, ZoneShrinksInPlace, PagesHandedOutOnce,
        Held, Usable, Block
  <2>4. QED
    BY <1>4, <2>1, <2>2, <2>3 DEF AllocatePages
<1>5. ASSUME NEW c \in Callers, FreePages(c)
      PROVE  IInv'
  <2>1. Held(c) \subseteq Nat
    BY DEF IInv, TypeOK, Held, PagesOf, Holders, Block
  <2>2. Held(c)' = {} /\ \A h \in Holders : h # c => Held(h)' = Held(h)
    BY <1>5 DEF FreePages, Held, PagesOf, NoBlock, IInv, TypeOK, Holders
  <2>3. TypeOK'
    BY <1>5, <2>1 DEF FreePages, IInv, TypeOK, NoBlock, Block
  <2>4. PagesHandedOutOnce'
    BY <1>5, <2>2 DEF FreePages, IInv, PagesHandedOutOnce, Holders
  <2>5. QED
    BY <1>5, <2>3, <2>4 DEF FreePages, IInv, ZoneShrinksInPlace
<1>6. CASE UNCHANGED vars
  BY <1>6 DEF vars, IInv, TypeOK, ZoneShrinksInPlace, PagesHandedOutOnce, Held, Usable
<1>7. QED
  BY <1>1, <1>2, <1>3, <1>4, <1>5, <1>6 DEF Next

\* PMM's state keeps its type in every behaviour.
THEOREM TypeCorrect == Spec => []TypeOK
<1>1. IInv => TypeOK
  BY DEF IInv
<1>2. QED
  BY <1>1, InitIInv, NextIInv, PTL DEF Spec

\* No page is handed out twice: blocks that AllocatePages, EarlyAllocatePages
\* and the early heap gave out and that were not freed are disjoint, and no page
\* of one is free.
THEOREM HandedOutOnce == Spec => []PagesHandedOutOnce
<1>1. IInv => PagesHandedOutOnce
  BY DEF IInv
<1>2. QED
  BY <1>1, InitIInv, NextIInv, PTL DEF Spec
=============================================================================

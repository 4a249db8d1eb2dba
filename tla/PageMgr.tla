------------------------------- MODULE PageMgr -------------------------------
(***************************************************************************)
(* HugePagesMemoryMgr and HugePagesIovaMgr (lone/system/linux/             *)
(* hugepages_mgr.py), as operators on a record:                             *)
(*   pages     the page addresses, in the order of the list self.pages      *)
(*   inUse, size, linked, iova, dir, mapped                                 *)
(*             the fields of each page's MemoryLocation                     *)
(*   listed    malloc_mem                                                   *)
(*   freeIovas free_iovas of the IOVA manager                               *)
(*   backing   allocated_memory, the hugepages obtained from the kernel     *)
(*   dirty     pages with something other than zeroes in them               *)
(* An area is named by its first page.  Addresses count pages, sizes count  *)
(* bytes.  Memory is taken to be written as soon as it is handed out.  The  *)
(* orders of malloc_mem and of free_iovas are abstracted: which free IOVA   *)
(* an area gets is left open.                                               *)
(***************************************************************************)
EXTENDS Integers, SequencesExt, FiniteSetsExt, Lists

CONSTANTS
    PageSize,    \* bytes of a page
    PagesPerHp,  \* hugepages_size // page_size
    HugePages,   \* addresses, in hugepages, the kernel may hand out
    Iovas,       \* what HugePagesIovaMgr.reset puts in free_iovas
    NoIova,      \* the IOVA of a page that has none
    MaxMapping,  \* increment of HugePagesIovaMgr
    NoMem        \* not a page: a call that raised

ASSUME PageSizeAssumption == PageSize \in Nat \ {0} /\ PagesPerHp \in Nat \ {0}
ASSUME HugePagesAssumption == HugePages \subseteq Nat /\ IsFiniteSet(HugePages)
ASSUME IovasAssumption == NoIova \notin Iovas /\ MaxMapping \in Nat
ASSUME NoMemAssumption == NoMem \notin Nat

PagesOf(hp) == hp * PagesPerHp .. (hp + 1) * PagesPerHp - 1
Pages == UNION {PagesOf(hp) : hp \in HugePages}

Directions == {"to device", "to host"}

NewPageMgr ==
    [pages |-> <<>>, inUse |-> {}, size |-> [p \in Pages |-> PageSize],
     linked |-> [p \in Pages |-> {}], iova |-> [p \in Pages |-> NoIova],
     dir |-> [p \in Pages |-> "none"], mapped |-> {}, listed |-> {},
     freeIovas |-> Iovas, backing |-> <<>>, dirty |-> {}]

FreePages(m) == Keep(m.pages, Range(m.pages) \ m.inUse)

-----------------------------------------------------------------------------
(* _malloc_hps with the hugepages hps: a MemoryLocation for each page.      *)
PagesIn(hps) ==
    [i \in 1 .. Len(hps) * PagesPerHp |->
        hps[(i - 1) \div PagesPerHp + 1] * PagesPerHp + ((i - 1) % PagesPerHp)]

WithHugePages(m, hps) == [m EXCEPT !.pages = @ \o PagesIn(hps), !.backing = @ \o hps]

(* What the kernel may answer to n requests.  Fewer than n hugepages: the   *)
(* request after the last of them raises.                                   *)
Answers(m, n) ==
    LET left == HugePages \ Range(m.backing)
        k    == Min({n, Cardinality(left)})
    IN  {hps \in [1 .. k -> left] : \A i, j \in 1 .. k : hps[i] = hps[j] => i = j}

(* num_alloc.  malloc rounds down, malloc_pages up.                         *)
HugePagesFor(m, needed) ==
    IF needed > Len(FreePages(m))
    THEN Max({1, (needed - Len(FreePages(m))) \div PagesPerHp}) ELSE 0

HugePagesForPages(m, needed) ==
    IF needed > Len(FreePages(m))
    THEN (needed - Len(FreePages(m)) + PagesPerHp - 1) \div PagesPerHp ELSE 0

-----------------------------------------------------------------------------
(* malloc.                                                                  *)
WholeSize(size) == Max({size, PageSize})
PagesNeeded(size) == Max({1, size \div PageSize})

(* The groups of n free pages, in the order of the list, that malloc takes  *)
(* for contiguous, as their first indices.                                  *)
Adjacent(m, p, q) == p * PageSize + m.size[p] = q * PageSize
Groups(m, n) ==
    LET free == FreePages(m)
    IN  {i \in 1 .. Len(free) - n + 1 :
            \A j \in i .. i + n - 2 : Adjacent(m, free[j], free[j + 1])}

(* Fault: only the first page will be in use.                               *)
GroupedLoosely(m, first, rest, size) ==
    [m EXCEPT !.linked[first] = @ \union rest, !.size[first] = size]

(* The group's other pages are taken and linked to the first, which gets    *)
(* the size of the area.                                                    *)
Grouped(m, first, rest, size) ==
    [m EXCEPT !.inUse = @ \union rest,
              !.linked[first] = @ \union rest,
              !.size[first] = size]

(* Fault: the IOVA is looked at and not removed.                            *)
EnteredPeeking(m, first, iova) ==
    [m EXCEPT !.iova[first] = iova,
              !.inUse = @ \union {first},
              !.listed = @ \union {first}]

(* An IOVA, and the entry in malloc_mem.                                    *)
Entered(m, first, iova) ==
    [m EXCEPT !.iova[first] = iova,
              !.freeIovas = @ \ {iova},
              !.inUse = @ \union {first},
              !.listed = @ \union {first}]

(* Pages an area of this size reaches into.                                 *)
Touched(first, size) == first .. first + (size - 1) \div PageSize

(* Fault: iova_mapped is left alone.                                        *)
MappedUnmarked(m, first, dir) ==
    [m EXCEPT !.dir[first] = dir,
              !.dirty = @ \union Touched(first, m.size[first])]

Mapped(m, first, dir) ==
    [m EXCEPT !.dir[first] = dir,
              !.mapped = @ \union {first},
              !.dirty = @ \union Touched(first, m.size[first])]

Raised(m) == [mgr |-> m, mem |-> NoMem]

(* malloc once there are enough free pages.  It may find no group, have no  *)
(* IOVA for this size, or refuse the direction, and leaves behind what it   *)
(* did before.                                                              *)
Allotted(m, size, dir) ==
    LET n      == PagesNeeded(size)
        groups == Groups(m, n)
        group  == SubSeq(FreePages(m), Min(groups), Min(groups) + n - 1)
        first  == Head(group)
        taken  == Grouped(m, first, Range(Tail(group)), size)
    IN  IF groups = {} THEN {Raised(m)}
        ELSE IF size > MaxMapping \/ m.freeIovas = {} THEN {Raised(taken)}
        ELSE IF dir \notin Directions
        THEN {Raised(Entered(taken, first, i)) : i \in m.freeIovas}
        ELSE {[mgr |-> Mapped(Entered(taken, first, i), first, dir), mem |-> first] :
                i \in m.freeIovas}

Malloc(m, size, dir) ==
    LET needed == HugePagesFor(m, PagesNeeded(WholeSize(size)))
    IN  UNION {IF Len(hps) < needed THEN {Raised(WithHugePages(m, hps))}
               ELSE Allotted(WithHugePages(m, hps), WholeSize(size), dir) :
                hps \in Answers(m, needed)}

(* malloc_pages: the pages are taken, without links, IOVAs or entries.      *)
MallocPages(m, n) ==
    LET needed == HugePagesForPages(m, n)
        Take(g) == LET taken == {FreePages(g)[i] : i \in (1 .. n) \cap DOMAIN FreePages(g)}
                   IN  [mgr |-> [g EXCEPT !.inUse = @ \union taken,
                                          !.dirty = @ \union taken],
                        taken |-> taken]
    IN  {IF Len(hps) < needed THEN [mgr |-> WithHugePages(m, hps), taken |-> {}]
         ELSE Take(WithHugePages(m, hps)) : hps \in Answers(m, needed)}

-----------------------------------------------------------------------------
(* free.                                                                    *)
Own(m, a) == {a} \union m.linked[a]

MayFree(m, a) == Own(m, a) \subseteq m.inUse /\ a \in m.mapped /\ a \in m.listed

(* The links and the first page are given back, with the size of a page.    *)
Unlinked(m, as) ==
    LET own == UNION {Own(m, a) : a \in as}
    IN  [m EXCEPT !.inUse = @ \ own,
                  !.size = [p \in Pages |-> IF p \in own THEN PageSize ELSE @[p]],
                  !.linked = [p \in Pages |-> IF p \in as THEN {} ELSE @[p]]]

(* Fault: the address goes back to the IOVA manager.                        *)
FreeEachAddress(m, as) ==
    [Unlinked(m, as) EXCEPT
        !.mapped = @ \ as, !.freeIovas = @ \union as,
        !.dirty = @ \ as, !.listed = @ \ as]

(* Fault: the memory is not cleared.                                        *)
FreeEachUncleared(m, as) ==
    [Unlinked(m, as) EXCEPT
        !.mapped = @ \ as, !.freeIovas = @ \union {m.iova[a] : a \in as},
        !.listed = @ \ as]

(* free of different areas one after the other.  The size is that of a page *)
(* when the memory is cleared, so that only the first page of each is.  The *)
(* iova and the direction of free memory, which nobody reads, are forgotten. *)
FreeEach(m, as) ==
    [Unlinked(m, as) EXCEPT
        !.mapped = @ \ as,
        !.freeIovas = @ \union {m.iova[a] : a \in as},
        !.iova = [p \in Pages |-> IF p \in as THEN NoIova ELSE @[p]],
        !.dir = [p \in Pages |-> IF p \in as THEN "none" ELSE @[p]],
        !.dirty = @ \ as,
        !.listed = @ \ as]

(* _free_all removes from the list it iterates over, and so frees the first *)
(* hugepage, the third, and so on.                                          *)
EveryOther(s) == [i \in 1 .. (Len(s) + 1) \div 2 |-> s[2 * i - 1]]
Others(s)     == [i \in 1 .. Len(s) \div 2 |-> s[2 * i]]

(* free_all frees what it finds in malloc_mem, and forgets all pages.  The  *)
(* kernel clears a hugepage before it hands it out again.                   *)
MayFreeAll(m) == \A a \in m.listed : MayFree(m, a)

FreeAll(m) ==
    [NewPageMgr EXCEPT !.freeIovas = FreeEach(m, m.listed).freeIovas,
                       !.backing = Others(m.backing)]
=============================================================================

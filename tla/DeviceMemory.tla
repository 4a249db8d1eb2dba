---------------------------- MODULE DeviceMemory ----------------------------
(***************************************************************************)
(* The users of the driver's memory manager: queues and tests, which ask    *)
(* for areas (malloc) and pages (malloc_pages), and commands, whose data is *)
(* described by PRPs (lone/nvme/spec/prp.py).  PRP.alloc is a call of       *)
(* malloc for each page of data, and one for the list of PRPs when there    *)
(* are more than two; a step of this module is one such call.               *)
(*                                                                          *)
(* What a page of data holds is abstracted to all zeroes; the list of a PRP *)
(* is a field of the PRP, and "stale" says that the page it was written to  *)
(* was not clear.                                                           *)
(***************************************************************************)
EXTENDS PageMgr

CONSTANTS
    Prps,         \* command objects that have a PRP
    PrpsPerPage,  \* mps // 8 - 1
    NoPrp,        \* no PRP object
    AreaSizes,    \* bytes the user asks malloc for
    AreaDirs,     \* directions he asks for, supported or not
    DataSizes,    \* bytes of the data of a command
    DataDirs,     \* directions of commands
    MaxLent       \* bound of the model on pages from malloc_pages

ASSUME PrpsPerPageAssumption == PrpsPerPage \in Nat \ {0}
ASSUME SizesAssumption == AreaSizes \subseteq Nat \ {0} /\ DataSizes \subseteq Nat \ {0}
ASSUME DirsAssumption == DataDirs \subseteq Directions /\ MaxLent \in Nat

VARIABLES
    mgr,        \* the manager
    areas,      \* areas the user holds from malloc
    lent,       \* pages the user holds from malloc_pages
    prps,       \* the PRP of each command
    building,   \* the PRP whose alloc has not returned
    spansFreed  \* an area of several pages was freed by free

vars == <<mgr, areas, lent, prps, building, spansFreed>>

Ceil(a, b) == (a + b - 1) \div b

Init ==
    /\ \E hps \in Answers(NewPageMgr, 1) : mgr = WithHugePages(NewPageMgr, hps)
    /\ areas = {} /\ lent = {}
    /\ prps = [c \in Prps |-> NoPrp]
    /\ building = NoPrp
    /\ spansFreed = FALSE

-----------------------------------------------------------------------------
(* PRPs.  A PRP object: its command, bytes and direction, mem_list, the     *)
(* addresses prp1 and prp2, and the list in the memory of prp2.             *)
DataPages(prp) == Ceil(prp.bytes, PageSize)

(* pages_needed without and with the pages for lists.                       *)
ListsNeeded(n) == IF n > 2 THEN Ceil(n - 1, PrpsPerPage) ELSE 0
PrpPagesNeeded(prp) == DataPages(prp) + ListsNeeded(DataPages(prp))
HasList(prp) == PrpPagesNeeded(prp) > 2

(* The loop over the list ends when no bytes remain.                        *)
LoopEnds(prp) == Len(prp.list) * PageSize >= prp.bytes - PageSize

AllocReturns(prp) ==
    IF HasList(prp) THEN Len(prp.mems) > 2 /\ LoopEnds(prp) ELSE Len(prp.mems) = PrpPagesNeeded(prp)

(* "Support for PRPs larger than 2M not implemented!"                       *)
AllocRaises(prp) == HasList(prp) /\ Len(prp.list) = PrpsPerPage /\ ~LoopEnds(prp)

(* The page that has just been allocated.                                   *)
WithPage(prp, m, p, clear) ==
    LET k == Len(prp.mems) + 1
        isList == HasList(prp) /\ k = 2
    IN  [prp EXCEPT !.mems = Append(@, p),
                    !.prp1 = IF k = 1 THEN m.iova[p] ELSE @,
                    !.prp2 = IF k = 2 THEN m.iova[p] ELSE @,
                    !.list = IF k > 2 THEN Append(@, m.iova[p]) ELSE @,
                    !.stale = @ \/ (isList /\ ~clear)]

(* Fault: the list is mapped like the data.                                 *)
OneDirection(prp) == prp.dir

(* The device reads the list, whatever it does with the data.               *)
NextDirection(prp) == IF HasList(prp) /\ Len(prp.mems) = 1 THEN "to device" ELSE prp.dir

(* NVMeDeviceCommon.alloc begins: the old PRP of the command, if any, will  *)
(* be forgotten, not freed.                                                 *)
NewPrp(c, bytes, dir) ==
    /\ building = NoPrp
    /\ building' = [cmd |-> c, bytes |-> bytes, dir |-> dir, mems |-> <<>>,
                    prp1 |-> NoIova, prp2 |-> NoIova, list |-> <<>>, stale |-> FALSE, freed |-> FALSE]
    /\ UNCHANGED <<mgr, areas, lent, prps, spansFreed>>

(* malloc_page of a page that is not the last.                              *)
PrpPage ==
    /\ building # NoPrp
    /\ \E r \in Malloc(mgr, PageSize, NextDirection(building)) :
        /\ r.mem # NoMem
        /\ LET prp == WithPage(building, r.mgr, r.mem, r.mem \notin mgr.dirty)
           IN  ~AllocReturns(prp) /\ ~AllocRaises(prp) /\ building' = prp
        /\ mgr' = r.mgr
    /\ UNCHANGED <<areas, lent, prps, spansFreed>>

(* With the last page alloc returns, and the command has its PRP.           *)
PrpLastPage ==
    /\ building # NoPrp
    /\ \E r \in Malloc(mgr, PageSize, NextDirection(building)) :
        /\ r.mem # NoMem
        /\ LET prp == WithPage(building, r.mgr, r.mem, r.mem \notin mgr.dirty)
           IN  AllocReturns(prp) /\ prps' = [prps EXCEPT ![prp.cmd] = prp]
        /\ mgr' = r.mgr
    /\ building' = NoPrp
    /\ UNCHANGED <<areas, lent, spansFreed>>

(* malloc raises, or the list is full.  Nobody knows of the pages that alloc *)
(* has, except malloc_mem.                                                   *)
PrpRaises ==
    /\ building # NoPrp
    /\ \E r \in Malloc(mgr, PageSize, NextDirection(building)) :
        /\ r.mem # NoMem => AllocRaises(WithPage(building, r.mgr, r.mem, TRUE))
        /\ mgr' = r.mgr
    /\ building' = NoPrp
    /\ UNCHANGED <<areas, lent, prps, spansFreed>>

(* free_prps: free_all_memory removes from the list it iterates over.       *)
FreePrps(c) ==
    /\ building = NoPrp
    /\ prps[c] # NoPrp
    /\ \A p \in Range(EveryOther(prps[c].mems)) : MayFree(mgr, p)
    /\ mgr' = FreeEach(mgr, Range(EveryOther(prps[c].mems)))
    /\ prps' = [prps EXCEPT ![c].mems = Others(@), ![c].freed = TRUE]
    /\ UNCHANGED <<areas, lent, building, spansFreed>>

-----------------------------------------------------------------------------
(* Areas and pages.                                                         *)
MallocArea(size, dir) ==
    /\ building = NoPrp
    /\ \E r \in Malloc(mgr, size, dir) :
        /\ mgr' = r.mgr
        /\ areas' = areas \union ({r.mem} \ {NoMem})
    /\ UNCHANGED <<lent, prps, building, spansFreed>>

BorrowPages(n) ==
    /\ building = NoPrp
    /\ Cardinality(lent) + n <= MaxLent
    /\ \E r \in MallocPages(mgr, n) : mgr' = r.mgr /\ lent' = lent \union r.taken
    /\ UNCHANGED <<areas, prps, building, spansFreed>>

FreeArea(a) ==
    /\ building = NoPrp
    /\ a \in areas
    /\ MayFree(mgr, a)
    /\ mgr' = FreeEach(mgr, {a})
    /\ areas' = areas \ {a}
    /\ spansFreed' = (spansFreed \/ Own(mgr, a) # {a})
    /\ UNCHANGED <<lent, prps, building>>

(* free_all, after which the user holds nothing.  A free_all that raises, on *)
(* an area that was never mapped, is not followed.                           *)
ReleaseAll ==
    /\ building = NoPrp
    /\ MayFreeAll(mgr)
    /\ mgr' = FreeAll(mgr)
    /\ areas' = {} /\ lent' = {}
    /\ prps' = [c \in Prps |-> NoPrp]
    /\ UNCHANGED <<building, spansFreed>>

Next ==
    \/ \E c \in Prps, bytes \in DataSizes, dir \in DataDirs : NewPrp(c, bytes, dir)
    \/ PrpPage \/ PrpLastPage \/ PrpRaises
    \/ \E c \in Prps : FreePrps(c)
    \/ \E size \in AreaSizes, dir \in AreaDirs : MallocArea(size, dir)
    \/ \E n \in 1 .. MaxLent : BorrowPages(n)
    \/ \E a \in areas : FreeArea(a)
    \/ ReleaseAll

Spec == Init /\ [][Next]_vars
-----------------------------------------------------------------------------
(* What is held, and must be left alone.                                    *)
LivePrps == {c \in Prps : prps[c] # NoPrp /\ ~prps[c].freed}

PrpMems(prp) == IF prp = NoPrp THEN {} ELSE Range(prp.mems)

Held == areas \union PrpMems(building) \union UNION {PrpMems(prps[c]) : c \in Prps}

TypeOK ==
    /\ mgr.inUse \union mgr.mapped \union mgr.listed \union Range(mgr.pages) \subseteq Pages
    /\ mgr.dirty \subseteq Nat
    /\ \A p \in Pages :
        /\ mgr.size[p] \in Nat \ {0} /\ mgr.linked[p] \subseteq Pages
        /\ mgr.iova[p] \in Iovas \union {NoIova} /\ mgr.dir[p] \in Directions \union {"none"}
    /\ mgr.freeIovas \subseteq Iovas
    /\ Range(mgr.backing) \subseteq HugePages
    /\ Held \union lent \subseteq Pages
    /\ spansFreed \in BOOLEAN

(* The pages an area reaches into, which are not always those it is linked  *)
(* to: contiguity is read off sizes, and a call that raised leaves a size   *)
(* and links on a page that stays free.                                     *)
Reach(a) == a .. a + PagesNeeded(mgr.size[a]) - 1

(* What an area reaches and what it is linked to is in use, and nothing of  *)
(* it belongs to another area or was handed out as a page.                  *)
AreasAreApart ==
    /\ \A a \in Held : Reach(a) \union Own(mgr, a) \subseteq mgr.inUse \ lent
    /\ \A a, b \in Held :
        a # b => (Reach(a) \union Own(mgr, a)) \cap (Reach(b) \union Own(mgr, b)) = {}
    /\ Held \union lent \subseteq Range(mgr.pages)

(* No IOVA leads to two areas, or is handed out while it leads to one, after *)
(* frees in any order and calls that raised between the two.                *)
IovasAreOwn ==
    /\ \A a, b \in mgr.mapped : mgr.iova[a] = mgr.iova[b] => a = b
    /\ \A a \in mgr.mapped : mgr.iova[a] \notin mgr.freeIovas

(* free raises for nothing that a user holds, once he holds it.             *)
HeldCanBeFreed == \A a \in Held : MayFree(mgr, a)

-----------------------------------------------------------------------------
(* PRPs.  What a controller reaches from the two addresses of a command,    *)
(* through the IOMMU, in which the live areas are mapped.                   *)
Behind(iova, dir) == {p \in mgr.mapped : mgr.iova[p] = iova /\ mgr.dir[p] = dir}

Reached(prp) ==
    LET pointers == IF DataPages(prp) = 1 THEN <<prp.prp1>>
                    ELSE IF DataPages(prp) = 2 THEN <<prp.prp1, prp.prp2>>
                    ELSE <<prp.prp1>> \o prp.list
    IN  [i \in 1 .. Len(pointers) |-> Behind(pointers[i], prp.dir)]

(* The pages of the data, in order: mem_list without the page of the list.  *)
DataMems(prp) == IF HasList(prp) THEN RemoveAt(prp.mems, 2) ELSE prp.mems

(* The controller reaches each page of the data, in order, in the direction *)
(* of the command, and can read the list, whatever was freed or raised      *)
(* since.                                                                   *)
ControllerReachesData ==
    \A c \in LivePrps :
        /\ Len(Reached(prps[c])) = DataPages(prps[c])
        /\ Reached(prps[c]) = [i \in 1 .. Len(DataMems(prps[c])) |-> {DataMems(prps[c])[i]}]
        /\ HasList(prps[c]) => Behind(prps[c].prp2, "to device") = {prps[c].mems[2]}

(* get_data_segments.  The memory behind prp2 is read as a list in any case; *)
(* of a page of data, taken to be zeroes, it makes no segments.  Something   *)
(* left in the page of a list makes an assertion fail.                       *)
Matches(prp, iova) == {p \in Range(prp.mems) : mgr.iova[p] = iova}
SegmentsAssertHolds(prp) ==
    ~prp.stale /\ \A i \in 1 .. Len(prp.list) : Cardinality(Matches(prp, prp.list[i])) = 1
DataSegments(prp) ==
    Keep(prp.mems, Matches(prp, prp.prp1))
        \o [i \in 1 .. Len(prp.list) |-> CHOOSE p \in Matches(prp, prp.list[i]) : TRUE]

SegmentsAreData(prp) == SegmentsAssertHolds(prp) /\ DataSegments(prp) = DataMems(prp)

(* The driver finds the pages of the data of a command with a list, or with *)
(* one page.  For this the page of the list must have been clear: the end   *)
(* of a list is told by zeroes only.                                        *)
ListLeadsToData ==
    ~spansFreed => \A c \in LivePrps : DataPages(prps[c]) # 2 => SegmentsAreData(prps[c])

(* PRP.alloc: for two pages "The memory list has to be 2 items each large   *)
(* enough for 1/2 of the data"; both are data.                              *)
SegmentsLeadToData == \A c \in LivePrps : SegmentsAreData(prps[c])
=============================================================================

------------------------- MODULE DeviceMemoryProofs -------------------------
(***************************************************************************)
(* Proofs about DeviceMemory for every size of pages and hugepages, every   *)
(* set of hugepages the kernel may hand out, every set of IOVAs, all sizes  *)
(* of areas and of data, and any number of commands.                        *)
(***************************************************************************)
EXTENDS DeviceMemory, ListTheorems

-----------------------------------------------------------------------------
(***************************************************************************)
(* Arithmetic of pages.                                                    *)
(***************************************************************************)

(* The pages of a hugepage, and that no page is in two.                     *)
LEMMA PagesOfFacts ==
    ASSUME NEW h \in Nat
    PROVE  /\ PagesOf(h) \subseteq Nat
           /\ \A r \in 0 .. PagesPerHp - 1 : h * PagesPerHp + r \in PagesOf(h)
           /\ \A x \in PagesOf(h) : \E r \in 0 .. PagesPerHp - 1 : x = PagesPerHp * h + r
<1> DEFINE a == h * PagesPerHp
<1>1. a \in Nat /\ PagesPerHp * h = a /\ (h + 1) * PagesPerHp = a + PagesPerHp
  BY PageSizeAssumption
<1>2. PagesOf(h) = a .. a + PagesPerHp - 1 /\ PagesPerHp \in Nat \ {0}
  BY <1>1, PageSizeAssumption DEF PagesOf
<1> HIDE DEF a
<1>3. ASSUME NEW x \in PagesOf(h) PROVE \E r \in 0 .. PagesPerHp - 1 : x = a + r
  <2>1. x - a \in 0 .. PagesPerHp - 1 /\ x = a + (x - a)
    BY <1>1, <1>2
  <2> QED
    BY <2>1
<1>4. PagesOf(h) \subseteq Nat /\ \A r \in 0 .. PagesPerHp - 1 : a + r \in PagesOf(h)
  BY <1>1, <1>2
<1> QED
  BY <1>1, <1>3, <1>4 DEF a

LEMMA PagesOfApart ==
    ASSUME NEW h \in Nat, NEW k \in Nat, NEW x \in PagesOf(h), x \in PagesOf(k)
    PROVE  h = k
<1>1. PICK r \in 0 .. PagesPerHp - 1 : x = PagesPerHp * h + r
  BY PagesOfFacts
<1>2. PICK t \in 0 .. PagesPerHp - 1 : x = PagesPerHp * k + t
  BY PagesOfFacts
<1> QED
  BY <1>1, <1>2, MulUnique, PageSizeAssumption

LEMMA PagesAreNat == Pages \subseteq Nat
BY PagesOfFacts, HugePagesAssumption DEF Pages

(* The pages of new hugepages are pages of theirs, and none is there twice. *)
LEMMA PagesInFacts ==
    ASSUME NEW hps \in Seq(HugePages),
           \A i, j \in 1 .. Len(hps) : hps[i] = hps[j] => i = j
    PROVE  /\ PagesIn(hps) \in Seq(Pages)
           /\ \A i \in 1 .. Len(PagesIn(hps)) :
                \E j \in 1 .. Len(hps) : PagesIn(hps)[i] \in PagesOf(hps[j])
           /\ \A i, j \in 1 .. Len(PagesIn(hps)) : PagesIn(hps)[i] = PagesIn(hps)[j] => i = j
<1> DEFINE P == PagesPerHp
           n == Len(hps)
           q(i) == (i - 1) \div P
           r(i) == (i - 1) % P
           x(i) == hps[q(i) + 1] * P + r(i)
           s == PagesIn(hps)
<1>0. P \in Nat \ {0} /\ n \in Nat /\ n * P \in Nat
  BY PageSizeAssumption, MulNat
<1>1. ASSUME NEW i \in 1 .. n * P
      PROVE  /\ q(i) + 1 \in 1 .. n /\ r(i) \in 0 .. P - 1 /\ i - 1 = P * q(i) + r(i)
             /\ hps[q(i) + 1] \in HugePages /\ hps[q(i) + 1] \in Nat
             /\ q(i) \in Nat
  <2> HIDE DEF P, n
  <2>1. i - 1 \in Nat /\ i - 1 < n * P
    BY <1>0
  <2>2. q(i) \in Nat /\ r(i) \in 0 .. P - 1 /\ i - 1 = P * q(i) + r(i)
    BY <1>0, <2>1, DivFacts
  <2> HIDE DEF q, r
  <2>3. q(i) < n
    <3> DEFINE k == q(i)
               t == r(i)
               x0 == i - 1
    <3>1. k \in Nat /\ t \in Nat /\ x0 = P * k + t /\ x0 \in Nat /\ x0 < n * P /\ n \in Nat /\ P \in Nat
      BY <1>0, <2>1, <2>2
    <3> HIDE DEF k, t, x0
    <3>2. ~(n <= k)
      <4> SUFFICES ASSUME n <= k PROVE FALSE
        OBVIOUS
      <4>1. k - n \in Nat /\ P * (k - n) \in Nat
        BY ONLY <3>1, n <= k
      <4>2. P * k = P * n + P * (k - n) /\ P * n = n * P /\ P * n \in Nat /\ P * k \in Nat
        BY ONLY <3>1
      <4> QED
        BY ONLY <3>1, <4>1, <4>2
    <3> QED
      BY <3>1, <3>2 DEF k
  <2>4. q(i) + 1 \in 1 .. n
    BY <1>0, <2>2, <2>3
  <2>5. hps[q(i) + 1] \in HugePages
    BY <2>4 DEF n
  <2> QED
    BY <2>2, <2>4, <2>5, HugePagesAssumption
<1>2. s = [i \in 1 .. n * P |-> x(i)]
  BY DEF PagesIn
<1> HIDE DEF q, r, P, n
<1>3. ASSUME NEW i \in 1 .. n * P
      PROVE  x(i) \in PagesOf(hps[q(i) + 1]) /\ x(i) \in Pages
  <2>1. x(i) \in PagesOf(hps[q(i) + 1])
    BY <1>1, PagesOfFacts DEF P
  <2> QED
    BY <1>1, <2>1 DEF Pages
<1>4. ASSUME NEW i \in 1 .. n * P, NEW j \in 1 .. n * P, x(i) = x(j)
      PROVE  i = j
  <2> DEFINE h == hps[q(i) + 1]
             k == hps[q(j) + 1]
             s1 == r(i)
             t1 == r(j)
  <2>1. h \in Nat /\ k \in Nat /\ s1 \in 0 .. P - 1 /\ t1 \in 0 .. P - 1
    BY <1>1
  <2>2. h * P + s1 = k * P + t1
    BY <1>4
  <2> HIDE DEF h, k, s1, t1
  <2>2a. P * h + s1 = P * k + t1
    BY <1>0, <2>1, <2>2
  <2>3. h = k /\ s1 = t1
    BY <1>0, <2>1, <2>2a, MulUnique
  <2> USE DEF h, k, s1, t1
  <2>4. q(i) + 1 = q(j) + 1
    BY <1>1, <2>3 DEF n
  <2>5. q(i) = q(j)
    BY <1>1, <2>4
  <2>6. i - 1 = j - 1
    BY <1>1, <2>3, <2>5
  <2> QED
    BY <2>6
<1> HIDE DEF x, s
<1>5. s \in Seq(Pages) /\ Len(s) = n * P /\ \A i \in 1 .. n * P : s[i] = x(i)
  BY <1>0, <1>2, <1>3
<1>6. ASSUME NEW i \in 1 .. Len(s) PROVE \E j \in 1 .. n : s[i] \in PagesOf(hps[j])
  <2>1. i \in 1 .. n * P /\ s[i] = x(i)
    BY <1>5
  <2>2. q(i) + 1 \in 1 .. n /\ x(i) \in PagesOf(hps[q(i) + 1])
    BY <1>1, <1>3, <2>1
  <2> QED
    BY ONLY <2>1, <2>2
<1>7. \A i, j \in 1 .. Len(s) : s[i] = s[j] => i = j
  BY <1>4, <1>5
<1> QED
  BY <1>5, <1>6, <1>7 DEF s, n

LEMMA MinPair ==
    ASSUME NEW a \in Int, NEW b \in Int
    PROVE  Min({a, b}) \in {a, b} /\ Min({a, b}) <= a /\ Min({a, b}) <= b
<1>1. \E x \in {a, b} : \A y \in {a, b} : x <= y
  <2>1. CASE a <= b
    BY <2>1
  <2>2. CASE b <= a
    BY <2>2
  <2> QED
    BY <2>1, <2>2
<1> QED
  BY <1>1 DEF Min

LEMMA MaxPair ==
    ASSUME NEW a \in Int, NEW b \in Int
    PROVE  Max({a, b}) \in {a, b} /\ Max({a, b}) >= a /\ Max({a, b}) >= b
<1>1. \E x \in {a, b} : \A y \in {a, b} : x >= y
  <2>1. CASE a >= b
    BY <2>1
  <2>2. CASE b >= a
    BY <2>2
  <2> QED
    BY <2>1, <2>2
<1> QED
  BY <1>1 DEF Max

LEMMA MinIsOne ==
    ASSUME NEW S, S \subseteq Nat, S # {}
    PROVE  Min(S) \in S
BY LeastNat DEF Min

LEMMA PagesNeededFacts ==
    ASSUME NEW size \in Nat
    PROVE  /\ PagesNeeded(size) \in Nat \ {0}
           /\ size < 2 * PageSize => PagesNeeded(size) = 1
           /\ \A d \in Nat \ {0} : size = d * PageSize => PagesNeeded(size) = d
<1>1. PageSize \in Nat \ {0} /\ size \div PageSize \in Nat
  BY PageSizeAssumption
<1> DEFINE k == size \div PageSize
<1>2. k \in Nat /\ PagesNeeded(size) = Max({1, k})
  BY <1>1 DEF PagesNeeded
<1>3. size = PageSize * k + (size % PageSize) /\ size % PageSize \in 0 .. PageSize - 1
  BY PageSizeAssumption, DivFacts
<1>4. ASSUME size < 2 * PageSize PROVE k <= 1
  <2> DEFINE r == size % PageSize
  <2>1. size = PageSize * k + r /\ r \in 0 .. PageSize - 1
    BY <1>3
  <2> HIDE DEF k, r
  <2> SUFFICES ASSUME k >= 2 PROVE FALSE
    BY <1>2
  <2>2. k - 2 \in Nat /\ PageSize * (k - 2) \in Nat /\ PageSize * k = PageSize * 2 + PageSize * (k - 2)
    BY <1>1, <1>2
  <2> QED
    BY <1>1, <1>4, <2>1, <2>2
<1>5. ASSUME NEW d \in Nat \ {0}, size = d * PageSize PROVE k = d
  BY <1>1, <1>5, DivMul
<1> HIDE DEF k
<1>6. Max({1, k}) \in {1, k} /\ Max({1, k}) >= 1 /\ Max({1, k}) >= k
  BY <1>2, MaxPair
<1> DEFINE N == PagesNeeded(size)
<1>7. N = Max({1, k})
  BY <1>2
<1> HIDE DEF N
<1>8. N \in Nat \ {0} /\ (k <= 1 => N = 1) /\ \A d \in Nat \ {0} : k = d => N = d
  BY <1>2, <1>6, <1>7
<1>9. \A d \in Nat \ {0} : size = d * PageSize => N = d
  BY <1>5, <1>8
<1> QED
  BY <1>4, <1>8, <1>9 DEF N

-----------------------------------------------------------------------------
(***************************************************************************)
(* The memory manager.  A page is a root when it is linked to no other; its *)
(* tree is what can be reached from it along links.  Free pages may have    *)
(* links and the size of an area, left behind by a malloc that raised.      *)
(***************************************************************************)
MgrType ==
    [pages : Seq(Pages), inUse : SUBSET Pages, size : [Pages -> Nat \ {0}],
     linked : [Pages -> SUBSET Pages], iova : [Pages -> Iovas \union {NoIova}],
     dir : [Pages -> Directions \union {"none"}], mapped : SUBSET Pages,
     listed : SUBSET Pages, freeIovas : SUBSET Iovas, backing : Seq(HugePages),
     dirty : SUBSET Nat]

Root(m, p) == \A q \in Pages : p \notin m.linked[q]

Closed(m, W) == \A q \in W : m.linked[q] \subseteq W

Tree(m, p) == {y \in Pages : \A W \in SUBSET Pages : p \in W /\ Closed(m, W) => y \in W}

(* The pages after p that an area of its size reaches into.                 *)
Beyond(m, p) == p + 1 .. p + PagesNeeded(m.size[p]) - 1

(* A page is in the list once, and is a page of a hugepage of the manager.  *)
PagesInv(m) ==
    /\ \A i, j \in 1 .. Len(m.pages) : m.pages[i] = m.pages[j] => i = j
    /\ \A i, j \in 1 .. Len(m.backing) : m.backing[i] = m.backing[j] => i = j
    /\ \A i \in 1 .. Len(m.pages) :
         \E j \in 1 .. Len(m.backing) : m.pages[i] \in PagesOf(m.backing[j])
    /\ \A p \in m.inUse : \E i \in 1 .. Len(m.pages) : p = m.pages[i]

(* What is linked is in use, and to one page; free pages and areas are not. *)
LinkInv(m) ==
    /\ \A p \in Pages : m.linked[p] \subseteq m.inUse
    /\ \A p, q \in Pages : p # q => m.linked[p] \cap m.linked[q] = {}
    /\ \A p \in Pages : p \notin m.inUse \/ p \in m.listed => Root(m, p)

(* What a size says is covered by links, of the page or of pages linked to. *)
SizeInv(m) == \A p \in Pages : Beyond(m, p) \subseteq Tree(m, p)

IovaInv(m) ==
    /\ m.mapped \subseteq m.listed /\ m.listed \subseteq m.inUse
    /\ \A a \in m.listed : m.iova[a] \in Iovas /\ m.iova[a] \notin m.freeIovas
    /\ \A a, b \in m.listed : m.iova[a] = m.iova[b] => a = b

MgrInv(m) == m \in MgrType /\ PagesInv(m) /\ LinkInv(m) /\ SizeInv(m) /\ IovaInv(m)

(* From m to r nothing is given back, and what was in use is as before.     *)
Extends(m, r) ==
    /\ m.inUse \subseteq r.inUse /\ m.mapped \subseteq r.mapped
    /\ \A p \in m.inUse : /\ p \in r.listed <=> p \in m.listed
                          /\ r.iova[p] = m.iova[p] /\ r.dir[p] = m.dir[p]
                          /\ r.size[p] = m.size[p]
                          /\ Root(m, p) => Root(r, p)

(* Pages handed out by malloc_pages are in use, and nobody's area.          *)
LentInv(m, given) ==
    /\ given \subseteq m.inUse
    /\ \A p \in given : p \notin m.listed /\ Root(m, p)

LEMMA MgrFields ==
    ASSUME NEW m \in MgrType
    PROVE  /\ m.pages \in Seq(Pages) /\ m.inUse \in SUBSET Pages
           /\ m.size \in [Pages -> Nat \ {0}] /\ m.linked \in [Pages -> SUBSET Pages]
           /\ m.iova \in [Pages -> Iovas \union {NoIova}]
           /\ m.dir \in [Pages -> Directions \union {"none"}]
           /\ m.mapped \in SUBSET Pages /\ m.listed \in SUBSET Pages
           /\ m.freeIovas \in SUBSET Iovas /\ m.backing \in Seq(HugePages)
           /\ m.dirty \in SUBSET Nat
BY DEF MgrType

LEMMA ExtendsTwice ==
    ASSUME NEW m, NEW g, NEW r, Extends(m, g), Extends(g, r)
    PROVE  Extends(m, r)
BY DEF Extends

LEMMA LentExtends ==
    ASSUME NEW m, NEW r, NEW given, LentInv(m, given), Extends(m, r)
    PROVE  LentInv(r, given)
BY DEF Extends, LentInv

-----------------------------------------------------------------------------
(* Trees.                                                                   *)
LEMMA TreeFacts ==
    ASSUME NEW m \in MgrType, NEW p \in Pages
    PROVE  p \in Tree(m, p) /\ m.linked[p] \subseteq Tree(m, p)
           /\ Closed(m, Tree(m, p)) /\ Tree(m, p) \subseteq Pages
<1>1. m.linked \in [Pages -> SUBSET Pages]
  BY MgrFields
<1> QED
  BY <1>1 DEF Tree, Closed

LEMMA TreesGrow ==
    ASSUME NEW m \in MgrType, NEW r \in MgrType, NEW p \in Pages,
           \A q \in Pages : m.linked[q] \subseteq r.linked[q]
    PROVE  Tree(m, p) \subseteq Tree(r, p)
<1>1. \A W \in SUBSET Pages : Closed(r, W) => Closed(m, W)
  BY DEF Closed
<1> QED
  BY <1>1 DEF Tree

LEMMA TreeInUse ==
    ASSUME NEW m \in MgrType, LinkInv(m), NEW p \in Pages
    PROVE  Tree(m, p) \subseteq {p} \union m.inUse
<1> DEFINE W == {p} \union m.inUse
<1>1. m.inUse \in SUBSET Pages /\ \A q \in Pages : m.linked[q] \subseteq m.inUse
  BY MgrFields DEF LinkInv
<1>2. W \in SUBSET Pages /\ p \in W /\ Closed(m, W)
  BY <1>1 DEF Closed
<1> HIDE DEF W
<1>3. Tree(m, p) \subseteq W
  BY <1>2 DEF Tree
<1> QED
  BY <1>3 DEF W

LEMMA RootAlone ==
    ASSUME NEW m \in MgrType, NEW a \in Pages, NEW b \in Pages, a # b, Root(m, a)
    PROVE  a \notin Tree(m, b)
<1> DEFINE W == Pages \ {a}
<1>1. m.linked \in [Pages -> SUBSET Pages]
  BY MgrFields
<1>2. W \in SUBSET Pages /\ b \in W /\ Closed(m, W)
  BY <1>1 DEF Closed, Root
<1> HIDE DEF W
<1>3. Tree(m, b) \subseteq W
  BY <1>2 DEF Tree
<1> QED
  BY <1>3 DEF W

(* Different roots have trees apart: what is in both would have been linked *)
(* to from a page that is in both.                                          *)
LEMMA TreesApart ==
    ASSUME NEW m \in MgrType, LinkInv(m), NEW a \in Pages, NEW b \in Pages, a # b,
           Root(m, a), Root(m, b)
    PROVE  Tree(m, a) \cap Tree(m, b) = {}
<1> DEFINE A == Tree(m, a)
           B == Tree(m, b)
           W == A \ B
<1>1. A \subseteq Pages /\ B \subseteq Pages /\ a \in A /\ b \in B /\ Closed(m, A) /\ Closed(m, B)
  BY TreeFacts
<1>2. a \notin B /\ b \notin A
  BY RootAlone
<1>3. ASSUME NEW y \in B, y # b, NEW q \in Pages, y \in m.linked[q], q \notin B
      PROVE  FALSE
  <2> DEFINE V == B \ {y}
  <2>1. \A p \in Pages : y \in m.linked[p] => p = q
    BY <1>3 DEF LinkInv
  <2>2. V \in SUBSET Pages /\ b \in V /\ Closed(m, V)
    BY <1>1, <1>3, <2>1 DEF Closed
  <2> HIDE DEF V
  <2>3. Tree(m, b) \subseteq V
    BY <2>2 DEF Tree
  <2> QED
    BY <1>3, <2>3 DEF V
<1>4. Closed(m, W)
  <2> SUFFICES ASSUME NEW q \in W, NEW y \in m.linked[q] PROVE y \in A /\ y \notin B
    BY DEF Closed
  <2>1. y \in A
    BY <1>1 DEF Closed
  <2>2. y # b
    BY <1>2, <2>1
  <2> QED
    BY <1>1, <1>3, <2>1, <2>2
<1>5. W \in SUBSET Pages /\ a \in W
  BY <1>1, <1>2
<1> HIDE DEF W
<1>6. Tree(m, a) \subseteq W
  BY <1>4, <1>5 DEF Tree
<1> QED
  BY <1>6 DEF W

-----------------------------------------------------------------------------
(***************************************************************************)
(* A new manager, and more hugepages.                                       *)
(***************************************************************************)
LEMMA PageHasNothingBeyond ==
    ASSUME NEW m, NEW p \in Nat, m.size[p] = PageSize
    PROVE  Beyond(m, p) = {}
<1>1. PageSize \in Nat /\ PageSize < 2 * PageSize
  BY PageSizeAssumption
<1>2. PagesNeeded(PageSize) = 1
  BY <1>1, PagesNeededFacts
<1> QED
  BY <1>2 DEF Beyond

(* A manager nobody has asked for anything yet, or that has forgotten all.  *)
LEMMA UnusedIsCorrect ==
    ASSUME NEW m \in MgrType, m.pages = <<>>, m.inUse = {}, m.mapped = {}, m.listed = {},
           \A p \in Pages : m.linked[p] = {} /\ m.size[p] = PageSize,
           \A i, j \in 1 .. Len(m.backing) : m.backing[i] = m.backing[j] => i = j
    PROVE  MgrInv(m)
<1>1. PagesInv(m)
  BY DEF PagesInv
<1>2. LinkInv(m)
  BY DEF LinkInv, Root
<1>3. SizeInv(m)
  BY PageHasNothingBeyond, PagesAreNat DEF SizeInv
<1>4. IovaInv(m)
  BY DEF IovaInv
<1> QED
  BY <1>1, <1>2, <1>3, <1>4 DEF MgrInv

LEMMA NewIsTyped ==
    /\ NewPageMgr \in MgrType
    /\ NewPageMgr.pages = <<>> /\ NewPageMgr.inUse = {} /\ NewPageMgr.mapped = {}
    /\ NewPageMgr.listed = {} /\ NewPageMgr.backing = <<>> /\ NewPageMgr.dirty = {}
    /\ NewPageMgr.freeIovas = Iovas
    /\ \A p \in Pages : NewPageMgr.linked[p] = {} /\ NewPageMgr.size[p] = PageSize
<1>1. PageSize \in Nat \ {0}
  BY PageSizeAssumption
<1> QED
  BY <1>1 DEF NewPageMgr, MgrType

LEMMA AnswersAre ==
    ASSUME NEW m \in MgrType, NEW n \in Nat, NEW hps \in Answers(m, n)
    PROVE  /\ hps \in Seq(HugePages)
           /\ \A i, j \in 1 .. Len(hps) : hps[i] = hps[j] => i = j
           /\ \A i \in 1 .. Len(hps), j \in 1 .. Len(m.backing) : hps[i] # m.backing[j]
<1> DEFINE left == HugePages \ Range(m.backing)
           c == Cardinality(left)
           k == Min({n, c})
<1>1. IsFiniteSet(left)
  BY HugePagesAssumption, FS_Subset
<1>2. c \in Nat
  BY <1>1, FS_CardinalityType
<1> HIDE DEF c
<1>2a. n \in Int /\ c \in Int
  BY <1>2
<1>2b. k \in {n, c}
  BY <1>2a, MinPair
<1>3. k \in Nat
  BY <1>2, <1>2b
<1>4. hps \in [1 .. k -> left] /\ \A i, j \in 1 .. k : hps[i] = hps[j] => i = j
  BY DEF Answers, c
<1>5. m.backing \in Seq(HugePages)
  BY MgrFields
<1>6. left \cap {m.backing[j] : j \in 1 .. Len(m.backing)} = {}
  BY <1>5 DEF Range
<1> HIDE DEF k, left
<1>7. Len(hps) = k /\ hps \in Seq(left)
  BY <1>3, <1>4
<1>8. left \subseteq HugePages
  BY DEF left
<1>9. hps \in Seq(HugePages)
  BY <1>7, <1>8
<1> QED
  BY <1>4, <1>6, <1>7, <1>9

LEMMA WithHugePagesKeeps ==
    ASSUME NEW m, MgrInv(m), NEW n \in Nat, NEW hps \in Answers(m, n)
    PROVE  LET r == WithHugePages(m, hps)
           IN  /\ MgrInv(r) /\ Extends(m, r)
               /\ r.inUse = m.inUse /\ r.mapped = m.mapped /\ r.dirty = m.dirty
               /\ r.size = m.size
<1> DEFINE r == WithHugePages(m, hps)
           new == PagesIn(hps)
<1>1. m \in MgrType /\ PagesInv(m) /\ LinkInv(m) /\ SizeInv(m) /\ IovaInv(m)
  BY DEF MgrInv
<1>2. m.pages \in Seq(Pages) /\ m.backing \in Seq(HugePages)
  BY <1>1, MgrFields
<1>3. /\ hps \in Seq(HugePages) /\ \A i, j \in 1 .. Len(hps) : hps[i] = hps[j] => i = j
      /\ \A i \in 1 .. Len(hps), j \in 1 .. Len(m.backing) : hps[i] # m.backing[j]
  BY <1>1, AnswersAre
<1>4. /\ new \in Seq(Pages)
      /\ \A i \in 1 .. Len(new) : \E j \in 1 .. Len(hps) : new[i] \in PagesOf(hps[j])
      /\ \A i, j \in 1 .. Len(new) : new[i] = new[j] => i = j
  BY <1>3, PagesInFacts
<1> HIDE DEF new
<1>4a. m.pages \o new \in Seq(Pages) /\ m.backing \o hps \in Seq(HugePages)
  BY <1>2, <1>3, <1>4
<1>5. r \in MgrType
  BY <1>1, <1>4a DEF MgrType, WithHugePages, new
<1>6. /\ r.pages = m.pages \o new /\ r.backing = m.backing \o hps
      /\ r.inUse = m.inUse /\ r.mapped = m.mapped /\ r.dirty = m.dirty /\ r.size = m.size
      /\ r.linked = m.linked /\ r.listed = m.listed /\ r.iova = m.iova /\ r.dir = m.dir
      /\ r.freeIovas = m.freeIovas
  BY <1>1 DEF MgrType, WithHugePages, new
<1> HIDE DEF r
<1>7. ASSUME NEW i \in 1 .. Len(m.pages), NEW j \in 1 .. Len(new) PROVE m.pages[i] # new[j]
  <2>1. PICK k \in 1 .. Len(m.backing) : m.pages[i] \in PagesOf(m.backing[k])
    BY <1>1 DEF PagesInv
  <2>2. PICK l \in 1 .. Len(hps) : new[j] \in PagesOf(hps[l])
    BY <1>4
  <2>3. m.backing[k] \in HugePages /\ hps[l] \in HugePages
    BY <1>2, <1>3
  <2>4. hps[l] # m.backing[k]
    BY <1>3
  <2>5. m.backing[k] \in Nat /\ hps[l] \in Nat
    BY <2>3, HugePagesAssumption
  <2> QED
    BY <2>1, <2>2, <2>4, <2>5, PagesOfApart
<1>8. /\ Len(r.pages) = Len(m.pages) + Len(new)
      /\ \A i \in 1 .. Len(r.pages) :
           r.pages[i] = IF i <= Len(m.pages) THEN m.pages[i] ELSE new[i - Len(m.pages)]
      /\ \A i \in 1 .. Len(m.pages) : r.pages[i] = m.pages[i]
  BY <1>2, <1>4, <1>6
<1>9. /\ Len(r.backing) = Len(m.backing) + Len(hps)
      /\ \A i \in 1 .. Len(r.backing) :
           r.backing[i] = IF i <= Len(m.backing) THEN m.backing[i] ELSE hps[i - Len(m.backing)]
      /\ \A i \in 1 .. Len(m.backing) : r.backing[i] = m.backing[i]
      /\ \A i \in 1 .. Len(hps) : r.backing[Len(m.backing) + i] = hps[i]
  BY <1>2, <1>3, <1>6
<1> DEFINE a == Len(m.pages)
           b == Len(new)
           c == Len(m.backing)
           d == Len(hps)
<1>10. a \in Nat /\ b \in Nat /\ c \in Nat /\ d \in Nat
  BY <1>2, <1>3, <1>4
<1> HIDE DEF a, b, c, d
<1>11. \A i, j \in 1 .. Len(r.pages) : r.pages[i] = r.pages[j] => i = j
  <2> SUFFICES ASSUME NEW i \in 1 .. a + b, NEW j \in 1 .. a + b, r.pages[i] = r.pages[j]
               PROVE  i = j
    BY <1>8 DEF a, b
  <2>1. \A k \in 1 .. a + b : \/ k \in 1 .. a /\ r.pages[k] = m.pages[k]
                              \/ k - a \in 1 .. b /\ ~(k <= a) /\ r.pages[k] = new[k - a]
    <3> SUFFICES ASSUME NEW k \in 1 .. a + b
                 PROVE  \/ k \in 1 .. a /\ r.pages[k] = m.pages[k]
                        \/ k - a \in 1 .. b /\ ~(k <= a) /\ r.pages[k] = new[k - a]
      OBVIOUS
    <3>1. r.pages[k] = IF k <= a THEN m.pages[k] ELSE new[k - a]
      BY <1>8 DEF a, b
    <3>2. CASE k <= a
      BY <1>10, <3>1, <3>2
    <3>3. CASE ~(k <= a)
      BY <1>10, <3>1, <3>3
    <3> QED
      BY <3>2, <3>3
  <2>2. CASE i \in 1 .. a /\ j \in 1 .. a
    BY <1>1, <1>10, <2>1, <2>2 DEF PagesInv, a
  <2>3. CASE i - a \in 1 .. b /\ ~(i <= a) /\ j - a \in 1 .. b /\ ~(j <= a)
    <3>1. r.pages[i] = new[i - a] /\ r.pages[j] = new[j - a]
      BY <1>10, <2>1, <2>3
    <3>2. i - a = j - a
      BY <1>4, <2>3, <3>1 DEF b
    <3> QED
      BY <1>10, <3>2
  <2>4. CASE i \in 1 .. a /\ j - a \in 1 .. b /\ ~(j <= a)
    <3>1. r.pages[i] = m.pages[i] /\ r.pages[j] = new[j - a]
      BY <1>10, <2>1, <2>4
    <3>2. m.pages[i] # new[j - a]
      BY <1>7, <2>4 DEF a, b
    <3> QED
      BY <3>1, <3>2
  <2>5. CASE j \in 1 .. a /\ i - a \in 1 .. b /\ ~(i <= a)
    <3>1. r.pages[j] = m.pages[j] /\ r.pages[i] = new[i - a]
      BY <1>10, <2>1, <2>5
    <3>2. m.pages[j] # new[i - a]
      BY <1>7, <2>5 DEF a, b
    <3> QED
      BY <3>1, <3>2
  <2> QED
    BY <2>1, <2>2, <2>3, <2>4, <2>5
<1>12. \A i, j \in 1 .. Len(r.backing) : r.backing[i] = r.backing[j] => i = j
  <2> SUFFICES ASSUME NEW i \in 1 .. c + d, NEW j \in 1 .. c + d, r.backing[i] = r.backing[j]
               PROVE  i = j
    BY <1>9 DEF c, d
  <2>1. \A k \in 1 .. c + d : \/ k \in 1 .. c /\ r.backing[k] = m.backing[k]
                              \/ k - c \in 1 .. d /\ ~(k <= c) /\ r.backing[k] = hps[k - c]
    <3> SUFFICES ASSUME NEW k \in 1 .. c + d
                 PROVE  \/ k \in 1 .. c /\ r.backing[k] = m.backing[k]
                        \/ k - c \in 1 .. d /\ ~(k <= c) /\ r.backing[k] = hps[k - c]
      OBVIOUS
    <3>1. r.backing[k] = IF k <= c THEN m.backing[k] ELSE hps[k - c]
      BY <1>9 DEF c, d
    <3>2. CASE k <= c
      BY <1>10, <3>1, <3>2
    <3>3. CASE ~(k <= c)
      BY <1>10, <3>1, <3>3
    <3> QED
      BY <3>2, <3>3
  <2>2. CASE i \in 1 .. c /\ j \in 1 .. c
    BY <1>1, <1>10, <2>1, <2>2 DEF PagesInv, c
  <2>3. CASE i - c \in 1 .. d /\ ~(i <= c) /\ j - c \in 1 .. d /\ ~(j <= c)
    <3>1. r.backing[i] = hps[i - c] /\ r.backing[j] = hps[j - c]
      BY <1>10, <2>1, <2>3
    <3>2. i - c = j - c
      BY <1>3, <2>3, <3>1 DEF d
    <3> QED
      BY <1>10, <3>2
  <2>4. \A k \in 1 .. c, l \in 1 .. d : hps[l] # m.backing[k]
    BY <1>3 DEF c, d
  <2>5. CASE i \in 1 .. c /\ j - c \in 1 .. d /\ ~(j <= c)
    <3>1. r.backing[i] = m.backing[i] /\ r.backing[j] = hps[j - c]
      BY <1>10, <2>1, <2>5
    <3>2. hps[j - c] # m.backing[i]
      BY <2>4, <2>5
    <3> QED
      BY <3>1, <3>2
  <2>6. CASE j \in 1 .. c /\ i - c \in 1 .. d /\ ~(i <= c)
    <3>1. r.backing[j] = m.backing[j] /\ r.backing[i] = hps[i - c]
      BY <1>10, <2>1, <2>6
    <3>2. hps[i - c] # m.backing[j]
      BY <2>4, <2>6
    <3> QED
      BY <3>1, <3>2
  <2> QED
    BY <2>1, <2>2, <2>3, <2>5, <2>6
<1>13. \A i \in 1 .. Len(r.pages) :
         \E j \in 1 .. Len(r.backing) : r.pages[i] \in PagesOf(r.backing[j])
  <2> SUFFICES ASSUME NEW i \in 1 .. a + b
               PROVE  \E j \in 1 .. c + d : r.pages[i] \in PagesOf(r.backing[j])
    BY <1>8, <1>9 DEF a, b, c, d
  <2>1. CASE i <= a
    <3>1. i \in 1 .. a /\ r.pages[i] = m.pages[i]
      BY <1>8, <1>10, <2>1 DEF a
    <3>2. PICK j \in 1 .. c : m.pages[i] \in PagesOf(m.backing[j])
      BY <1>1, <3>1 DEF PagesInv, a, c
    <3>3. j \in 1 .. c + d /\ r.backing[j] = m.backing[j]
      BY <1>9, <1>10 DEF c
    <3> QED
      BY <3>1, <3>2, <3>3
  <2>2. CASE ~(i <= a)
    <3>1. i - a \in 1 .. b /\ r.pages[i] = new[i - a]
      BY <1>8, <1>10, <2>2 DEF a, b
    <3>2. PICK j \in 1 .. d : new[i - a] \in PagesOf(hps[j])
      BY <1>4, <3>1 DEF b, d
    <3>3. c + j \in 1 .. c + d /\ r.backing[c + j] = hps[j]
      BY <1>9, <1>10 DEF c, d
    <3> QED
      BY <3>1, <3>2, <3>3
  <2> QED
    BY <2>1, <2>2
<1>14. \A p \in r.inUse : \E i \in 1 .. Len(r.pages) : p = r.pages[i]
  <2> SUFFICES ASSUME NEW p \in m.inUse PROVE \E i \in 1 .. a + b : p = r.pages[i]
    <3>1. r.inUse = m.inUse
      BY <1>6
    <3>2. Len(r.pages) = a + b
      BY <1>8 DEF a, b
    <3> QED
      BY <3>1, <3>2
  <2>1. PICK i \in 1 .. a : p = m.pages[i]
    BY <1>1 DEF PagesInv, a
  <2>2. i \in 1 .. a + b /\ p = r.pages[i]
    BY <1>8, <1>10, <2>1 DEF a
  <2> QED
    BY <2>2
<1>15. PagesInv(r)
  BY <1>11, <1>12, <1>13, <1>14 DEF PagesInv
<1>16. LinkInv(r)
  BY <1>1, <1>6 DEF LinkInv, Root
<1>17. SizeInv(r)
  BY <1>1, <1>6 DEF SizeInv, Beyond, Tree, Closed
<1>18. IovaInv(r)
  BY <1>1, <1>6 DEF IovaInv
<1>19. Extends(m, r)
  BY <1>6 DEF Extends, Root
<1>20. MgrInv(r)
  BY <1>5, <1>15, <1>16, <1>17, <1>18 DEF MgrInv
<1> QED
  BY <1>6, <1>19, <1>20 DEF r

-----------------------------------------------------------------------------
(***************************************************************************)
(* malloc.                                                                  *)
(***************************************************************************)
InList(m, p) == \E i \in 1 .. Len(m.pages) : p = m.pages[i]

LEMMA FreePagesAre ==
    ASSUME NEW m \in MgrType, PagesInv(m)
    PROVE  /\ FreePages(m) \in Seq(Pages)
           /\ \A i \in 1 .. Len(FreePages(m)) :
                /\ FreePages(m)[i] \in Pages /\ FreePages(m)[i] \notin m.inUse
                /\ InList(m, FreePages(m)[i])
           /\ \A i, j \in 1 .. Len(FreePages(m)) : FreePages(m)[i] = FreePages(m)[j] => i = j
<1> DEFINE T == Range(m.pages) \ m.inUse
           s == m.pages
           f == Keep(s, T)
<1>1. s \in Seq(Pages)
  BY MgrFields
<1>2. \A i, j \in 1 .. Len(s) : s[i] = s[j] => i = j
  BY DEF PagesInv
<1>3. T \cap m.inUse = {}
  OBVIOUS
<1> HIDE DEF T
<1>4. f \in Seq(Pages \cap T)
  BY <1>1, KeepElements
<1>5. \A i \in 1 .. Len(f) : \E j \in 1 .. Len(s) : f[i] = s[j]
  BY <1>1, KeepElements
<1>6. (\A i, j \in 1 .. Len(s) : s[i] = s[j] => i = j) =>
        \A i, j \in 1 .. Len(f) : f[i] = f[j] => i = j
  <2>1. s \in Seq(Pages) => ((\A i, j \in 1 .. Len(s) : s[i] = s[j] => i = j) =>
          \A i, j \in 1 .. Len(Keep(s, T)) : Keep(s, T)[i] = Keep(s, T)[j] => i = j)
    BY KeepElements
  <2> QED
    BY <1>1, <2>1
<1>7. f = FreePages(m)
  BY DEF FreePages, T
<1> HIDE DEF f
<1>8. ASSUME NEW i \in 1 .. Len(f)
      PROVE  f[i] \in Pages /\ f[i] \notin m.inUse /\ InList(m, f[i])
  BY <1>3, <1>4, <1>5 DEF InList
<1>9. f \in Seq(Pages)
  BY <1>4
<1> QED
  BY <1>2, <1>6, <1>7, <1>8, <1>9

LEMMA AdjacentFacts ==
    ASSUME NEW m \in MgrType, NEW p \in Pages, NEW q \in Pages, Adjacent(m, p, q)
    PROVE  q >= p + 1 /\ Beyond(m, p) = p + 1 .. q - 1
<1>1. p \in Nat /\ q \in Nat /\ PageSize \in Nat \ {0}
  BY PagesAreNat, PageSizeAssumption
<1> DEFINE z == m.size[p]
<1>2. z \in Nat \ {0}
  BY MgrFields
<1>3. p * PageSize + z = q * PageSize
  BY DEF Adjacent
<1>4. Beyond(m, p) = p + 1 .. p + PagesNeeded(z) - 1
  BY DEF Beyond
<1> HIDE DEF z
<1>5. q >= p + 1
  <2> SUFFICES ASSUME q <= p PROVE FALSE
    BY <1>1
  <2>1. p - q \in Nat /\ PageSize * (p - q) \in Nat
    BY <1>1
  <2>2. p * PageSize = q * PageSize + PageSize * (p - q)
    BY <1>1
  <2>3. p * PageSize \in Nat /\ q * PageSize \in Nat
    BY <1>1
  <2> QED
    BY <1>2, <1>3, <2>1, <2>2, <2>3
<1>6. z = (q - p) * PageSize /\ q - p \in Nat \ {0}
  BY <1>1, <1>2, <1>3, <1>5
<1>7. PagesNeeded(z) = q - p
  BY <1>2, <1>6, PagesNeededFacts
<1> QED
  BY <1>1, <1>4, <1>5, <1>7

(* The pages that n pages, each adjacent to the one before, reach over.     *)
LEMMA GroupCovers ==
    ASSUME NEW m \in MgrType, NEW f \in Seq(Pages), NEW n \in Nat \ {0}, NEW i \in Nat \ {0},
           i + n - 1 <= Len(f),
           \A j \in i .. i + n - 2 : Adjacent(m, f[j], f[j + 1])
    PROVE  \A y \in f[i] + 1 .. f[i] + n - 1 :
             \/ y \in Beyond(m, f[i])
             \/ \E j \in i + 1 .. i + n - 1 : y = f[j] \/ y \in Beyond(m, f[j])
<1> DEFINE Cov == {y \in Nat : \/ y \in Beyond(m, f[i])
                               \/ \E j \in i + 1 .. i + n - 1 : y = f[j] \/ y \in Beyond(m, f[j])}
           S == {k \in Nat : k <= n - 1 => f[i + k] >= f[i] + k /\ f[i] + 1 .. f[i + k] \subseteq Cov}
           N == Len(f)
<1>0. N \in Nat /\ \A j \in 1 .. N : f[j] \in Pages
  OBVIOUS
<1>1. N \in Nat /\ \A j \in 1 .. N : f[j] \in Pages /\ f[j] \in Nat
  <2> HIDE DEF N
  <2> QED BY <1>0, PagesAreNat
<1>2. i + n - 1 <= N
  OBVIOUS
<1> HIDE DEF N
<1>3. \A k \in Nat : k <= n - 1 => i + k \in 1 .. N
  BY <1>1, <1>2
<1>4. f[i] \in Nat
  BY <1>1, <1>2
<1>5. 0 \in S
  BY <1>4
<1>6. ASSUME NEW k \in Nat, k \in S PROVE k + 1 \in S
  <2> SUFFICES ASSUME k + 1 <= n - 1
               PROVE  f[i + (k + 1)] >= f[i] + (k + 1) /\ f[i] + 1 .. f[i + (k + 1)] \subseteq Cov
    OBVIOUS
  <2> DEFINE p == f[i + k]
             q == f[i + k + 1]
  <2>1. k <= n - 1 /\ i + k \in 1 .. N /\ i + k + 1 \in 1 .. N /\ i + k \in i .. i + n - 2
        /\ i + k + 1 \in i + 1 .. i + n - 1 /\ i + (k + 1) = i + k + 1
    BY <1>1, <1>2
  <2>2. p \in Pages /\ q \in Pages /\ p \in Nat /\ q \in Nat
    BY <1>1, <2>1
  <2>3. Adjacent(m, p, q)
    BY <2>1
  <2>4. q >= p + 1 /\ Beyond(m, p) = p + 1 .. q - 1
    BY <2>2, <2>3, AdjacentFacts
  <2>5. Beyond(m, p) \subseteq Cov
    <3>1. Beyond(m, p) \subseteq Nat
      BY <2>2, <2>4
    <3>2. CASE k = 0
      BY <3>1, <3>2
    <3>3. CASE k # 0
      <4>1. i + k \in i + 1 .. i + n - 1
        BY <2>1, <3>3
      <4> QED
        BY <3>1, <4>1
    <3> QED
      BY <3>2, <3>3
  <2>6. q \in Cov
    BY <2>1, <2>2
  <2>7. p >= f[i] + k /\ f[i] + 1 .. p \subseteq Cov
    BY <1>6, <2>1
  <2>8. f[i + (k + 1)] = q
    BY <2>1
  <2> HIDE DEF p, q, Cov
  <2>9. q >= f[i] + (k + 1)
    BY <1>4, <2>2, <2>4, <2>7
  <2>10. ASSUME NEW y \in f[i] + 1 .. q PROVE y \in Cov
    <3>1. y \in f[i] + 1 .. p \/ y \in p + 1 .. q - 1 \/ y = q
      BY <1>4, <2>2, <2>10
    <3> QED
      BY <2>4, <2>5, <2>6, <2>7, <3>1
  <2> QED
    BY <2>8, <2>9, <2>10
<1> HIDE DEF S
<1>7. Nat \subseteq S
  BY <1>5, <1>6, SetInduction
<1>8. n - 1 \in S /\ n - 1 \in Nat
  BY <1>7
<1> USE DEF S
<1>9. f[i + (n - 1)] >= f[i] + (n - 1) /\ f[i] + 1 .. f[i + (n - 1)] \subseteq Cov
  BY <1>8
<1> HIDE DEF S
<1>10. i + (n - 1) \in 1 .. N
  BY <1>1, <1>2
<1>11. f[i + (n - 1)] \in Nat
  BY <1>1, <1>10
<1> HIDE DEF Cov
<1>12. f[i] + 1 .. f[i] + n - 1 \subseteq Cov
  BY <1>4, <1>9, <1>11
<1> QED
  BY <1>12 DEF Cov

(* The group is linked; its first page is still free.                       *)
LEMMA GroupedKeeps ==
    ASSUME NEW m, MgrInv(m), NEW first \in Pages, NEW rest \in SUBSET Pages,
           NEW size \in Nat \ {0},
           first \notin m.inUse, rest \cap m.inUse = {}, first \notin rest,
           \A p \in rest : InList(m, p),
           \A y \in first + 1 .. first + PagesNeeded(size) - 1 :
             \/ y \in Beyond(m, first)
             \/ \E q \in rest : y = q \/ y \in Beyond(m, q)
    PROVE  LET r == Grouped(m, first, rest, size)
           IN  /\ MgrInv(r) /\ Extends(m, r)
               /\ first \notin r.inUse /\ r.size[first] = size
               /\ r.mapped = m.mapped /\ r.listed = m.listed /\ r.dirty = m.dirty
               /\ r.freeIovas = m.freeIovas /\ r.pages = m.pages
               /\ m.inUse \subseteq r.inUse
<1> DEFINE r == Grouped(m, first, rest, size)
<1>1. m \in MgrType /\ PagesInv(m) /\ LinkInv(m) /\ SizeInv(m) /\ IovaInv(m)
  BY DEF MgrInv
<1>2. /\ m.linked \in [Pages -> SUBSET Pages] /\ m.size \in [Pages -> Nat \ {0}]
      /\ m.inUse \in SUBSET Pages
  BY <1>1, MgrFields
<1>3. r \in MgrType
  BY <1>1, <1>2 DEF MgrType, Grouped
<1>4. /\ r.pages = m.pages /\ r.backing = m.backing /\ r.mapped = m.mapped
      /\ r.dirty = m.dirty /\ r.listed = m.listed /\ r.iova = m.iova /\ r.dir = m.dir
      /\ r.freeIovas = m.freeIovas /\ r.inUse = m.inUse \union rest
      /\ r.linked = [m.linked EXCEPT ![first] = @ \union rest]
      /\ r.size = [m.size EXCEPT ![first] = size]
  BY <1>1 DEF MgrType, Grouped
<1>5. /\ \A p \in Pages : p # first => r.linked[p] = m.linked[p] /\ r.size[p] = m.size[p]
      /\ r.linked[first] = m.linked[first] \union rest /\ r.size[first] = size
  BY <1>2, <1>4
<1> HIDE DEF r
<1>6. PagesInv(r)
  BY <1>1, <1>4 DEF PagesInv, InList
<1>7. \A p \in Pages : m.linked[p] \subseteq r.linked[p]
  BY <1>5
<1>8. ASSUME NEW p \in Pages, Root(m, p), p \notin rest PROVE Root(r, p)
  BY <1>5, <1>8 DEF Root
<1>9. LinkInv(r)
  <2>1. \A p \in Pages : r.linked[p] \subseteq r.inUse
    BY <1>1, <1>4, <1>5 DEF LinkInv
  <2>2. ASSUME NEW p \in Pages, NEW q \in Pages, p # q PROVE r.linked[p] \cap r.linked[q] = {}
    <3>1. m.linked[p] \cap m.linked[q] = {} /\ m.linked[p] \cap rest = {} /\ m.linked[q] \cap rest = {}
      BY <1>1, <2>2 DEF LinkInv
    <3> QED
      BY <1>5, <2>2, <3>1
  <2>3. ASSUME NEW p \in Pages, p \notin r.inUse \/ p \in r.listed PROVE Root(r, p)
    <3>1. Root(m, p)
      BY <1>1, <1>4, <2>3 DEF LinkInv
    <3>2. p \notin rest
      BY <1>1, <1>4, <2>3 DEF IovaInv
    <3> QED
      BY <1>8, <3>1, <3>2
  <2> QED
    BY <2>1, <2>2, <2>3 DEF LinkInv
<1>10. SizeInv(r)
  <2> SUFFICES ASSUME NEW p \in Pages PROVE Beyond(r, p) \subseteq Tree(r, p)
    BY DEF SizeInv
  <2>1. CASE p # first
    <3>1. Beyond(r, p) = Beyond(m, p)
      BY <1>5, <2>1 DEF Beyond
    <3>2. Tree(m, p) \subseteq Tree(r, p)
      BY <1>1, <1>3, <1>7, TreesGrow
    <3> QED
      BY <1>1, <3>1, <3>2 DEF SizeInv
  <2>2. CASE p = first
    <3>1. Beyond(r, first) = first + 1 .. first + PagesNeeded(size) - 1
      BY <1>5 DEF Beyond
    <3>2. first \in Tree(r, first) /\ r.linked[first] \subseteq Tree(r, first)
          /\ Closed(r, Tree(r, first)) /\ Tree(r, first) \subseteq Pages
      BY <1>3, TreeFacts
    <3> DEFINE W == Tree(r, first)
    <3>3. W \in SUBSET Pages /\ rest \subseteq W /\ first \in W /\ Closed(m, W)
      BY <1>5, <1>7, <3>2 DEF Closed
    <3> HIDE DEF W
    <3>4. ASSUME NEW q \in Pages, q \in W PROVE Tree(m, q) \subseteq W
      BY <3>3, <3>4 DEF Tree
    <3>5. ASSUME NEW q \in Pages, q \in W PROVE Beyond(m, q) \subseteq W
      BY <1>1, <3>4, <3>5 DEF SizeInv
    <3>6. ASSUME NEW y \in Beyond(r, first) PROVE y \in W
      BY <3>1, <3>3, <3>5, <3>6
    <3> QED
      BY <2>2, <3>6 DEF W
  <2> QED
    BY <2>1, <2>2
<1>11. IovaInv(r)
  BY <1>1, <1>4 DEF IovaInv
<1>12. Extends(m, r)
  <2> SUFFICES ASSUME NEW p \in m.inUse
               PROVE  r.size[p] = m.size[p] /\ (Root(m, p) => Root(r, p))
    BY <1>4 DEF Extends
  <2>1. p \in Pages /\ p # first /\ p \notin rest
    BY <1>2
  <2> QED
    BY <1>5, <1>8, <2>1
<1>13. MgrInv(r)
  BY <1>3, <1>6, <1>9, <1>10, <1>11 DEF MgrInv
<1>14. first \notin r.inUse /\ m.inUse \subseteq r.inUse
  BY <1>4
<1> QED
  BY <1>4, <1>5, <1>12, <1>13, <1>14 DEF r

(* The IOVA and the entry in malloc_mem.                                    *)
LEMMA EnteredKeeps ==
    ASSUME NEW m, MgrInv(m), NEW first \in Pages, first \notin m.inUse, InList(m, first),
           NEW iova \in m.freeIovas
    PROVE  LET r == Entered(m, first, iova)
           IN  /\ MgrInv(r) /\ Extends(m, r)
               /\ r.mapped = m.mapped /\ r.dirty = m.dirty /\ r.size = m.size
               /\ r.listed = m.listed \union {first} /\ r.inUse = m.inUse \union {first}
<1> DEFINE r == Entered(m, first, iova)
<1>1. m \in MgrType /\ PagesInv(m) /\ LinkInv(m) /\ SizeInv(m) /\ IovaInv(m)
  BY DEF MgrInv
<1>2. /\ m.iova \in [Pages -> Iovas \union {NoIova}] /\ m.freeIovas \in SUBSET Iovas
      /\ m.inUse \in SUBSET Pages /\ m.listed \in SUBSET Pages
  BY <1>1, MgrFields
<1>3. r \in MgrType
  BY <1>1, <1>2 DEF MgrType, Entered
<1>4. /\ r.pages = m.pages /\ r.backing = m.backing /\ r.mapped = m.mapped
      /\ r.dirty = m.dirty /\ r.dir = m.dir /\ r.linked = m.linked /\ r.size = m.size
      /\ r.listed = m.listed \union {first} /\ r.inUse = m.inUse \union {first}
      /\ r.iova = [m.iova EXCEPT ![first] = iova] /\ r.freeIovas = m.freeIovas \ {iova}
  BY <1>1 DEF MgrType, Entered
<1>5. r.iova[first] = iova /\ \A p \in Pages : p # first => r.iova[p] = m.iova[p]
  BY <1>2, <1>4
<1> HIDE DEF r
<1>6. PagesInv(r)
  BY <1>1, <1>4 DEF PagesInv, InList
<1>7. LinkInv(r)
  BY <1>1, <1>4 DEF LinkInv, Root
<1>8. SizeInv(r)
  BY <1>1, <1>4 DEF SizeInv, Beyond, Tree, Closed
<1>9. IovaInv(r)
  <2>1. first \notin m.listed
    BY <1>1 DEF IovaInv
  <2>2. r.mapped \subseteq r.listed /\ r.listed \subseteq r.inUse
    BY <1>1, <1>4 DEF IovaInv
  <2>3. ASSUME NEW a \in r.listed PROVE r.iova[a] \in Iovas /\ r.iova[a] \notin r.freeIovas
    BY <1>1, <1>2, <1>4, <1>5 DEF IovaInv
  <2>4. ASSUME NEW a \in r.listed, NEW b \in r.listed, r.iova[a] = r.iova[b] PROVE a = b
    BY <1>1, <1>2, <1>4, <1>5, <2>4 DEF IovaInv
  <2> QED
    BY <2>2, <2>3, <2>4 DEF IovaInv
<1>10. Extends(m, r)
  BY <1>2, <1>4, <1>5 DEF Extends, Root
<1>11. MgrInv(r)
  BY <1>3, <1>6, <1>7, <1>8, <1>9 DEF MgrInv
<1> QED
  BY <1>4, <1>10, <1>11 DEF r

(* The mapping, of an area that is not mapped.                              *)
LEMMA MappedKeeps ==
    ASSUME NEW m, MgrInv(m), NEW first \in Pages, first \in m.listed, first \notin m.mapped,
           NEW dir \in Directions
    PROVE  LET r == Mapped(m, first, dir)
           IN  /\ MgrInv(r) /\ r.inUse = m.inUse /\ r.listed = m.listed /\ r.size = m.size
               /\ r.mapped = m.mapped \union {first} /\ r.iova = m.iova /\ r.linked = m.linked
               /\ r.dirty = m.dirty \union Touched(first, m.size[first])
               /\ r.dir = [m.dir EXCEPT ![first] = dir]
<1> DEFINE r == Mapped(m, first, dir)
<1>1. m \in MgrType /\ PagesInv(m) /\ LinkInv(m) /\ SizeInv(m) /\ IovaInv(m)
  BY DEF MgrInv
<1>2. /\ m.dir \in [Pages -> Directions \union {"none"}] /\ m.mapped \in SUBSET Pages
      /\ m.size \in [Pages -> Nat \ {0}] /\ m.dirty \in SUBSET Nat
  BY <1>1, MgrFields
<1>3. first \in Nat /\ PageSize \in Nat \ {0}
  BY PagesAreNat, PageSizeAssumption
<1> DEFINE touched == Touched(first, m.size[first])
<1>4. touched \in SUBSET Nat
  BY <1>3 DEF Touched
<1> HIDE DEF touched
<1>5. r \in MgrType
  BY <1>1, <1>2, <1>4 DEF MgrType, Mapped, touched
<1>6. /\ r.pages = m.pages /\ r.backing = m.backing /\ r.mapped = m.mapped \union {first}
      /\ r.linked = m.linked /\ r.size = m.size /\ r.listed = m.listed /\ r.inUse = m.inUse
      /\ r.iova = m.iova /\ r.freeIovas = m.freeIovas
      /\ r.dirty = m.dirty \union touched /\ r.dir = [m.dir EXCEPT ![first] = dir]
  BY <1>1 DEF MgrType, Mapped, touched
<1> HIDE DEF r
<1>7. PagesInv(r)
  BY <1>1, <1>6 DEF PagesInv
<1>8. LinkInv(r)
  BY <1>1, <1>6 DEF LinkInv, Root
<1>9. SizeInv(r)
  BY <1>1, <1>6 DEF SizeInv, Beyond, Tree, Closed
<1>10. IovaInv(r)
  BY <1>1, <1>6 DEF IovaInv
<1>11. MgrInv(r)
  BY <1>5, <1>7, <1>8, <1>9, <1>10 DEF MgrInv
<1> QED
  BY <1>6, <1>11 DEF r, touched

(* What a caller of malloc may rely on: a page nobody had becomes an area,  *)
(* or the call raised; in both cases nothing else has changed hands.        *)
MallocResult(m, r, size, dir) ==
    /\ MgrInv(r.mgr) /\ Extends(m, r.mgr)
    /\ \/ r.mem = NoMem /\ r.mgr.mapped = m.mapped /\ r.mgr.dirty = m.dirty
       \/ /\ r.mem \in Pages /\ r.mem \notin m.inUse /\ dir \in Directions
          /\ r.mgr.mapped = m.mapped \union {r.mem}
          /\ r.mgr.dirty = m.dirty \union Touched(r.mem, size)
          /\ r.mgr.size[r.mem] = size /\ r.mgr.dir[r.mem] = dir

LEMMA RaisedResult ==
    ASSUME NEW m, NEW g, MgrInv(g), Extends(m, g), g.mapped = m.mapped, g.dirty = m.dirty,
           NEW size, NEW dir
    PROVE  MallocResult(m, Raised(g), size, dir)
<1>1. Raised(g).mgr = g /\ Raised(g).mem = NoMem
  BY DEF Raised
<1> QED
  BY <1>1 DEF MallocResult

LEMMA GroupIs ==
    ASSUME NEW f \in Seq(Pages), NEW n \in Nat \ {0}, NEW i \in Nat \ {0}, i + n - 1 <= Len(f)
    PROVE  LET group == SubSeq(f, i, i + n - 1)
           IN  /\ Head(group) = f[i]
               /\ \A q \in Range(Tail(group)) : \E j \in i + 1 .. i + n - 1 : q = f[j]
               /\ \A j \in i + 1 .. i + n - 1 : f[j] \in Range(Tail(group))
<1> DEFINE group == SubSeq(f, i, i + n - 1)
           rest == Tail(group)
<1>1. group \in Seq(Pages) /\ Len(group) = n /\ \A k \in 1 .. n : group[k] = f[i + k - 1]
  OBVIOUS
<1> HIDE DEF group
<1>2. group # <<>> /\ Head(group) = f[i]
  BY <1>1
<1>3. rest \in Seq(Pages) /\ Len(rest) = n - 1 /\ \A k \in 1 .. n - 1 : rest[k] = group[k + 1]
  BY <1>1, <1>2
<1> HIDE DEF rest
<1>4. Range(rest) = {rest[k] : k \in 1 .. n - 1}
  BY <1>3 DEF Range
<1>5. \A k \in 1 .. n - 1 : rest[k] = f[i + k]
  BY <1>1, <1>3
<1>6. ASSUME NEW q \in Range(rest) PROVE \E j \in i + 1 .. i + n - 1 : q = f[j]
  <2>1. PICK k \in 1 .. n - 1 : q = f[i + k]
    BY <1>4, <1>5
  <2>2. i + k \in i + 1 .. i + n - 1
    OBVIOUS
  <2> QED
    BY <2>1, <2>2
<1>7. ASSUME NEW j \in i + 1 .. i + n - 1 PROVE f[j] \in Range(rest)
  <2>1. j - i \in 1 .. n - 1 /\ i + (j - i) = j
    OBVIOUS
  <2> QED
    BY <1>4, <1>5, <2>1
<1> QED
  BY <1>2, <1>6, <1>7 DEF group, rest

LEMMA AllottedResult ==
    ASSUME NEW m, MgrInv(m), NEW size \in Nat \ {0}, NEW dir, NEW r \in Allotted(m, size, dir)
    PROVE  MallocResult(m, r, size, dir)
<1> DEFINE n == PagesNeeded(size)
           groups == Groups(m, n)
           f == FreePages(m)
           i == Min(groups)
           group == SubSeq(f, i, i + n - 1)
           first == Head(group)
           rest == Range(Tail(group))
           taken == Grouped(m, first, rest, size)
<1>1. m \in MgrType /\ PagesInv(m) /\ LinkInv(m) /\ SizeInv(m) /\ IovaInv(m)
  BY DEF MgrInv
<1>2. Extends(m, m)
  BY DEF Extends
<1>3. CASE groups = {}
  <2>1. r = Raised(m)
    BY <1>3 DEF Allotted
  <2> QED
    BY <1>2, <2>1, RaisedResult
<1>4. CASE groups # {}
  <2>1. n \in Nat \ {0}
    BY PagesNeededFacts
  <2>2. /\ f \in Seq(Pages)
        /\ \A j \in 1 .. Len(f) : f[j] \in Pages /\ f[j] \notin m.inUse /\ InList(m, f[j])
        /\ \A j, k \in 1 .. Len(f) : f[j] = f[k] => j = k
    BY <1>1, FreePagesAre
  <2> HIDE DEF n
  <2>3. groups = {j \in 1 .. Len(f) - n + 1 :
                    \A k \in j .. j + n - 2 : Adjacent(m, f[k], f[k + 1])}
    BY DEF Groups
  <2> HIDE DEF f, groups
  <2>4. groups \subseteq Nat /\ i \in groups
    <3>1. groups \subseteq Nat
      BY <2>1, <2>2, <2>3
    <3> QED
      BY <1>4, <3>1, MinIsOne
  <2> HIDE DEF i
  <2>5. /\ i \in Nat \ {0} /\ i + n - 1 <= Len(f) /\ i \in 1 .. Len(f)
        /\ \A k \in i .. i + n - 2 : Adjacent(m, f[k], f[k + 1])
    BY <2>1, <2>2, <2>3, <2>4
  <2>6. /\ first = f[i] /\ \A q \in rest : \E j \in i + 1 .. i + n - 1 : q = f[j]
        /\ \A j \in i + 1 .. i + n - 1 : f[j] \in rest
    <3>1. f \in Seq(Pages) /\ n \in Nat \ {0} /\ i \in Nat \ {0} /\ i + n - 1 <= Len(f)
      BY <2>1, <2>2, <2>5
    <3> QED
      BY ONLY <3>1, GroupIs
  <2>7. \A y \in f[i] + 1 .. f[i] + n - 1 :
          \/ y \in Beyond(m, f[i])
          \/ \E j \in i + 1 .. i + n - 1 : y = f[j] \/ y \in Beyond(m, f[j])
    BY <1>1, <2>1, <2>2, <2>5, GroupCovers
  <2> HIDE DEF group
  <2>8. taken = Grouped(m, first, rest, size)
    OBVIOUS
  <2> HIDE DEF first, rest, taken
  <2>9. first \in Pages /\ first \notin m.inUse /\ InList(m, first)
    BY <2>2, <2>5, <2>6
  <2>10. ASSUME NEW q \in rest
         PROVE  q \in Pages /\ q \notin m.inUse /\ InList(m, q) /\ q # first
    <3>1. PICK j \in i + 1 .. i + n - 1 : q = f[j]
      BY <2>6
    <3>2. j \in 1 .. Len(f) /\ j # i
      BY <2>1, <2>2, <2>5
    <3> QED
      BY <2>2, <2>5, <2>6, <3>1, <3>2
  <2>11. \A y \in first + 1 .. first + PagesNeeded(size) - 1 :
           \/ y \in Beyond(m, first)
           \/ \E q \in rest : y = q \/ y \in Beyond(m, q)
    BY <2>6, <2>7 DEF n
  <2>12. /\ rest \in SUBSET Pages /\ rest \cap m.inUse = {} /\ first \notin rest
         /\ \A p \in rest : InList(m, p)
    BY <2>10
  <2>13. /\ MgrInv(taken) /\ Extends(m, taken)
         /\ first \notin taken.inUse /\ taken.size[first] = size
         /\ taken.mapped = m.mapped /\ taken.listed = m.listed /\ taken.dirty = m.dirty
         /\ taken.freeIovas = m.freeIovas /\ taken.pages = m.pages
    BY <2>8, <2>9, <2>11, <2>12, GroupedKeeps
  <2>14. InList(taken, first)
    BY <2>9, <2>13 DEF InList
  <2>15. first \notin taken.listed /\ first \notin taken.mapped
    BY <1>1, <2>9, <2>13 DEF IovaInv
  <2>16. CASE r = Raised(taken)
    BY <2>13, <2>16, RaisedResult
  <2>17. ASSUME NEW iova \in m.freeIovas, r = Raised(Entered(taken, first, iova))
         PROVE  MallocResult(m, r, size, dir)
    <3> DEFINE e == Entered(taken, first, iova)
    <3>1. MgrInv(e) /\ Extends(taken, e) /\ e.mapped = taken.mapped /\ e.dirty = taken.dirty
      BY <2>9, <2>13, <2>14, EnteredKeeps
    <3> HIDE DEF e
    <3>2. Extends(m, e)
      BY <2>13, <3>1, ExtendsTwice
    <3>3. MallocResult(m, Raised(e), size, dir)
      BY <2>13, <3>1, <3>2, RaisedResult
    <3> QED
      BY <2>17, <3>3 DEF e
  <2>18. ASSUME NEW iova \in m.freeIovas, dir \in Directions,
                r = [mgr |-> Mapped(Entered(taken, first, iova), first, dir), mem |-> first]
         PROVE  MallocResult(m, r, size, dir)
    <3> DEFINE e == Entered(taken, first, iova)
               d == Mapped(e, first, dir)
    <3>1. /\ MgrInv(e) /\ Extends(taken, e) /\ e.mapped = taken.mapped /\ e.dirty = taken.dirty
          /\ e.size = taken.size /\ e.listed = taken.listed \union {first}
          /\ e.inUse = taken.inUse \union {first}
      BY <2>9, <2>13, <2>14, EnteredKeeps
    <3> HIDE DEF e
    <3>2. /\ MgrInv(d) /\ d.inUse = e.inUse /\ d.listed = e.listed /\ d.size = e.size
          /\ d.mapped = e.mapped \union {first} /\ d.iova = e.iova /\ d.linked = e.linked
          /\ d.dirty = e.dirty \union Touched(first, e.size[first])
          /\ d.dir = [e.dir EXCEPT ![first] = dir]
      BY <2>9, <2>15, <2>18, <3>1, MappedKeeps
    <3> HIDE DEF d
    <3>3. e.dir \in [Pages -> Directions \union {"none"}]
      BY <3>1, MgrFields DEF MgrInv
    <3>4. d.dir[first] = dir /\ \A p \in Pages : p # first => d.dir[p] = e.dir[p]
      BY <2>9, <3>2, <3>3
    <3>5. taken.inUse \subseteq Pages
      BY <2>13, MgrFields DEF MgrInv
    <3>6. Extends(taken, d)
      BY <2>13, <3>1, <3>2, <3>4, <3>5 DEF Extends, Root
    <3>7. Extends(m, d)
      BY <2>13, <3>6, ExtendsTwice
    <3>8. r.mgr = d /\ r.mem = first
      BY <2>18 DEF d, e
    <3>9. MgrInv(d) /\ first \in Pages /\ first \notin m.inUse /\ dir \in Directions
      BY <2>9, <2>18, <3>2
    <3>10. d.mapped = m.mapped \union {first} /\ d.size[first] = size
      BY <2>13, <3>1, <3>2
    <3>11. d.dirty = m.dirty \union Touched(first, size)
      BY <2>13, <3>1, <3>2
    <3> QED
      BY <3>4, <3>7, <3>8, <3>9, <3>10, <3>11 DEF MallocResult
  <2>19. \/ r = Raised(taken)
         \/ \E iova \in m.freeIovas : r = Raised(Entered(taken, first, iova))
         \/ /\ dir \in Directions
            /\ \E iova \in m.freeIovas :
                 r = [mgr |-> Mapped(Entered(taken, first, iova), first, dir), mem |-> first]
    <3> USE DEF taken, first, rest, group, i, groups, f, n
    <3>1. CASE size > MaxMapping \/ m.freeIovas = {}
      BY <1>4, <3>1 DEF Allotted
    <3>2. CASE ~(size > MaxMapping \/ m.freeIovas = {}) /\ dir \notin Directions
      BY <1>4, <3>2 DEF Allotted
    <3>3. CASE ~(size > MaxMapping \/ m.freeIovas = {}) /\ dir \in Directions
      BY <1>4, <3>3 DEF Allotted
    <3> QED
      BY <3>1, <3>2, <3>3
  <2> QED
    BY <2>16, <2>17, <2>18, <2>19
<1> QED
  BY <1>3, <1>4

LEMMA FreePagesNumber ==
    ASSUME NEW m, MgrInv(m), NEW needed \in Nat
    PROVE  HugePagesFor(m, needed) \in Nat /\ HugePagesForPages(m, needed) \in Nat
<1> DEFINE free == Len(FreePages(m))
<1>1. FreePages(m) \in Seq(Pages)
  BY FreePagesAre DEF MgrInv
<1>2. free \in Nat /\ PagesPerHp \in Nat \ {0}
  BY <1>1, PageSizeAssumption
<1> HIDE DEF free
<1>3. CASE needed > free
  <2> DEFINE d == needed - free
             k == d \div PagesPerHp
  <2>1. d \in Nat
    BY <1>2, <1>3
  <2> HIDE DEF d
  <2>2. k \in Nat /\ (d + PagesPerHp - 1) \div PagesPerHp \in Nat
    BY <1>2, <2>1
  <2> HIDE DEF k
  <2>3. Max({1, k}) \in Nat
    <3>1. 1 \in Int /\ k \in Int
      BY <2>2
    <3>2. Max({1, k}) \in {1, k}
      BY <3>1, MaxPair
    <3> QED
      BY <2>2, <3>2
  <2> QED
    BY <1>3, <2>2, <2>3 DEF HugePagesFor, HugePagesForPages, free, d, k
<1>4. CASE ~(needed > free)
  BY <1>4 DEF HugePagesFor, HugePagesForPages, free
<1> QED
  BY <1>3, <1>4

LEMMA MallocKeeps ==
    ASSUME NEW m, MgrInv(m), NEW size \in Nat, NEW dir, NEW r \in Malloc(m, size, dir)
    PROVE  MallocResult(m, r, WholeSize(size), dir)
<1> DEFINE whole == WholeSize(size)
           needed == HugePagesFor(m, PagesNeeded(whole))
<1>1. whole \in Nat \ {0}
  BY PageSizeAssumption, MaxPair DEF WholeSize
<1> HIDE DEF whole
<1>2. PagesNeeded(whole) \in Nat
  BY <1>1, PagesNeededFacts
<1>3. needed \in Nat
  BY <1>2, FreePagesNumber
<1>4. \E hps \in Answers(m, needed) :
        \/ r = Raised(WithHugePages(m, hps))
        \/ r \in Allotted(WithHugePages(m, hps), whole, dir)
  BY DEF Malloc, whole
<1> HIDE DEF needed
<1>5. PICK hps \in Answers(m, needed) :
        \/ r = Raised(WithHugePages(m, hps))
        \/ r \in Allotted(WithHugePages(m, hps), whole, dir)
  BY <1>4
<1> DEFINE g == WithHugePages(m, hps)
<1>6. /\ MgrInv(g) /\ Extends(m, g) /\ g.inUse = m.inUse /\ g.mapped = m.mapped
      /\ g.dirty = m.dirty
  BY <1>3, WithHugePagesKeeps
<1>7. r = Raised(g) \/ r \in Allotted(g, whole, dir)
  BY <1>5
<1> HIDE DEF g
<1>8. CASE r = Raised(g)
  BY <1>6, <1>8, RaisedResult DEF whole
<1>9. CASE r \in Allotted(g, whole, dir)
  <2>1. MallocResult(g, r, whole, dir)
    BY <1>1, <1>6, <1>9, AllottedResult
  <2>2. Extends(m, r.mgr)
    BY <1>6, <2>1, ExtendsTwice DEF MallocResult
  <2> QED
    BY <1>6, <2>1, <2>2 DEF MallocResult, whole
<1> QED
  BY <1>7, <1>8, <1>9

(* malloc_pages hands out free pages, which are not linked to.              *)
TakenPages(m, taken) == [m EXCEPT !.inUse = @ \union taken, !.dirty = @ \union taken]

PagesResult(m, r) ==
    /\ MgrInv(r.mgr) /\ Extends(m, r.mgr) /\ r.mgr.mapped = m.mapped
    /\ r.taken \in SUBSET Pages /\ r.taken \cap m.inUse = {} /\ r.taken \subseteq r.mgr.inUse
    /\ \A p \in r.taken : p \notin r.mgr.listed /\ Root(r.mgr, p)
    /\ r.mgr.dirty = m.dirty \union r.taken

LEMMA TakenPagesKeep ==
    ASSUME NEW m, MgrInv(m), NEW taken \in SUBSET Pages, taken \cap m.inUse = {},
           \A p \in taken : InList(m, p)
    PROVE  PagesResult(m, [mgr |-> TakenPages(m, taken), taken |-> taken])
<1> DEFINE r == TakenPages(m, taken)
<1>1. m \in MgrType /\ PagesInv(m) /\ LinkInv(m) /\ SizeInv(m) /\ IovaInv(m)
  BY DEF MgrInv
<1>2. m.inUse \in SUBSET Pages /\ m.dirty \in SUBSET Nat /\ taken \in SUBSET Nat
  BY <1>1, MgrFields, PagesAreNat
<1>3. r \in MgrType
  BY <1>1, <1>2 DEF MgrType, TakenPages
<1>4. /\ r.pages = m.pages /\ r.backing = m.backing /\ r.mapped = m.mapped
      /\ r.linked = m.linked /\ r.size = m.size /\ r.listed = m.listed
      /\ r.inUse = m.inUse \union taken /\ r.dirty = m.dirty \union taken
      /\ r.iova = m.iova /\ r.freeIovas = m.freeIovas /\ r.dir = m.dir
  BY <1>1 DEF MgrType, TakenPages
<1> HIDE DEF r
<1>5. PagesInv(r)
  BY <1>1, <1>4 DEF PagesInv, InList
<1>6. LinkInv(r)
  BY <1>1, <1>4 DEF LinkInv, Root
<1>7. SizeInv(r)
  BY <1>1, <1>4 DEF SizeInv, Beyond, Tree, Closed
<1>8. IovaInv(r)
  BY <1>1, <1>4 DEF IovaInv
<1>9. Extends(m, r)
  BY <1>4 DEF Extends, Root
<1>10. MgrInv(r)
  BY <1>3, <1>5, <1>6, <1>7, <1>8 DEF MgrInv
<1>11. \A p \in taken : p \notin r.listed /\ Root(r, p)
  BY <1>1, <1>4 DEF LinkInv, IovaInv, Root
<1> QED
  BY <1>4, <1>9, <1>10, <1>11 DEF PagesResult, r

LEMMA MallocPagesKeeps ==
    ASSUME NEW m, MgrInv(m), NEW n \in Nat, NEW r \in MallocPages(m, n)
    PROVE  PagesResult(m, r)
<1> DEFINE needed == HugePagesForPages(m, n)
           Took(g) == {FreePages(g)[i] : i \in (1 .. n) \cap DOMAIN FreePages(g)}
<1>1. needed \in Nat
  BY FreePagesNumber
<1>2. \E hps \in Answers(m, needed) :
        \/ r = [mgr |-> WithHugePages(m, hps), taken |-> {}]
        \/ r = [mgr |-> TakenPages(WithHugePages(m, hps), Took(WithHugePages(m, hps))),
                taken |-> Took(WithHugePages(m, hps))]
  BY DEF MallocPages, TakenPages
<1> HIDE DEF needed
<1>3. PICK hps \in Answers(m, needed) :
        \/ r = [mgr |-> WithHugePages(m, hps), taken |-> {}]
        \/ r = [mgr |-> TakenPages(WithHugePages(m, hps), Took(WithHugePages(m, hps))),
                taken |-> Took(WithHugePages(m, hps))]
  BY <1>2
<1> DEFINE g == WithHugePages(m, hps)
           taken == Took(g)
<1>4. /\ MgrInv(g) /\ Extends(m, g) /\ g.inUse = m.inUse /\ g.mapped = m.mapped
      /\ g.dirty = m.dirty
  BY <1>1, WithHugePagesKeeps
<1>5. \/ r = [mgr |-> g, taken |-> {}]
      \/ r = [mgr |-> TakenPages(g, taken), taken |-> taken]
  BY <1>3
<1> HIDE DEF g
<1>6. CASE r = [mgr |-> g, taken |-> {}]
  BY <1>4, <1>6 DEF PagesResult
<1>7. CASE r = [mgr |-> TakenPages(g, taken), taken |-> taken]
  <2>1. /\ FreePages(g) \in Seq(Pages)
        /\ \A i \in 1 .. Len(FreePages(g)) :
             /\ FreePages(g)[i] \in Pages /\ FreePages(g)[i] \notin g.inUse
             /\ InList(g, FreePages(g)[i])
    BY <1>4, FreePagesAre DEF MgrInv
  <2>2. \A p \in taken : p \in Pages /\ p \notin g.inUse /\ InList(g, p)
    BY <2>1
  <2> HIDE DEF taken
  <2>3. PagesResult(g, r)
    BY <1>4, <1>7, <2>2, TakenPagesKeep
  <2>4. Extends(m, r.mgr)
    BY <1>4, <2>3, ExtendsTwice DEF PagesResult
  <2> QED
    BY <1>4, <2>3, <2>4 DEF PagesResult
<1> QED
  BY <1>5, <1>6, <1>7

-----------------------------------------------------------------------------
(***************************************************************************)
(* free and free_all.                                                       *)
(***************************************************************************)
(* Areas are freed, with what is linked to them, and nobody else's.         *)
FreeResult(m, r, as) ==
    /\ MgrInv(r) /\ r.mapped = m.mapped \ as /\ r.dirty = m.dirty \ as
    /\ \A a \in m.mapped \ as : r.iova[a] = m.iova[a] /\ r.dir[a] = m.dir[a] /\ r.size[a] = m.size[a]
    /\ \A given : LentInv(m, given) => LentInv(r, given)
    /\ \A p \in m.inUse \ r.inUse : \E a \in as : p \in Own(m, a)

OwnOf(m, as) == UNION {Own(m, a) : a \in as}

LEMMA OwnOfIs ==
    ASSUME NEW m, NEW as, NEW p
    PROVE  p \in OwnOf(m, as) <=> p \in as \/ \E a \in as : p \in m.linked[a]
<1>1. ASSUME p \in OwnOf(m, as) PROVE p \in as \/ \E a \in as : p \in m.linked[a]
  <2>1. PICK a \in as : p \in Own(m, a)
    BY <1>1 DEF OwnOf
  <2> QED
    BY <2>1 DEF Own
<1>2. ASSUME p \in as PROVE p \in OwnOf(m, as)
  <2>1. p \in Own(m, p)
    BY DEF Own
  <2> QED
    BY <1>2, <2>1 DEF OwnOf
<1>3. ASSUME NEW a \in as, p \in m.linked[a] PROVE p \in OwnOf(m, as)
  <2>1. p \in Own(m, a)
    BY <1>3 DEF Own
  <2> QED
    BY <2>1 DEF OwnOf
<1> QED
  BY <1>1, <1>2, <1>3

(* The fields after areas have been freed that own the pages own.           *)
Freed(m, r, as, own) ==
    /\ r \in MgrType
    /\ r.pages = m.pages /\ r.backing = m.backing /\ r.inUse = m.inUse \ own
    /\ r.mapped = m.mapped \ as /\ r.listed = m.listed \ as
    /\ r.dirty = m.dirty \ as
    /\ r.freeIovas = m.freeIovas \union {m.iova[a] : a \in as}
    /\ \A p \in Pages : p \in as => r.linked[p] = {}
    /\ \A p \in Pages : p \notin as => /\ r.linked[p] = m.linked[p]
                                     /\ r.iova[p] = m.iova[p]
                                     /\ r.dir[p] = m.dir[p]
    /\ \A p \in Pages : p \in own => r.size[p] = PageSize
    /\ \A p \in Pages : p \notin own => r.size[p] = m.size[p]

LEMMA FreeEachFields ==
    ASSUME NEW m \in MgrType, LinkInv(m), IovaInv(m), NEW as \in SUBSET m.mapped
    PROVE  Freed(m, FreeEach(m, as), as, OwnOf(m, as))
<1> DEFINE r == FreeEach(m, as)
           own == OwnOf(m, as)
           u == Unlinked(m, as)
           back == {m.iova[a] : a \in as}
           size == [p \in Pages |-> IF p \in own THEN PageSize ELSE m.size[p]]
           linked == [p \in Pages |-> IF p \in as THEN {} ELSE m.linked[p]]
           iova == [p \in Pages |-> IF p \in as THEN NoIova ELSE m.iova[p]]
           dir == [p \in Pages |-> IF p \in as THEN "none" ELSE m.dir[p]]
<1>1. /\ m.inUse \in SUBSET Pages /\ m.size \in [Pages -> Nat \ {0}]
      /\ m.linked \in [Pages -> SUBSET Pages]
      /\ m.iova \in [Pages -> Iovas \union {NoIova}]
      /\ m.dir \in [Pages -> Directions \union {"none"}] /\ m.mapped \in SUBSET Pages
      /\ m.listed \in SUBSET Pages /\ m.freeIovas \in SUBSET Iovas /\ m.dirty \in SUBSET Nat
  BY MgrFields
<1>2. back \subseteq Iovas
  BY DEF IovaInv
<1> HIDE DEF back, own
<1>3. /\ size \in [Pages -> Nat \ {0}] /\ linked \in [Pages -> SUBSET Pages]
      /\ iova \in [Pages -> Iovas \union {NoIova}]
      /\ dir \in [Pages -> Directions \union {"none"}]
  BY <1>1, PageSizeAssumption
<1>4. /\ \A p \in Pages : p \in as => linked[p] = {}
      /\ \A p \in Pages : p \notin as => /\ linked[p] = m.linked[p] /\ iova[p] = m.iova[p]
                                       /\ dir[p] = m.dir[p]
      /\ \A p \in Pages : p \in own => size[p] = PageSize
      /\ \A p \in Pages : p \notin own => size[p] = m.size[p]
  OBVIOUS
<1>5. u = [m EXCEPT !.inUse = m.inUse \ own, !.size = size, !.linked = linked]
  BY DEF Unlinked, own, OwnOf
<1>6. r = [u EXCEPT !.mapped = u.mapped \ as, !.freeIovas = u.freeIovas \union back,
                    !.iova = [p \in Pages |-> IF p \in as THEN NoIova ELSE u.iova[p]],
                    !.dir = [p \in Pages |-> IF p \in as THEN "none" ELSE u.dir[p]],
                    !.dirty = u.dirty \ as, !.listed = u.listed \ as]
  BY DEF FreeEach, back
<1> HIDE DEF u, size, linked, r
<1>7. /\ u \in MgrType /\ u.pages = m.pages /\ u.backing = m.backing /\ u.inUse = m.inUse \ own
      /\ u.size = size /\ u.linked = linked /\ u.mapped = m.mapped /\ u.listed = m.listed
      /\ u.dirty = m.dirty /\ u.freeIovas = m.freeIovas /\ u.iova = m.iova /\ u.dir = m.dir
  BY <1>1, <1>3, <1>5 DEF MgrType
<1>8. r = [u EXCEPT !.mapped = m.mapped \ as, !.freeIovas = m.freeIovas \union back,
                    !.iova = iova, !.dir = dir,
                    !.dirty = m.dirty \ as, !.listed = m.listed \ as]
  BY <1>6, <1>7
<1> HIDE DEF iova, dir
<1>9. /\ m.mapped \ as \in SUBSET Pages /\ m.freeIovas \union back \in SUBSET Iovas
      /\ m.dirty \ as \in SUBSET Nat /\ m.listed \ as \in SUBSET Pages
  BY <1>1, <1>2
<1>10. /\ r \in MgrType /\ r.pages = u.pages /\ r.backing = u.backing /\ r.inUse = u.inUse
       /\ r.size = u.size /\ r.linked = u.linked /\ r.mapped = m.mapped \ as
       /\ r.listed = m.listed \ as /\ r.dirty = m.dirty \ as
       /\ r.freeIovas = m.freeIovas \union back /\ r.iova = iova /\ r.dir = dir
  BY <1>3, <1>7, <1>8, <1>9 DEF MgrType
<1>11. Freed(m, r, as, own)
  <2>1. r.linked = linked /\ r.size = size /\ r.iova = iova /\ r.dir = dir
    BY <1>7, <1>10
  <2>2. /\ \A p \in Pages : p \in as => r.linked[p] = {}
        /\ \A p \in Pages : p \notin as => /\ r.linked[p] = m.linked[p]
                                         /\ r.iova[p] = m.iova[p]
                                         /\ r.dir[p] = m.dir[p]
        /\ \A p \in Pages : p \in own => r.size[p] = PageSize
        /\ \A p \in Pages : p \notin own => r.size[p] = m.size[p]
    BY <1>4, <2>1
  <2>3. r.freeIovas = m.freeIovas \union {m.iova[a] : a \in as}
    BY <1>10 DEF back
  <2>4. r.pages = m.pages /\ r.backing = m.backing /\ r.inUse = m.inUse \ own
    BY <1>7, <1>10
  <2> QED
    BY <1>10, <2>2, <2>3, <2>4 DEF Freed
<1> QED
  BY <1>11 DEF r, own

LEMMA FreeEachKeeps ==
    ASSUME NEW m, MgrInv(m), NEW as \in SUBSET m.mapped
    PROVE  FreeResult(m, FreeEach(m, as), as)
<1> DEFINE r == FreeEach(m, as)
           own == OwnOf(m, as)
<1>1. m \in MgrType /\ PagesInv(m) /\ LinkInv(m) /\ SizeInv(m) /\ IovaInv(m)
  BY DEF MgrInv
<1>2. /\ r \in MgrType
      /\ r.pages = m.pages /\ r.backing = m.backing /\ r.inUse = m.inUse \ own
      /\ r.mapped = m.mapped \ as /\ r.listed = m.listed \ as
      /\ r.dirty = m.dirty \ as
      /\ r.freeIovas = m.freeIovas \union {m.iova[a] : a \in as}
      /\ \A p \in Pages : p \in as => r.linked[p] = {}
      /\ \A p \in Pages : p \notin as => /\ r.linked[p] = m.linked[p]
                                       /\ r.iova[p] = m.iova[p]
                                       /\ r.dir[p] = m.dir[p]
      /\ \A p \in Pages : p \in own => r.size[p] = PageSize
      /\ \A p \in Pages : p \notin own => r.size[p] = m.size[p]
  <2>1. Freed(m, r, as, own)
    BY <1>1, FreeEachFields
  <2> HIDE DEF r, own
  <2> QED
    BY <2>1 DEF Freed
<1> HIDE DEF r
<1>3. /\ m.inUse \in SUBSET Pages /\ m.linked \in [Pages -> SUBSET Pages]
      /\ m.mapped \in SUBSET Pages /\ m.listed \in SUBSET Pages
  BY <1>1, MgrFields
<1>4. as \subseteq m.listed /\ as \in SUBSET Pages /\ \A a \in as : Root(m, a)
  BY <1>1, <1>3 DEF IovaInv, LinkInv
<1>5. \A p : p \in own <=> p \in as \/ \E a \in as : p \in m.linked[a]
  BY OwnOfIs
<1> HIDE DEF own
<1>6. \A p \in Pages : r.linked[p] \subseteq m.linked[p]
  BY <1>2
<1>7. \A p \in Pages : Root(m, p) => Root(r, p)
  BY <1>6 DEF Root
<1>8. \A p \in Pages : Root(m, p) /\ p \notin as => p \notin own
  BY <1>4, <1>5 DEF Root
<1>9. PagesInv(r)
  BY <1>1, <1>2 DEF PagesInv
<1>10. LinkInv(r)
  <2>1. ASSUME NEW p \in Pages PROVE r.linked[p] \subseteq r.inUse
    <3>1. CASE p \in as
      BY <1>2, <3>1
    <3>2. CASE p \notin as
      <4>1. r.linked[p] = m.linked[p] /\ m.linked[p] \subseteq m.inUse
        BY <1>1, <1>2, <3>2 DEF LinkInv
      <4>2. ASSUME NEW y \in m.linked[p] PROVE y \notin own
        <5>1. y \notin as
          BY <1>4 DEF Root
        <5>2. \A a \in as : y \notin m.linked[a]
          BY <1>1, <1>4, <3>2 DEF LinkInv
        <5> QED
          BY <1>5, <5>1, <5>2
      <4> QED
        BY <1>2, <4>1, <4>2
    <3> QED
      BY <3>1, <3>2
  <2>2. ASSUME NEW p \in Pages, NEW q \in Pages, p # q PROVE r.linked[p] \cap r.linked[q] = {}
    <3>1. m.linked[p] \cap m.linked[q] = {}
      BY <1>1, <2>2 DEF LinkInv
    <3> QED
      BY <1>6, <3>1
  <2>3. ASSUME NEW p \in Pages, p \notin r.inUse \/ p \in r.listed PROVE Root(r, p)
    <3>1. CASE p \notin m.inUse \/ p \in m.listed
      BY <1>1, <1>7, <3>1 DEF LinkInv
    <3>2. CASE p \in own
      <4>1. CASE p \in as
        BY <1>4, <1>7, <4>1
      <4>2. ASSUME NEW a \in as, p \in m.linked[a] PROVE Root(r, p)
        <5>1. ASSUME NEW q \in Pages PROVE p \notin r.linked[q]
          <6>1. CASE q = a
            BY <1>2, <6>1
          <6>2. CASE q # a
            <7>1. p \notin m.linked[q]
              BY <1>1, <1>4, <4>2, <6>2 DEF LinkInv
            <7> QED
              BY <1>6, <7>1
          <6> QED
            BY <6>1, <6>2
        <5> QED
          BY <5>1 DEF Root
      <4> QED
        BY <1>5, <3>2, <4>1, <4>2
    <3> QED
      BY <1>2, <2>3, <3>1, <3>2
  <2> QED
    BY <2>1, <2>2, <2>3 DEF LinkInv
<1>11. SizeInv(r)
  <2> SUFFICES ASSUME NEW p \in Pages PROVE Beyond(r, p) \subseteq Tree(r, p)
    BY DEF SizeInv
  <2>1. CASE p \in own
    <3>1. Beyond(r, p) = {}
      BY <1>2, <2>1, PagesAreNat, PageHasNothingBeyond
    <3> QED
      BY <3>1
  <2>2. CASE p \notin own
    <3>1. p \notin as /\ Beyond(r, p) = Beyond(m, p) /\ Beyond(m, p) \subseteq Tree(m, p)
      BY <1>1, <1>2, <1>5, <2>2 DEF SizeInv, Beyond
    <3>2. ASSUME NEW W \in SUBSET Pages, p \in W, Closed(r, W) PROVE Tree(m, p) \subseteq W
      <4> DEFINE V == W \ as
      <4>1. V \in SUBSET Pages /\ p \in V
        BY <3>1, <3>2
      <4>2. ASSUME NEW q \in V PROVE m.linked[q] \subseteq V
        <5>1. q \in Pages /\ r.linked[q] = m.linked[q] /\ r.linked[q] \subseteq W
          BY <1>2, <3>2 DEF Closed
        <5>2. m.linked[q] \cap as = {}
          BY <1>4, <5>1 DEF Root
        <5> QED
          BY <5>1, <5>2
      <4>3. Closed(m, V)
        BY <4>2 DEF Closed
      <4> HIDE DEF V
      <4>4. Tree(m, p) \subseteq V
        BY <4>1, <4>3 DEF Tree
      <4> QED
        BY <4>4 DEF V
    <3>3. Tree(m, p) \subseteq Tree(r, p)
      BY <3>2 DEF Tree
    <3> QED
      BY <3>1, <3>3
  <2> QED
    BY <2>1, <2>2
<1>12. IovaInv(r)
  <2>1. r.mapped \subseteq r.listed
    BY <1>1, <1>2 DEF IovaInv
  <2>2. r.listed \subseteq r.inUse
    BY <1>1, <1>2, <1>3, <1>8 DEF IovaInv, LinkInv
  <2>3. \A a \in r.listed : a \in m.listed /\ a \in Pages /\ a \notin as /\ r.iova[a] = m.iova[a]
    BY <1>2, <1>3
  <2>4. ASSUME NEW a \in r.listed PROVE r.iova[a] \in Iovas /\ r.iova[a] \notin r.freeIovas
    <3>1. m.iova[a] \in Iovas /\ m.iova[a] \notin m.freeIovas
      BY <1>1, <2>3 DEF IovaInv
    <3>2. \A b \in as : m.iova[b] # m.iova[a]
      BY <1>1, <1>4, <2>3 DEF IovaInv
    <3>3. r.freeIovas = m.freeIovas \union {m.iova[b] : b \in as}
      BY <1>2
    <3> QED
      BY <2>3, <3>1, <3>2, <3>3
  <2>5. ASSUME NEW a \in r.listed, NEW b \in r.listed, r.iova[a] = r.iova[b] PROVE a = b
    BY <1>1, <2>3, <2>5 DEF IovaInv
  <2> QED
    BY <2>1, <2>2, <2>4, <2>5 DEF IovaInv
<1>13. MgrInv(r)
  BY <1>2, <1>9, <1>10, <1>11, <1>12 DEF MgrInv
<1>14. ASSUME NEW a \in m.mapped \ as
       PROVE  r.iova[a] = m.iova[a] /\ r.dir[a] = m.dir[a] /\ r.size[a] = m.size[a]
  <2>1. a \in Pages /\ a \in m.listed
    BY <1>1, <1>3 DEF IovaInv
  <2>2. a \notin own
    BY <1>1, <1>8, <2>1 DEF LinkInv
  <2> QED
    BY <1>2, <2>1, <2>2
<1>15. ASSUME NEW given, LentInv(m, given) PROVE LentInv(r, given)
  <2>1. \A p \in given : p \in Pages /\ p \in m.inUse /\ p \notin m.listed /\ Root(m, p)
    BY <1>3, <1>15 DEF LentInv
  <2>2. \A p \in given : p \notin own
    BY <1>4, <1>8, <2>1
  <2> QED
    BY <1>2, <1>7, <2>1, <2>2 DEF LentInv
<1>16. ASSUME NEW p \in m.inUse \ r.inUse PROVE \E a \in as : p \in Own(m, a)
  <2>1. p \in OwnOf(m, as)
    BY <1>2 DEF own
  <2> QED
    BY <2>1 DEF OwnOf
<1>17. FreeResult(m, r, as)
  BY <1>2, <1>13, <1>14, <1>15, <1>16 DEF FreeResult
<1> QED
  BY <1>17 DEF r

LEMMA FreeAllKeeps ==
    ASSUME NEW m, MgrInv(m), MayFreeAll(m)
    PROVE  LET r == FreeAll(m)
           IN  MgrInv(r) /\ r.mapped = {} /\ r.inUse = {} /\ r.dirty = {}
<1> DEFINE r == FreeAll(m)
           f == FreeEach(m, m.listed)
           back == Others(m.backing)
           n == Len(m.backing)
<1>1. m \in MgrType /\ PagesInv(m) /\ m.backing \in Seq(HugePages)
  BY MgrFields DEF MgrInv
<1>2. m.listed \in SUBSET m.mapped
  BY DEF MayFreeAll, MayFree
<1>3. f.freeIovas \in SUBSET Iovas
  <2>1. MgrInv(f)
    BY <1>2, FreeEachKeeps DEF FreeResult
  <2> HIDE DEF f
  <2> QED
    BY <2>1, MgrFields DEF MgrInv
<1> HIDE DEF f
<1>4. n \in Nat /\ \A i \in 1 .. n : m.backing[i] \in HugePages
  BY <1>1
<1>5. back = [i \in 1 .. n \div 2 |-> m.backing[2 * i]]
  BY DEF Others
<1> HIDE DEF n, back
<1>6. n \div 2 \in Nat /\ \A i \in 1 .. n \div 2 : 2 * i \in 1 .. n
  BY <1>4
<1>7. back \in Seq(HugePages) /\ Len(back) = n \div 2
      /\ \A i \in 1 .. Len(back) : back[i] = m.backing[2 * i]
  BY <1>4, <1>5, <1>6
<1>8. ASSUME NEW i \in 1 .. Len(back), NEW j \in 1 .. Len(back), back[i] = back[j] PROVE i = j
  <2>1. 2 * i \in 1 .. n /\ 2 * j \in 1 .. n /\ m.backing[2 * i] = m.backing[2 * j]
    BY <1>6, <1>7, <1>8
  <2>2. 2 * i = 2 * j
    BY <1>1, <2>1 DEF PagesInv, n
  <2> QED
    BY <1>7, <2>2
<1>9. r = [NewPageMgr EXCEPT !.freeIovas = f.freeIovas, !.backing = back]
  BY DEF FreeAll, f, back
<1> HIDE DEF r
<1>10. r \in MgrType
  BY <1>3, <1>7, <1>9, NewIsTyped DEF MgrType
<1>11. /\ r.pages = NewPageMgr.pages /\ r.inUse = NewPageMgr.inUse
       /\ r.mapped = NewPageMgr.mapped /\ r.listed = NewPageMgr.listed
       /\ r.dirty = NewPageMgr.dirty /\ r.linked = NewPageMgr.linked
       /\ r.size = NewPageMgr.size /\ r.backing = back
  BY <1>9, NewIsTyped DEF MgrType
<1>12. MgrInv(r)
  BY <1>8, <1>10, <1>11, NewIsTyped, UnusedIsCorrect
<1> QED
  BY <1>11, <1>12, NewIsTyped DEF r

-----------------------------------------------------------------------------
(***************************************************************************)
(* The users.  Everything held was mapped for its holder, and no two hold   *)
(* the same.                                                                *)
(***************************************************************************)
PrpType ==
    [cmd : Prps, bytes : DataSizes, dir : DataDirs, mems : Seq(Pages),
     prp1 : Iovas \union {NoIova}, prp2 : Iovas \union {NoIova},
     list : Seq(Iovas \union {NoIova}), stale : BOOLEAN, freed : BOOLEAN]

Distinct(s) == \A i, j \in 1 .. Len(s) : s[i] = s[j] => i = j

UsersType ==
    /\ prps \in [Prps -> PrpType \union {NoPrp}]
    /\ building \in PrpType \union {NoPrp}
    /\ areas \in SUBSET Pages /\ lent \in SUBSET Pages
    /\ spansFreed \in BOOLEAN

MemsDistinct ==
    /\ building # NoPrp => Distinct(building.mems)
    /\ \A c \in Prps : prps[c] # NoPrp => Distinct(prps[c].mems)

(* Areas A, the pages B of a PRP under way and those F of each command.     *)
Apart(M, A, B, F) ==
    /\ A \subseteq M /\ B \subseteq M /\ \A c \in Prps : F[c] \subseteq M
    /\ A \cap B = {} /\ \A c \in Prps : A \cap F[c] = {} /\ B \cap F[c] = {}
    /\ \A c, d \in Prps : c # d => F[c] \cap F[d] = {}

MemsOf == [c \in Prps |-> PrpMems(prps[c])]

HeldInv == Apart(mgr.mapped, areas, PrpMems(building), MemsOf)

IInv == MgrInv(mgr) /\ LentInv(mgr, lent) /\ UsersType /\ MemsDistinct /\ HeldInv

LEMMA PrpFields ==
    ASSUME NEW prp \in PrpType
    PROVE  /\ prp.cmd \in Prps /\ prp.bytes \in DataSizes /\ prp.dir \in DataDirs
           /\ prp.mems \in Seq(Pages)
           /\ prp.prp1 \in Iovas \union {NoIova} /\ prp.prp2 \in Iovas \union {NoIova}
           /\ prp.list \in Seq(Iovas \union {NoIova})
           /\ prp.stale \in BOOLEAN /\ prp.freed \in BOOLEAN
BY DEF PrpType

LEMMA OthersFacts ==
    ASSUME NEW s \in Seq(Pages), Distinct(s)
    PROVE  /\ Others(s) \in Seq(Pages) /\ Distinct(Others(s))
           /\ Range(Others(s)) \subseteq Range(s) \ Range(EveryOther(s))
           /\ Range(EveryOther(s)) \subseteq Range(s)
<1> DEFINE n == Len(s)
           o == Others(s)
           e == EveryOther(s)
<1>1. n \in Nat /\ (\A i \in 1 .. n : s[i] \in Pages) /\ DOMAIN s = 1 .. n
  OBVIOUS
<1>2. o = [i \in 1 .. n \div 2 |-> s[2 * i]] /\ e = [i \in 1 .. (n + 1) \div 2 |-> s[2 * i - 1]]
  BY DEF Others, EveryOther
<1>3. \A i, j \in 1 .. n : s[i] = s[j] => i = j
  BY DEF Distinct
<1> HIDE DEF n, o, e
<1>4. /\ n \div 2 \in Nat /\ \A i \in 1 .. n \div 2 : 2 * i \in 1 .. n
      /\ (n + 1) \div 2 \in Nat /\ \A i \in 1 .. (n + 1) \div 2 : 2 * i - 1 \in 1 .. n
  BY <1>1
<1>5. /\ o \in Seq(Pages) /\ Len(o) = n \div 2 /\ DOMAIN o = 1 .. n \div 2
      /\ \A i \in 1 .. n \div 2 : o[i] = s[2 * i]
  BY <1>1, <1>2, <1>4
<1>6. DOMAIN e = 1 .. (n + 1) \div 2 /\ \A i \in 1 .. (n + 1) \div 2 : e[i] = s[2 * i - 1]
  BY <1>2
<1>7. ASSUME NEW i \in 1 .. Len(o), NEW j \in 1 .. Len(o), o[i] = o[j] PROVE i = j
  <2>1. 2 * i = 2 * j
    BY <1>3, <1>4, <1>5, <1>7
  <2> QED
    BY <1>5, <2>1
<1>8. ASSUME NEW x \in Range(o) PROVE x \in Range(s) /\ x \notin Range(e)
  <2>1. PICK i \in 1 .. n \div 2 : x = s[2 * i]
    BY <1>5 DEF Range
  <2>2. x \in Range(s)
    BY <1>1, <1>4, <2>1 DEF Range
  <2>3. ASSUME NEW j \in 1 .. (n + 1) \div 2, x = s[2 * j - 1] PROVE FALSE
    <3>1. 2 * i = 2 * j - 1
      BY <1>3, <1>4, <2>1, <2>3
    <3> QED
      BY <1>4, <3>1
  <2> QED
    BY <1>6, <2>2, <2>3 DEF Range
<1>9. ASSUME NEW x \in Range(e) PROVE x \in Range(s)
  <2>1. PICK i \in 1 .. (n + 1) \div 2 : x = s[2 * i - 1]
    BY <1>6 DEF Range
  <2> QED
    BY <1>1, <1>4, <2>1 DEF Range
<1> QED
  BY <1>5, <1>7, <1>8, <1>9 DEF Distinct, o, e

LEMMA AppendFacts ==
    ASSUME NEW s \in Seq(Pages), NEW p \in Pages
    PROVE  /\ Append(s, p) \in Seq(Pages) /\ Len(Append(s, p)) = Len(s) + 1
           /\ \A i \in 1 .. Len(s) : Append(s, p)[i] = s[i]
           /\ Append(s, p)[Len(s) + 1] = p
           /\ Range(Append(s, p)) = Range(s) \union {p}
           /\ Distinct(s) /\ p \notin Range(s) => Distinct(Append(s, p))
<1> DEFINE n == Len(s)
           t == Append(s, p)
<1>1. n \in Nat /\ DOMAIN s = 1 .. n
  OBVIOUS
<1>2. t \in Seq(Pages) /\ Len(t) = n + 1 /\ DOMAIN t = 1 .. n + 1 /\ t[n + 1] = p
      /\ \A i \in 1 .. n : t[i] = s[i]
  OBVIOUS
<1> HIDE DEF t, n
<1>3. \A i \in 1 .. n + 1 : i \in 1 .. n \/ i = n + 1
  BY <1>1
<1>4. n + 1 \in 1 .. n + 1 /\ \A i \in 1 .. n : i \in 1 .. n + 1
  BY <1>1
<1>5. Range(t) = Range(s) \union {p}
  BY <1>1, <1>2, <1>3, <1>4 DEF Range
<1>6. ASSUME Distinct(s), p \notin Range(s) PROVE Distinct(t)
  <2> SUFFICES ASSUME NEW i \in 1 .. n + 1, NEW j \in 1 .. n + 1, t[i] = t[j] PROVE i = j
    BY <1>2 DEF Distinct
  <2>1. \A k \in 1 .. n : s[k] # p
    BY <1>1, <1>6 DEF Range
  <2>2. \A k, l \in 1 .. n : s[k] = s[l] => k = l
    BY <1>6 DEF Distinct, n
  <2> QED
    BY <1>2, <1>3, <2>1, <2>2
<1> QED
  BY <1>2, <1>5, <1>6 DEF t, n

(* The page that has just been allocated.                                   *)
LEMMA WithPageFields ==
    ASSUME NEW prp \in PrpType, NEW m \in MgrType, NEW p \in Pages, NEW clear \in BOOLEAN
    PROVE  LET q == WithPage(prp, m, p, clear)
               k == Len(prp.mems) + 1
           IN  /\ q \in PrpType /\ q.cmd = prp.cmd /\ q.bytes = prp.bytes /\ q.dir = prp.dir
               /\ q.freed = prp.freed /\ q.mems = Append(prp.mems, p)
               /\ q.prp1 = IF k = 1 THEN m.iova[p] ELSE prp.prp1
               /\ q.prp2 = IF k = 2 THEN m.iova[p] ELSE prp.prp2
               /\ q.list = IF k > 2 THEN Append(prp.list, m.iova[p]) ELSE prp.list
               /\ q.stale = (prp.stale \/ (HasList(prp) /\ k = 2 /\ ~clear))
<1> DEFINE q == WithPage(prp, m, p, clear)
           k == Len(prp.mems) + 1
           mems == Append(prp.mems, p)
           prp1 == IF k = 1 THEN m.iova[p] ELSE prp.prp1
           prp2 == IF k = 2 THEN m.iova[p] ELSE prp.prp2
           list == IF k > 2 THEN Append(prp.list, m.iova[p]) ELSE prp.list
           isList == HasList(prp) /\ k = 2
           stale == prp.stale \/ (isList /\ ~clear)
<1>1. /\ prp.mems \in Seq(Pages) /\ prp.prp1 \in Iovas \union {NoIova}
      /\ prp.prp2 \in Iovas \union {NoIova} /\ prp.list \in Seq(Iovas \union {NoIova})
      /\ prp.stale \in BOOLEAN
  BY PrpFields
<1>2. m.iova[p] \in Iovas \union {NoIova}
  BY MgrFields
<1>3. /\ mems \in Seq(Pages) /\ prp1 \in Iovas \union {NoIova} /\ prp2 \in Iovas \union {NoIova}
      /\ list \in Seq(Iovas \union {NoIova})
  BY <1>1, <1>2
<1>4. q = [prp EXCEPT !.mems = mems, !.prp1 = prp1, !.prp2 = prp2, !.list = list,
                      !.stale = stale]
  BY DEF WithPage
<1>5. stale \in BOOLEAN
  OBVIOUS
<1> HIDE DEF q, k, mems, prp1, prp2, list, stale
<1>6. /\ q \in PrpType /\ q.cmd = prp.cmd /\ q.bytes = prp.bytes /\ q.dir = prp.dir
      /\ q.freed = prp.freed /\ q.mems = mems /\ q.prp1 = prp1 /\ q.prp2 = prp2
      /\ q.list = list /\ q.stale = stale
  BY <1>3, <1>4, <1>5 DEF PrpType
<1> QED
  BY <1>6 DEF q, k, mems, prp1, prp2, list, stale

LEMMA MemIsNew ==
    ASSUME NEW m, NEW r, NEW size, NEW dir, MallocResult(m, r, size, dir), MgrInv(m),
           r.mem # NoMem
    PROVE  /\ r.mem \in Pages /\ r.mem \notin m.mapped /\ r.mem \notin m.inUse
           /\ r.mgr.mapped = m.mapped \union {r.mem} /\ r.mgr.dir[r.mem] = dir
           /\ r.mgr.dirty = m.dirty \union Touched(r.mem, size) /\ r.mgr.size[r.mem] = size
           /\ dir \in Directions
BY DEF MallocResult, MgrInv, IovaInv

(* A malloc never takes away what is held.                                  *)
LEMMA MappedGrows ==
    ASSUME NEW M, NEW N, M \subseteq N, NEW A, NEW B, NEW F, Apart(M, A, B, F)
    PROVE  Apart(N, A, B, F)
BY DEF Apart

LEMMA MallocForPrp ==
    ASSUME IInv, building # NoPrp,
           NEW r \in Malloc(mgr, PageSize, NextDirection(building)), r.mem # NoMem,
           NEW clear \in BOOLEAN
    PROVE  LET prp == WithPage(building, r.mgr, r.mem, clear)
           IN  /\ MallocResult(mgr, r, PageSize, NextDirection(building))
               /\ MgrInv(r.mgr) /\ LentInv(r.mgr, lent)
               /\ prp \in PrpType /\ Distinct(prp.mems) /\ prp.cmd = building.cmd
               /\ Range(prp.mems) = Range(building.mems) \union {r.mem}
               /\ r.mem \in Pages /\ r.mem \notin mgr.mapped
               /\ r.mgr.mapped = mgr.mapped \union {r.mem}
<1> DEFINE prp == WithPage(building, r.mgr, r.mem, clear)
           dir == NextDirection(building)
<1>1. MgrInv(mgr) /\ LentInv(mgr, lent) /\ building \in PrpType /\ Distinct(building.mems)
      /\ PrpMems(building) \subseteq mgr.mapped
  BY DEF IInv, UsersType, MemsDistinct, HeldInv, Apart
<1>2. WholeSize(PageSize) = PageSize /\ PageSize \in Nat
  BY PageSizeAssumption, MaxPair DEF WholeSize
<1>3. MallocResult(mgr, r, PageSize, dir)
  <2>1. MallocResult(mgr, r, WholeSize(PageSize), dir)
    BY <1>1, <1>2, MallocKeeps
  <2> QED
    BY <1>2, <2>1
<1> HIDE DEF dir
<1>4. r.mem \in Pages /\ r.mem \notin mgr.mapped /\ r.mgr.mapped = mgr.mapped \union {r.mem}
  BY <1>1, <1>3, MemIsNew
<1>5. MgrInv(r.mgr) /\ LentInv(r.mgr, lent)
  BY <1>1, <1>3, LentExtends DEF MallocResult
<1>6. prp \in PrpType /\ prp.cmd = building.cmd /\ prp.mems = Append(building.mems, r.mem)
  BY <1>1, <1>4, <1>5, WithPageFields DEF MgrInv
<1>7. building.mems \in Seq(Pages)
  BY <1>1, PrpFields
<1>8. r.mem \notin Range(building.mems)
  BY <1>1, <1>4 DEF PrpMems
<1> HIDE DEF prp
<1>9. Distinct(prp.mems) /\ Range(prp.mems) = Range(building.mems) \union {r.mem}
  BY <1>1, <1>4, <1>6, <1>7, <1>8, AppendFacts
<1> QED
  BY <1>3, <1>4, <1>5, <1>6, <1>9 DEF prp, dir

LEMMA InitCorrect == Init => IInv
<1> SUFFICES ASSUME Init PROVE IInv
  OBVIOUS
<1>1. PICK hps \in Answers(NewPageMgr, 1) : mgr = WithHugePages(NewPageMgr, hps)
  BY DEF Init
<1>2. MgrInv(NewPageMgr)
  BY NewIsTyped, UnusedIsCorrect
<1>3. MgrInv(mgr) /\ mgr.mapped = NewPageMgr.mapped
  BY <1>1, <1>2, WithHugePagesKeeps
<1>4. areas = {} /\ lent = {} /\ prps = [c \in Prps |-> NoPrp] /\ building = NoPrp
      /\ spansFreed = FALSE
  BY DEF Init
<1>5. LentInv(mgr, lent)
  BY <1>4 DEF LentInv
<1>6. UsersType /\ MemsDistinct
  BY <1>4 DEF UsersType, MemsDistinct
<1>7. HeldInv
  BY <1>3, <1>4 DEF HeldInv, Apart, MemsOf, PrpMems
<1> QED
  BY <1>3, <1>5, <1>6, <1>7 DEF IInv

LEMMA NewPrpCorrect ==
    ASSUME IInv, NEW c \in Prps, NEW bytes \in DataSizes, NEW dir \in DataDirs,
           NewPrp(c, bytes, dir)
    PROVE  IInv'
<1> DEFINE prp == [cmd |-> c, bytes |-> bytes, dir |-> dir, mems |-> <<>>,
                   prp1 |-> NoIova, prp2 |-> NoIova, list |-> <<>>,
                   stale |-> FALSE, freed |-> FALSE]
<1>1. building' = prp /\ building = NoPrp /\ UNCHANGED <<mgr, areas, lent, prps, spansFreed>>
  BY DEF NewPrp
<1>2. prp \in PrpType /\ prp.mems = <<>>
  BY DEF PrpType
<1> HIDE DEF prp
<1>3. UsersType'
  BY <1>1, <1>2 DEF IInv, UsersType
<1>4. MemsDistinct'
  BY <1>1, <1>2 DEF IInv, MemsDistinct, Distinct
<1>5. PrpMems(building)' = {}
  BY <1>1, <1>2 DEF PrpMems, Range
<1>6. MemsOf' = MemsOf
  BY <1>1 DEF MemsOf, PrpMems
<1>7. HeldInv'
  BY <1>1, <1>5, <1>6 DEF IInv, HeldInv, Apart
<1> QED
  BY <1>1, <1>3, <1>4, <1>7 DEF IInv

LEMMA PrpPageCorrect ==
    ASSUME IInv, PrpPage
    PROVE  IInv'
<1>1. PICK r \in Malloc(mgr, PageSize, NextDirection(building)) :
        /\ r.mem # NoMem /\ mgr' = r.mgr
        /\ building' = WithPage(building, r.mgr, r.mem, r.mem \notin mgr.dirty)
  BY DEF PrpPage
<1>2. building # NoPrp /\ UNCHANGED <<areas, lent, prps, spansFreed>>
  BY DEF PrpPage
<1>3. /\ MgrInv(mgr') /\ LentInv(mgr', lent)
      /\ building' \in PrpType /\ Distinct(building'.mems)
      /\ Range(building'.mems) = Range(building.mems) \union {r.mem}
      /\ r.mem \in Pages /\ r.mem \notin mgr.mapped
      /\ mgr'.mapped = mgr.mapped \union {r.mem}
  BY <1>1, <1>2, MallocForPrp
<1>4. UsersType'
  BY <1>2, <1>3 DEF IInv, UsersType
<1>5. MemsDistinct'
  BY <1>2, <1>3 DEF IInv, MemsDistinct
<1>6. MemsOf' = MemsOf
  BY <1>2 DEF MemsOf, PrpMems
<1>7. PrpMems(building)' \subseteq PrpMems(building) \union {r.mem}
  BY <1>2, <1>3 DEF PrpMems
<1>8. Apart(mgr.mapped, areas, PrpMems(building), MemsOf)
  BY DEF IInv, HeldInv
<1>9. Apart(mgr'.mapped, areas, PrpMems(building)', MemsOf)
  BY <1>3, <1>7, <1>8 DEF Apart
<1>10. HeldInv'
  BY <1>2, <1>6, <1>9 DEF HeldInv
<1> QED
  BY <1>2, <1>3, <1>4, <1>5, <1>10 DEF IInv

LEMMA PrpLastPageCorrect ==
    ASSUME IInv, PrpLastPage
    PROVE  IInv'
<1>1. PICK r \in Malloc(mgr, PageSize, NextDirection(building)) :
        /\ r.mem # NoMem /\ mgr' = r.mgr
        /\ LET prp == WithPage(building, r.mgr, r.mem, r.mem \notin mgr.dirty)
           IN  prps' = [prps EXCEPT ![prp.cmd] = prp]
  BY DEF PrpLastPage
<1> DEFINE prp == WithPage(building, r.mgr, r.mem, r.mem \notin mgr.dirty)
<1>2. building # NoPrp /\ building' = NoPrp /\ UNCHANGED <<areas, lent, spansFreed>>
  BY DEF PrpLastPage
<1>3. /\ MgrInv(mgr') /\ LentInv(mgr', lent)
      /\ prp \in PrpType /\ Distinct(prp.mems)
      /\ Range(prp.mems) = Range(building.mems) \union {r.mem}
      /\ r.mem \in Pages /\ r.mem \notin mgr.mapped
      /\ mgr'.mapped = mgr.mapped \union {r.mem}
  BY <1>1, <1>2, MallocForPrp
<1>4. prps' = [prps EXCEPT ![prp.cmd] = prp]
  BY <1>1
<1> HIDE DEF prp
<1> DEFINE c == prp.cmd
<1>5. c \in Prps
  BY <1>3, PrpFields
<1>6. prps \in [Prps -> PrpType \union {NoPrp}]
  BY DEF IInv, UsersType
<1>7. prps'[c] = prp /\ \A d \in Prps : d # c => prps'[d] = prps[d]
  BY <1>4, <1>5, <1>6
<1>8. prps' \in [Prps -> PrpType \union {NoPrp}]
  BY <1>3, <1>4, <1>6
<1> HIDE DEF c
<1>9. UsersType'
  BY <1>2, <1>8 DEF IInv, UsersType
<1>10. MemsDistinct'
  BY <1>2, <1>3, <1>7 DEF IInv, MemsDistinct
<1>11. PrpMems(building)' = {}
  BY <1>2 DEF PrpMems
<1>12. /\ MemsOf'[c] \subseteq PrpMems(building) \union {r.mem}
       /\ \A d \in Prps : d # c => MemsOf'[d] = MemsOf[d]
  BY <1>2, <1>3, <1>5, <1>7 DEF MemsOf, PrpMems
<1>13. Apart(mgr.mapped, areas, PrpMems(building), MemsOf)
  BY DEF IInv, HeldInv
<1> DEFINE F == MemsOf
           G == MemsOf'
           B == PrpMems(building)
           C == PrpMems(building)'
           M == mgr.mapped
           N == mgr'.mapped
<1>14. /\ Apart(M, areas, B, F) /\ C = {} /\ N = M \union {r.mem} /\ r.mem \notin M
       /\ G[c] \subseteq B \union {r.mem} /\ \A d \in Prps : d # c => G[d] = F[d]
  BY <1>3, <1>11, <1>12, <1>13
<1> HIDE DEF F, G, B, C, M, N
<1>15. Apart(N, areas, C, G)
  <2>1. areas \subseteq N /\ C \subseteq N /\ areas \cap C = {}
    BY <1>14 DEF Apart
  <2>2. ASSUME NEW d \in Prps PROVE G[d] \subseteq N /\ areas \cap G[d] = {} /\ C \cap G[d] = {}
    BY <1>14 DEF Apart
  <2>3. ASSUME NEW d \in Prps, NEW e \in Prps, d # e PROVE G[d] \cap G[e] = {}
    <3>1. CASE d # c /\ e # c
      BY <1>14, <2>3, <3>1 DEF Apart
    <3>2. CASE d = c
      BY <1>14, <2>3, <3>2 DEF Apart
    <3>3. CASE e = c
      BY <1>14, <2>3, <3>3 DEF Apart
    <3> QED
      BY <3>1, <3>2, <3>3
  <2> QED
    BY <2>1, <2>2, <2>3 DEF Apart
<1>16. HeldInv'
  BY <1>2, <1>15 DEF HeldInv, N, C, G
<1> QED
  BY <1>2, <1>3, <1>9, <1>10, <1>16 DEF IInv

LEMMA MallocRaises ==
    ASSUME IInv, NEW size \in Nat, NEW dir, NEW r \in Malloc(mgr, size, dir)
    PROVE  /\ MgrInv(r.mgr) /\ LentInv(r.mgr, lent) /\ Extends(mgr, r.mgr)
           /\ mgr.mapped \subseteq r.mgr.mapped
<1>1. MallocResult(mgr, r, WholeSize(size), dir)
  BY MallocKeeps DEF IInv
<1>2. MgrInv(r.mgr) /\ Extends(mgr, r.mgr)
  BY <1>1 DEF MallocResult
<1>3. LentInv(r.mgr, lent)
  BY <1>2, LentExtends DEF IInv
<1> QED
  BY <1>2, <1>3 DEF Extends

LEMMA PrpRaisesCorrect ==
    ASSUME IInv, PrpRaises
    PROVE  IInv'
<1>1. PICK r \in Malloc(mgr, PageSize, NextDirection(building)) : mgr' = r.mgr
  BY DEF PrpRaises
<1>2. building' = NoPrp /\ UNCHANGED <<areas, lent, prps, spansFreed>>
  BY DEF PrpRaises
<1>3. MgrInv(mgr') /\ LentInv(mgr', lent) /\ mgr.mapped \subseteq mgr'.mapped
  <2>1. PageSize \in Nat
    BY PageSizeAssumption
  <2> QED
    BY <1>1, <2>1, MallocRaises
<1>4. UsersType' /\ MemsDistinct'
  BY <1>2 DEF IInv, UsersType, MemsDistinct
<1>5. MemsOf' = MemsOf /\ PrpMems(building)' = {}
  BY <1>2 DEF MemsOf, PrpMems
<1>6. HeldInv'
  BY <1>2, <1>3, <1>5 DEF IInv, HeldInv, Apart
<1> QED
  BY <1>2, <1>3, <1>4, <1>6 DEF IInv

LEMMA FreePrpsCorrect ==
    ASSUME IInv, NEW c \in Prps, FreePrps(c)
    PROVE  IInv'
<1> DEFINE mems == prps[c].mems
           as == Range(EveryOther(mems))
           prp == [prps[c] EXCEPT !.mems = Others(mems), !.freed = TRUE]
<1>1. /\ prps[c] # NoPrp /\ mgr' = FreeEach(mgr, as)
      /\ UNCHANGED <<areas, lent, building, spansFreed>>
  BY DEF FreePrps
<1>2. prps \in [Prps -> PrpType \union {NoPrp}]
  BY DEF IInv, UsersType
<1>3. prps[c] \in PrpType /\ mems \in Seq(Pages) /\ Distinct(mems)
  BY <1>1, <1>2, PrpFields DEF IInv, MemsDistinct
<1>4. prps' = [prps EXCEPT ![c] = prp]
  BY <1>2 DEF FreePrps
<1> HIDE DEF mems
<1>5. /\ Others(mems) \in Seq(Pages) /\ Distinct(Others(mems))
      /\ Range(Others(mems)) \subseteq Range(mems) \ as /\ as \subseteq Range(mems)
  BY <1>3, OthersFacts
<1>6. prp \in PrpType /\ prp.mems = Others(mems)
  BY <1>3, <1>5 DEF PrpType
<1> HIDE DEF prp, as
<1>7. prps'[c] = prp /\ \A d \in Prps : d # c => prps'[d] = prps[d]
  BY <1>2, <1>4
<1>8. prps' \in [Prps -> PrpType \union {NoPrp}]
  BY <1>2, <1>4, <1>6
<1> DEFINE F == MemsOf
           G == MemsOf'
           B == PrpMems(building)
           M == mgr.mapped
           N == mgr'.mapped
<1>9. Apart(M, areas, B, F) /\ MgrInv(mgr) /\ LentInv(mgr, lent)
  BY DEF IInv, HeldInv
<1>10. F[c] = Range(mems)
  BY <1>1 DEF MemsOf, PrpMems, mems
<1>11. as \in SUBSET M
  BY <1>5, <1>9, <1>10 DEF Apart
<1>12. FreeResult(mgr, mgr', as)
  BY <1>1, <1>9, <1>11, FreeEachKeeps
<1>13. G[c] \subseteq F[c] \ as /\ \A d \in Prps : d # c => G[d] = F[d]
  BY <1>5, <1>6, <1>7, <1>10 DEF MemsOf, PrpMems
<1>14. N = M \ as /\ as \subseteq F[c]
  BY <1>5, <1>10, <1>12 DEF FreeResult
<1> HIDE DEF F, G, B, M, N
<1>15. Apart(N, areas, B, G)
  <2>1. areas \subseteq N /\ B \subseteq N /\ areas \cap B = {}
    BY <1>9, <1>14 DEF Apart
  <2>2. ASSUME NEW d \in Prps PROVE G[d] \subseteq N /\ areas \cap G[d] = {} /\ B \cap G[d] = {}
    BY <1>9, <1>13, <1>14 DEF Apart
  <2>3. ASSUME NEW d \in Prps, NEW e \in Prps, d # e PROVE G[d] \cap G[e] = {}
    BY <1>9, <1>13, <2>3 DEF Apart
  <2> QED
    BY <2>1, <2>2, <2>3 DEF Apart
<1>16. HeldInv'
  BY <1>1, <1>15 DEF HeldInv, G, N, B, PrpMems
<1>17. UsersType'
  BY <1>1, <1>8 DEF IInv, UsersType
<1>18. MemsDistinct'
  BY <1>1, <1>5, <1>6, <1>7 DEF IInv, MemsDistinct
<1>19. MgrInv(mgr') /\ LentInv(mgr', lent)
  BY <1>9, <1>12 DEF FreeResult
<1> QED
  BY <1>1, <1>16, <1>17, <1>18, <1>19 DEF IInv

LEMMA MallocAreaCorrect ==
    ASSUME IInv, NEW size \in AreaSizes, NEW dir \in AreaDirs, MallocArea(size, dir)
    PROVE  IInv'
<1>1. PICK r \in Malloc(mgr, size, dir) :
        mgr' = r.mgr /\ areas' = areas \union ({r.mem} \ {NoMem})
  BY DEF MallocArea
<1>2. UNCHANGED <<lent, prps, building, spansFreed>>
  BY DEF MallocArea
<1>3. size \in Nat
  BY SizesAssumption
<1>4. MgrInv(mgr') /\ LentInv(mgr', lent) /\ mgr.mapped \subseteq mgr'.mapped
  BY <1>1, <1>3, MallocRaises
<1>5. r.mem # NoMem => /\ r.mem \in Pages /\ r.mem \notin mgr.mapped
                       /\ mgr'.mapped = mgr.mapped \union {r.mem}
  <2>1. MallocResult(mgr, r, WholeSize(size), dir)
    BY <1>3, MallocKeeps DEF IInv
  <2> QED
    BY <1>1, <2>1, MemIsNew DEF IInv
<1>6. UsersType' /\ MemsDistinct'
  BY <1>1, <1>2, <1>5 DEF IInv, UsersType, MemsDistinct
<1>7. MemsOf' = MemsOf /\ PrpMems(building)' = PrpMems(building)
  BY <1>2 DEF MemsOf, PrpMems
<1>8. Apart(mgr.mapped, areas, PrpMems(building), MemsOf)
  BY DEF IInv, HeldInv
<1>9. Apart(mgr'.mapped, areas', PrpMems(building), MemsOf)
  <2>1. CASE r.mem = NoMem
    BY <1>1, <1>4, <1>8, <2>1 DEF Apart
  <2>2. CASE r.mem # NoMem
    BY <1>1, <1>5, <1>8, <2>2 DEF Apart
  <2> QED
    BY <2>1, <2>2
<1>10. HeldInv'
  BY <1>7, <1>9 DEF HeldInv
<1> QED
  BY <1>2, <1>4, <1>6, <1>10 DEF IInv

LEMMA BorrowPagesCorrect ==
    ASSUME IInv, NEW n \in 1 .. MaxLent, BorrowPages(n)
    PROVE  IInv'
<1>1. PICK r \in MallocPages(mgr, n) : mgr' = r.mgr /\ lent' = lent \union r.taken
  BY DEF BorrowPages
<1>2. UNCHANGED <<areas, prps, building, spansFreed>>
  BY DEF BorrowPages
<1>3. n \in Nat
  BY DirsAssumption
<1>4. MgrInv(mgr) /\ LentInv(mgr, lent)
  BY DEF IInv
<1>5. PagesResult(mgr, r)
  BY <1>3, <1>4, MallocPagesKeeps
<1>6. MgrInv(mgr') /\ Extends(mgr, mgr') /\ mgr'.mapped = mgr.mapped /\ r.taken \in SUBSET Pages
      /\ r.taken \subseteq mgr'.inUse /\ \A p \in r.taken : p \notin mgr'.listed /\ Root(mgr', p)
  BY <1>1, <1>5 DEF PagesResult
<1>7. LentInv(mgr', lent)
  BY <1>4, <1>6, LentExtends
<1>8. LentInv(mgr', lent')
  BY <1>1, <1>6, <1>7 DEF LentInv
<1>9. UsersType' /\ MemsDistinct'
  BY <1>1, <1>2, <1>6 DEF IInv, UsersType, MemsDistinct
<1>10. HeldInv'
  BY <1>2, <1>6 DEF IInv, HeldInv, MemsOf, PrpMems
<1> QED
  BY <1>6, <1>8, <1>9, <1>10 DEF IInv

LEMMA FreeAreaCorrect ==
    ASSUME IInv, NEW a \in areas, FreeArea(a)
    PROVE  IInv'
<1>1. /\ mgr' = FreeEach(mgr, {a}) /\ areas' = areas \ {a}
      /\ spansFreed' \in BOOLEAN /\ UNCHANGED <<lent, prps, building>>
  BY DEF FreeArea, IInv, UsersType
<1>2. Apart(mgr.mapped, areas, PrpMems(building), MemsOf) /\ MgrInv(mgr) /\ LentInv(mgr, lent)
  BY DEF IInv, HeldInv
<1>3. {a} \in SUBSET mgr.mapped
  BY <1>2 DEF Apart
<1>4. FreeResult(mgr, mgr', {a})
  BY <1>1, <1>2, <1>3, FreeEachKeeps
<1>5. mgr'.mapped = mgr.mapped \ {a} /\ MgrInv(mgr') /\ LentInv(mgr', lent)
  BY <1>2, <1>4 DEF FreeResult
<1>6. Apart(mgr'.mapped, areas', PrpMems(building), MemsOf)
  BY <1>1, <1>2, <1>5 DEF Apart
<1>7. MemsOf' = MemsOf /\ PrpMems(building)' = PrpMems(building)
  BY <1>1 DEF MemsOf, PrpMems
<1>8. HeldInv'
  BY <1>6, <1>7 DEF HeldInv
<1>9. UsersType' /\ MemsDistinct'
  BY <1>1 DEF IInv, UsersType, MemsDistinct
<1> QED
  BY <1>1, <1>5, <1>8, <1>9 DEF IInv

LEMMA ReleaseAllCorrect ==
    ASSUME IInv, ReleaseAll
    PROVE  IInv'
<1>1. /\ building = NoPrp /\ MayFreeAll(mgr) /\ mgr' = FreeAll(mgr)
      /\ areas' = {} /\ lent' = {} /\ prps' = [c \in Prps |-> NoPrp]
      /\ UNCHANGED <<building, spansFreed>>
  BY DEF ReleaseAll
<1>2. MgrInv(mgr')
  BY <1>1, FreeAllKeeps DEF IInv
<1>3. LentInv(mgr', lent')
  BY <1>1 DEF LentInv
<1>4. UsersType' /\ MemsDistinct'
  BY <1>1 DEF IInv, UsersType, MemsDistinct
<1>5. HeldInv'
  BY <1>1 DEF HeldInv, Apart, MemsOf, PrpMems
<1> QED
  BY <1>2, <1>3, <1>4, <1>5 DEF IInv

LEMMA NextCorrect == IInv /\ [Next]_vars => IInv'
<1> SUFFICES ASSUME IInv, [Next]_vars PROVE IInv'
  OBVIOUS
<1>1. CASE UNCHANGED vars
  <2>1. UNCHANGED <<mgr, areas, lent, prps, building, spansFreed>>
    BY <1>1 DEF vars
  <2>2. UsersType' /\ MemsDistinct' /\ HeldInv'
    BY <2>1 DEF IInv, UsersType, MemsDistinct, HeldInv, MemsOf, PrpMems
  <2> QED
    BY <2>1, <2>2 DEF IInv
<1>2. ASSUME NEW c \in Prps, NEW bytes \in DataSizes, NEW dir \in DataDirs,
             NewPrp(c, bytes, dir)
      PROVE  IInv'
  BY <1>2, NewPrpCorrect
<1>3. CASE PrpPage
  BY <1>3, PrpPageCorrect
<1>4. CASE PrpLastPage
  BY <1>4, PrpLastPageCorrect
<1>5. CASE PrpRaises
  BY <1>5, PrpRaisesCorrect
<1>6. ASSUME NEW c \in Prps, FreePrps(c) PROVE IInv'
  BY <1>6, FreePrpsCorrect
<1>7. ASSUME NEW size \in AreaSizes, NEW dir \in AreaDirs, MallocArea(size, dir) PROVE IInv'
  BY <1>7, MallocAreaCorrect
<1>8. ASSUME NEW n \in 1 .. MaxLent, BorrowPages(n) PROVE IInv'
  BY <1>8, BorrowPagesCorrect
<1>9. ASSUME NEW a \in areas, FreeArea(a) PROVE IInv'
  BY <1>9, FreeAreaCorrect
<1>10. CASE ReleaseAll
  BY <1>10, ReleaseAllCorrect
<1> QED
  BY <1>1, <1>2, <1>3, <1>4, <1>5, <1>6, <1>7, <1>8, <1>9, <1>10 DEF Next

(* The manager's books and what each user holds stay in order.              *)
THEOREM Inductive == Spec => []IInv
BY InitCorrect, NextCorrect, PTL DEF Spec

-----------------------------------------------------------------------------
LEMMA HeldIsMapped ==
    ASSUME IInv
    PROVE  Held \subseteq mgr.mapped
<1>1. Apart(mgr.mapped, areas, PrpMems(building), MemsOf)
  BY DEF IInv, HeldInv
<1>2. \A c \in Prps : PrpMems(prps[c]) \subseteq mgr.mapped
  BY <1>1 DEF Apart, MemsOf
<1> QED
  BY <1>1, <1>2 DEF Held, Apart

(* The types of the manager's record and of what users hold: a page has a   *)
(* size, links are between pages, IOVAs are those of the manager.           *)
THEOREM TypesCorrect == Spec => []TypeOK
<1>1. IInv => TypeOK
  <2> SUFFICES ASSUME IInv PROVE TypeOK
    OBVIOUS
  <2>1. mgr \in MgrType /\ UsersType /\ mgr.mapped \subseteq mgr.listed
    BY DEF IInv, MgrInv, IovaInv
  <2>2. /\ mgr.pages \in Seq(Pages) /\ mgr.inUse \in SUBSET Pages
        /\ mgr.size \in [Pages -> Nat \ {0}] /\ mgr.linked \in [Pages -> SUBSET Pages]
        /\ mgr.iova \in [Pages -> Iovas \union {NoIova}]
        /\ mgr.dir \in [Pages -> Directions \union {"none"}]
        /\ mgr.mapped \in SUBSET Pages /\ mgr.listed \in SUBSET Pages
        /\ mgr.freeIovas \in SUBSET Iovas /\ mgr.backing \in Seq(HugePages)
        /\ mgr.dirty \in SUBSET Nat
    BY <2>1, MgrFields
  <2>3. Range(mgr.pages) \subseteq Pages
    BY <2>2 DEF Range
  <2>4. Range(mgr.backing) \subseteq HugePages
    BY <2>2 DEF Range
  <2>5. Held \subseteq Pages
    BY <2>2, HeldIsMapped
  <2> QED
    BY <2>1, <2>2, <2>3, <2>4, <2>5 DEF TypeOK, UsersType
<1> QED
  BY <1>1, Inductive, PTL

(* malloc and malloc_pages give no page to two users, however often they    *)
(* raised between the two and whatever was freed: what an area reaches over *)
(* and what is linked to it are its own.                                    *)
THEOREM AreasCorrect == Spec => []AreasAreApart
<1>1. IInv => AreasAreApart
  <2> SUFFICES ASSUME IInv PROVE AreasAreApart
    OBVIOUS
  <2>1. /\ mgr \in MgrType /\ PagesInv(mgr) /\ LinkInv(mgr) /\ SizeInv(mgr) /\ IovaInv(mgr)
        /\ LentInv(mgr, lent)
    BY DEF IInv, MgrInv
  <2>2. /\ mgr.mapped \in SUBSET Pages /\ mgr.size \in [Pages -> Nat \ {0}]
        /\ mgr.inUse \in SUBSET Pages /\ mgr.pages \in Seq(Pages)
    BY <2>1, MgrFields
  <2>3. ASSUME NEW a \in Held
        PROVE  a \in Pages /\ a \in mgr.inUse /\ a \in mgr.listed /\ Root(mgr, a)
    BY <2>1, <2>2, HeldIsMapped DEF IovaInv, LinkInv
  <2>4. ASSUME NEW a \in Held PROVE Reach(a) \union Own(mgr, a) \subseteq Tree(mgr, a)
    <3>1. a \in Pages /\ a \in Nat
      BY <2>3, PagesAreNat
    <3>2. Beyond(mgr, a) \subseteq Tree(mgr, a) /\ a \in Tree(mgr, a)
          /\ mgr.linked[a] \subseteq Tree(mgr, a)
      BY <2>1, <3>1, TreeFacts DEF SizeInv
    <3> DEFINE k == PagesNeeded(mgr.size[a])
    <3>3. k \in Nat \ {0}
      BY <2>2, <3>1, PagesNeededFacts
    <3>4. Reach(a) = a .. a + k - 1 /\ Beyond(mgr, a) = a + 1 .. a + k - 1
      BY DEF Reach, Beyond
    <3> HIDE DEF k
    <3>5. Reach(a) \subseteq {a} \union Beyond(mgr, a)
      BY <3>1, <3>3, <3>4
    <3> QED
      BY <3>2, <3>5 DEF Own
  <2>5. ASSUME NEW a \in Held PROVE Reach(a) \union Own(mgr, a) \subseteq mgr.inUse \ lent
    <3>1. Tree(mgr, a) \subseteq {a} \union mgr.inUse
      BY <2>1, <2>3, TreeInUse
    <3>2. ASSUME NEW p \in lent PROVE p \notin Tree(mgr, a)
      <4>1. p \in Pages /\ p # a /\ Root(mgr, p)
        BY <2>1, <2>2, <2>3 DEF LentInv
      <4> QED
        BY <2>1, <2>3, <4>1, RootAlone
    <3> QED
      BY <2>3, <2>4, <3>1, <3>2
  <2>6. ASSUME NEW a \in Held, NEW b \in Held, a # b
        PROVE  (Reach(a) \union Own(mgr, a)) \cap (Reach(b) \union Own(mgr, b)) = {}
    <3>1. Tree(mgr, a) \cap Tree(mgr, b) = {}
      BY <2>1, <2>3, <2>6, TreesApart
    <3> QED
      BY <2>4, <3>1
  <2>7. ASSUME NEW p \in Held \union lent PROVE p \in Range(mgr.pages)
    <3>1. p \in mgr.inUse
      BY <2>1, <2>3 DEF LentInv
    <3>2. PICK i \in 1 .. Len(mgr.pages) : p = mgr.pages[i]
      BY <2>1, <3>1 DEF PagesInv
    <3> QED
      BY <2>2, <3>2 DEF Range
  <2> QED
    BY <2>5, <2>6, <2>7 DEF AreasAreApart
<1> QED
  BY <1>1, Inductive, PTL

(* The IOVA manager: an address leads to one area, and is free only when it *)
(* leads to none.                                                           *)
THEOREM IovasCorrect == Spec => []IovasAreOwn
<1>1. IInv => IovasAreOwn
  BY DEF IInv, MgrInv, IovaInv, IovasAreOwn
<1> QED
  BY <1>1, Inductive, PTL

(* free finds what is held in use, mapped and in malloc_mem.                *)
THEOREM FreeCorrect == Spec => []HeldCanBeFreed
<1>1. IInv => HeldCanBeFreed
  <2> SUFFICES ASSUME IInv, NEW a \in Held PROVE MayFree(mgr, a)
    BY DEF HeldCanBeFreed
  <2>1. mgr \in MgrType /\ LinkInv(mgr) /\ IovaInv(mgr)
    BY DEF IInv, MgrInv
  <2>2. a \in mgr.mapped /\ a \in mgr.listed /\ a \in mgr.inUse /\ a \in Pages
    BY <2>1, HeldIsMapped, MgrFields DEF IovaInv
  <2>3. mgr.linked[a] \subseteq mgr.inUse
    BY <2>1, <2>2 DEF LinkInv
  <2> QED
    BY <2>2, <2>3 DEF MayFree, Own
<1> QED
  BY <1>1, Inductive, PTL

-----------------------------------------------------------------------------
(***************************************************************************)
(* PRPs: how many pages there are, and that the loop over the list stops    *)
(* with the last of them.                                                   *)
(***************************************************************************)
LEMMA CeilFacts ==
    ASSUME NEW a \in Nat \ {0}, NEW b \in Nat \ {0}
    PROVE  /\ Ceil(a, b) \in Nat \ {0}
           /\ b * Ceil(a, b) - b < a /\ a <= b * Ceil(a, b)
<1> DEFINE x == a + b - 1
           q == x \div b
           r == x % b
<1>1. x \in Nat /\ x >= b
  OBVIOUS
<1>2. Ceil(a, b) = q
  BY DEF Ceil
<1>3. a = x - b + 1
  OBVIOUS
<1> HIDE DEF x
<1>4. q \in Nat /\ r \in 0 .. b - 1 /\ x = b * q + r
  BY <1>1, DivFacts
<1> HIDE DEF q, r
<1>5. q # 0
  BY <1>1, <1>4
<1>6. b * q \in Nat
  BY <1>4
<1> DEFINE y == b * q
<1>7. y \in Nat /\ x = y + r
  BY <1>4, <1>6
<1> HIDE DEF y
<1>8. y - b < a /\ a <= y
  BY <1>3, <1>4, <1>7
<1> QED
  BY <1>2, <1>4, <1>5, <1>8 DEF y

LEMMA DataPagesFacts ==
    ASSUME NEW prp \in PrpType
    PROVE  /\ DataPages(prp) \in Nat \ {0}
           /\ HasList(prp) <=> DataPages(prp) > 2
           /\ ~HasList(prp) => PrpPagesNeeded(prp) = DataPages(prp)
           /\ LoopEnds(prp) <=> Len(prp.list) + 1 >= DataPages(prp)
<1> DEFINE D == DataPages(prp)
           L == Len(prp.list)
           B == prp.bytes
           P == PageSize
<1>1. B \in Nat \ {0} /\ P \in Nat \ {0} /\ PrpsPerPage \in Nat \ {0} /\ L \in Nat
  <2>1. prp.bytes \in DataSizes /\ prp.list \in Seq(Iovas \union {NoIova})
    BY PrpFields
  <2>2. Len(prp.list) \in Nat
    BY <2>1
  <2> QED
    BY <2>1, <2>2, SizesAssumption, PageSizeAssumption, PrpsPerPageAssumption
<1>2. D = Ceil(B, P)
  BY DEF DataPages
<1>3. HasList(prp) <=> D + ListsNeeded(D) > 2
  BY DEF HasList, PrpPagesNeeded
<1>4. PrpPagesNeeded(prp) = D + ListsNeeded(D)
  BY DEF PrpPagesNeeded
<1>5. LoopEnds(prp) <=> L * P >= B - P
  BY DEF LoopEnds
<1> HIDE DEF D, L, B, P
<1>6. D \in Nat \ {0} /\ P * D - P < B /\ B <= P * D
  BY <1>1, <1>2, CeilFacts
<1>9. (HasList(prp) <=> D > 2) /\ (~HasList(prp) => PrpPagesNeeded(prp) = D)
  <2>1. CASE D > 2
    <3>1. D - 1 \in Nat \ {0}
      BY <1>6, <2>1
    <3>2. ListsNeeded(D) = Ceil(D - 1, PrpsPerPage)
      BY <2>1 DEF ListsNeeded
    <3>3. ListsNeeded(D) \in Nat \ {0}
      BY <1>1, <3>1, <3>2, CeilFacts
    <3> QED
      BY <1>3, <1>6, <2>1, <3>3
  <2>2. CASE ~(D > 2)
    <3>1. ListsNeeded(D) = 0
      BY <2>2 DEF ListsNeeded
    <3> QED
      BY <1>3, <1>4, <1>6, <2>2, <3>1
  <2> QED
    BY <2>1, <2>2
<1>10. L * P >= B - P <=> L + 1 >= D
  <2>1. CASE L + 1 >= D
    <3>1. L + 1 - D \in Nat /\ P * (L + 1 - D) \in Nat
      BY <1>1, <1>6, <2>1
    <3>2. L * P + P = P * D + P * (L + 1 - D)
      BY <1>1, <1>6
    <3>3. L * P \in Nat /\ P * D \in Nat
      BY <1>1, <1>6
    <3> DEFINE y == L * P
               z == P * D
               w == P * (L + 1 - D)
    <3>4. y \in Nat /\ z \in Nat /\ w \in Nat /\ y + P = z + w /\ B <= z
      BY <1>6, <3>1, <3>2, <3>3
    <3> HIDE DEF y, z, w
    <3>5. y >= B - P
      BY <1>1, <3>4
    <3> QED
      BY <2>1, <3>5 DEF y
  <2>2. CASE ~(L + 1 >= D)
    <3>1. D - 2 - L \in Nat /\ P * (D - 2 - L) \in Nat
      BY <1>1, <1>6, <2>2
    <3>2. L * P + P * (D - 2 - L) = P * D - P - P
      BY <1>1, <1>6
    <3>3. L * P \in Nat /\ P * D \in Nat
      BY <1>1, <1>6
    <3> DEFINE y == L * P
               z == P * D
               w == P * (D - 2 - L)
    <3>4. y \in Nat /\ z \in Nat /\ w \in Nat /\ y + w = z - P - P /\ z - P < B
      BY <1>6, <3>1, <3>2, <3>3
    <3> HIDE DEF y, z, w
    <3>5. ~(y >= B - P)
      BY <1>1, <3>4
    <3> QED
      BY <2>2, <3>5 DEF y
  <2> QED
    BY <2>1, <2>2
<1> QED
  BY <1>5, <1>6, <1>9, <1>10 DEF D, L

(* A PRP is filled with the IOVAs of its pages.                             *)
Filled(m, prp) ==
    /\ Len(prp.mems) >= 1 => prp.prp1 = m.iova[prp.mems[1]]
    /\ Len(prp.mems) >= 2 => prp.prp2 = m.iova[prp.mems[2]]
    /\ Len(prp.list) = IF Len(prp.mems) > 2 THEN Len(prp.mems) - 2 ELSE 0
    /\ \A i \in 1 .. Len(prp.list) : prp.list[i] = m.iova[prp.mems[i + 2]]
    /\ \A i \in 1 .. Len(prp.mems) :
         m.dir[prp.mems[i]] = IF HasList(prp) /\ i = 2 THEN "to device" ELSE prp.dir

(* The loop of alloc has not come to its end; and where it did.             *)
Unfinished(prp) ==
    IF HasList(prp) THEN Len(prp.list) + 1 < DataPages(prp) ELSE Len(prp.mems) < DataPages(prp)

Finished(prp) ==
    Len(prp.mems) = IF HasList(prp) THEN DataPages(prp) + 1 ELSE DataPages(prp)

PrpInv ==
    /\ building # NoPrp =>
         ~building.freed /\ Filled(mgr, building) /\ Unfinished(building)
    /\ \A c \in Prps : prps[c] # NoPrp /\ ~prps[c].freed =>
         Filled(mgr, prps[c]) /\ Finished(prps[c])

LEMMA FilledStays ==
    ASSUME NEW m, NEW r, NEW prp, Filled(m, prp), prp \in PrpType,
           \A p \in Range(prp.mems) : r.iova[p] = m.iova[p] /\ r.dir[p] = m.dir[p]
    PROVE  Filled(r, prp)
<1> DEFINE n == Len(prp.mems)
           l == Len(prp.list)
<1>1. prp.mems \in Seq(Pages) /\ prp.list \in Seq(Iovas \union {NoIova})
  BY PrpFields
<1>2. n \in Nat /\ l \in Nat /\ \A i \in 1 .. n : prp.mems[i] \in Range(prp.mems)
  BY <1>1 DEF Range
<1>3. /\ n >= 1 => prp.prp1 = m.iova[prp.mems[1]]
      /\ n >= 2 => prp.prp2 = m.iova[prp.mems[2]]
      /\ l = IF n > 2 THEN n - 2 ELSE 0
      /\ \A i \in 1 .. l : prp.list[i] = m.iova[prp.mems[i + 2]]
      /\ \A i \in 1 .. n :
           m.dir[prp.mems[i]] = IF HasList(prp) /\ i = 2 THEN "to device" ELSE prp.dir
  BY DEF Filled
<1> HIDE DEF n, l
<1>4. \A i \in 1 .. n : r.iova[prp.mems[i]] = m.iova[prp.mems[i]]
                        /\ r.dir[prp.mems[i]] = m.dir[prp.mems[i]]
  BY <1>2
<1>5. \A i \in 1 .. l : i + 2 \in 1 .. n
  <2>1. l = IF n > 2 THEN n - 2 ELSE 0
    BY <1>3
  <2>2. CASE n > 2
    BY <1>2, <2>1, <2>2
  <2>3. CASE ~(n > 2)
    BY <1>2, <2>1, <2>3
  <2> QED
    BY <2>2, <2>3
<1>6. /\ n >= 1 => prp.prp1 = r.iova[prp.mems[1]]
      /\ n >= 2 => prp.prp2 = r.iova[prp.mems[2]]
  <2>1. (n >= 1 => 1 \in 1 .. n) /\ (n >= 2 => 2 \in 1 .. n)
    BY <1>2
  <2> QED
    BY <1>3, <1>4, <2>1
<1>7. \A i \in 1 .. l : prp.list[i] = r.iova[prp.mems[i + 2]]
  BY <1>3, <1>4, <1>5
<1>8. \A i \in 1 .. n :
        r.dir[prp.mems[i]] = IF HasList(prp) /\ i = 2 THEN "to device" ELSE prp.dir
  BY <1>3, <1>4
<1> QED
  BY <1>3, <1>6, <1>7, <1>8 DEF Filled, n, l

LEMMA SameDataPages ==
    ASSUME NEW prp, NEW q, q.bytes = prp.bytes
    PROVE  DataPages(q) = DataPages(prp) /\ HasList(q) = HasList(prp)
           /\ PrpPagesNeeded(q) = PrpPagesNeeded(prp)
BY DEF DataPages, HasList, PrpPagesNeeded

LEMMA FilledGrows ==
    ASSUME NEW prp \in PrpType, NEW r \in MgrType, NEW p \in Pages, NEW clear \in BOOLEAN,
           Filled(r, prp), r.dir[p] = NextDirection(prp)
    PROVE  LET q == WithPage(prp, r, p, clear)
           IN  /\ Filled(r, q) /\ Len(q.mems) = Len(prp.mems) + 1
               /\ Len(q.list) = IF Len(prp.mems) < 2 THEN 0 ELSE Len(prp.list) + 1
<1> DEFINE q == WithPage(prp, r, p, clear)
           n == Len(prp.mems)
           l == Len(prp.list)
           hasList == HasList(prp)
<1>1. prp.mems \in Seq(Pages) /\ prp.list \in Seq(Iovas \union {NoIova})
  BY PrpFields
<1>2. r.iova[p] \in Iovas \union {NoIova}
  BY MgrFields
<1>3. /\ q \in PrpType /\ q.bytes = prp.bytes /\ q.dir = prp.dir
      /\ q.mems = Append(prp.mems, p)
      /\ q.prp1 = IF n + 1 = 1 THEN r.iova[p] ELSE prp.prp1
      /\ q.prp2 = IF n + 1 = 2 THEN r.iova[p] ELSE prp.prp2
      /\ q.list = IF n + 1 > 2 THEN Append(prp.list, r.iova[p]) ELSE prp.list
  BY WithPageFields
<1>4. HasList(q) = hasList
  BY <1>3, SameDataPages
<1>5. /\ Len(q.mems) = n + 1 /\ q.mems[n + 1] = p
      /\ \A i \in 1 .. n : q.mems[i] = prp.mems[i]
  BY <1>1, <1>3, AppendFacts
<1>6. n \in Nat /\ l \in Nat
  BY <1>1
<1>7. n + 1 > 2 => /\ Len(q.list) = l + 1 /\ q.list[l + 1] = r.iova[p]
                   /\ \A i \in 1 .. l : q.list[i] = prp.list[i]
  <2> SUFFICES ASSUME n + 1 > 2 PROVE /\ Len(q.list) = l + 1 /\ q.list[l + 1] = r.iova[p]
                                      /\ \A i \in 1 .. l : q.list[i] = prp.list[i]
    OBVIOUS
  <2>1. q.list = Append(prp.list, r.iova[p])
    BY <1>3
  <2> HIDE DEF q
  <2> QED
    BY <1>1, <1>2, <2>1
<1>8. ~(n + 1 > 2) => q.list = prp.list
  BY <1>3
<1>9. /\ n >= 1 => prp.prp1 = r.iova[prp.mems[1]]
      /\ n >= 2 => prp.prp2 = r.iova[prp.mems[2]]
      /\ l = IF n > 2 THEN n - 2 ELSE 0
      /\ \A i \in 1 .. l : prp.list[i] = r.iova[prp.mems[i + 2]]
      /\ \A i \in 1 .. n : r.dir[prp.mems[i]] = IF hasList /\ i = 2 THEN "to device" ELSE prp.dir
  BY DEF Filled
<1>10. r.dir[p] = IF hasList /\ n = 1 THEN "to device" ELSE prp.dir
  BY DEF NextDirection
<1> HIDE DEF q, n, l, hasList
<1>11. n > 2 => l = n - 2
  BY <1>9
<1>12. ~(n > 2) => l = 0
  BY <1>9
<1>13. q.prp1 = r.iova[q.mems[1]]
  <2>1. CASE n = 0
    BY <1>3, <1>5, <2>1
  <2>2. CASE n # 0
    <3>1. n >= 1 /\ 1 \in 1 .. n /\ ~(n + 1 = 1)
      BY <1>6, <2>2
    <3> QED
      BY <1>3, <1>5, <1>9, <3>1
  <2> QED
    BY <2>1, <2>2
<1>14. n + 1 >= 2 => q.prp2 = r.iova[q.mems[2]]
  <2>1. CASE n = 1
    BY <1>3, <1>5, <2>1
  <2>2. CASE n >= 2
    <3>1. 2 \in 1 .. n /\ ~(n + 1 = 2)
      BY <1>6, <2>2
    <3> QED
      BY <1>3, <1>5, <1>9, <2>2, <3>1
  <2> QED
    BY <1>6, <2>1, <2>2
<1>15. \A i \in 1 .. n + 1 :
         r.dir[q.mems[i]] = IF hasList /\ i = 2 THEN "to device" ELSE q.dir
  <2> SUFFICES ASSUME NEW i \in 1 .. n + 1
               PROVE  r.dir[q.mems[i]] = IF hasList /\ i = 2 THEN "to device" ELSE prp.dir
    BY <1>3
  <2>1. CASE i \in 1 .. n
    BY <1>5, <1>9, <2>1
  <2>2. CASE i = n + 1
    <3>1. q.mems[i] = p /\ (i = 2 <=> n = 1)
      BY <1>5, <1>6, <2>2
    <3> QED
      BY <1>10, <3>1
  <2>3. i \in 1 .. n \/ i = n + 1
    BY <1>6
  <2> QED
    BY <2>1, <2>2, <2>3
<1>15a. \A i \in 1 .. Len(q.mems) :
          r.dir[q.mems[i]] = IF HasList(q) /\ i = 2 THEN "to device" ELSE q.dir
  BY <1>4, <1>5, <1>15
<1>15b. Len(q.mems) >= 2 => q.prp2 = r.iova[q.mems[2]]
  BY <1>5, <1>14
<1>16. CASE n < 2
  <2>1. l = 0 /\ q.list = prp.list /\ Len(q.list) = 0
    BY <1>6, <1>8, <1>12, <1>16 DEF l
  <2>2. Len(q.list) = IF Len(q.mems) > 2 THEN Len(q.mems) - 2 ELSE 0
    BY <1>5, <1>6, <1>16, <2>1
  <2>3. \A i \in 1 .. Len(q.list) : q.list[i] = r.iova[q.mems[i + 2]]
    BY <2>1
  <2>4. Filled(r, q)
    BY <1>13, <1>15a, <1>15b, <2>2, <2>3 DEF Filled
  <2> QED
    BY <1>5, <1>16, <2>1, <2>4 DEF q, n, l
<1>17. CASE ~(n < 2)
  <2>1. n + 1 > 2 /\ l = n - 2
    BY <1>6, <1>11, <1>12, <1>17
  <2>2. /\ Len(q.list) = l + 1 /\ q.list[l + 1] = r.iova[p]
        /\ \A i \in 1 .. l : q.list[i] = prp.list[i]
    BY <1>7, <2>1
  <2>3. Len(q.list) = IF Len(q.mems) > 2 THEN Len(q.mems) - 2 ELSE 0
    BY <1>5, <1>6, <2>1, <2>2
  <2>4. ASSUME NEW i \in 1 .. Len(q.list) PROVE q.list[i] = r.iova[q.mems[i + 2]]
    <3>1. CASE i \in 1 .. l
      <4>1. i + 2 \in 1 .. n
        BY <1>6, <2>1, <3>1
      <4> QED
        BY <1>5, <1>9, <2>2, <3>1, <4>1
    <3>2. CASE i = l + 1
      <4>1. i + 2 = n + 1
        BY <1>6, <2>1, <3>2
      <4> QED
        BY <1>5, <2>2, <3>2, <4>1
    <3> QED
      BY <1>6, <2>2, <3>1, <3>2
  <2>5. Filled(r, q)
    BY <1>13, <1>15a, <1>15b, <2>3, <2>4 DEF Filled
  <2> QED
    BY <1>5, <1>17, <2>2, <2>5 DEF q, n, l
<1> QED
  BY <1>16, <1>17

LEMMA AllocEnds ==
    ASSUME NEW prp \in PrpType, NEW q \in PrpType, NEW m, Filled(m, prp), Unfinished(prp),
           q.bytes = prp.bytes, Len(q.mems) = Len(prp.mems) + 1,
           Len(q.list) = IF Len(prp.mems) < 2 THEN 0 ELSE Len(prp.list) + 1
    PROVE  (AllocReturns(q) => Finished(q)) /\ (~AllocReturns(q) => Unfinished(q))
<1> DEFINE n == Len(prp.mems)
           l == Len(prp.list)
           D == DataPages(prp)
           hasList == HasList(prp)
           nq == Len(q.mems)
           lq == Len(q.list)
<1>1. prp.mems \in Seq(Pages) /\ prp.list \in Seq(Iovas \union {NoIova})
  BY PrpFields
<1>2. n \in Nat /\ l \in Nat
  BY <1>1
<1>3. /\ D \in Nat \ {0} /\ (hasList <=> D > 2)
      /\ ~hasList => PrpPagesNeeded(q) = D
      /\ LoopEnds(q) <=> lq + 1 >= D
      /\ DataPages(q) = D /\ (HasList(q) <=> hasList)
  BY DataPagesFacts, SameDataPages
<1>4. l = IF n > 2 THEN n - 2 ELSE 0
  BY DEF Filled
<1>5. IF hasList THEN l + 1 < D ELSE n < D
  BY DEF Unfinished
<1>6. nq = n + 1 /\ lq = IF n < 2 THEN 0 ELSE l + 1
  OBVIOUS
<1>7. /\ hasList => (AllocReturns(q) <=> nq > 2 /\ lq + 1 >= D)
      /\ ~hasList => (AllocReturns(q) <=> nq = D)
  BY <1>3 DEF AllocReturns
<1>8. /\ hasList => (Finished(q) <=> nq = D + 1) /\ (Unfinished(q) <=> lq + 1 < D)
      /\ ~hasList => (Finished(q) <=> nq = D) /\ (Unfinished(q) <=> nq < D)
  BY <1>3 DEF Finished, Unfinished
<1> HIDE DEF n, l, D, hasList, nq, lq
<1>9. CASE hasList
  <2>1. D > 2 /\ l + 1 < D
    BY <1>3, <1>5, <1>9
  <2>2. CASE n < 2
    <3>1. lq = 0
      BY <1>6, <2>2
    <3>2. ~(nq > 2) /\ lq + 1 < D
      BY <1>2, <1>3, <1>6, <2>1, <2>2, <3>1
    <3> QED
      BY <1>7, <1>8, <1>9, <3>2
  <2>3. CASE n = 2
    <3>1. l = 0
      BY <1>4, <2>3
    <3>2. lq = 1
      BY <1>6, <2>3, <3>1
    <3>3. lq + 1 < D
      BY <1>3, <2>1, <3>2
    <3>4. ~(lq + 1 >= D)
      BY <1>3, <3>2, <3>3
    <3> QED
      BY <1>7, <1>8, <1>9, <3>3, <3>4
  <2>4. CASE n > 2
    <3>1. l = n - 2
      BY <1>4, <2>4
    <3>2. ~(n < 2)
      BY <1>2, <2>4
    <3>3. lq = l + 1
      BY <1>6, <3>2
    <3>4. lq + 1 >= D => nq = D + 1
      BY <1>2, <1>3, <1>6, <2>1, <3>1, <3>3
    <3>5. nq > 2 /\ (lq + 1 >= D \/ lq + 1 < D)
      BY <1>2, <1>3, <1>6, <2>4, <3>3
    <3> QED
      BY <1>7, <1>8, <1>9, <3>4, <3>5
  <2> QED
    BY <1>2, <2>2, <2>3, <2>4
<1>10. CASE ~hasList
  <2>1. n < D
    BY <1>5, <1>10
  <2>2. nq = D \/ nq < D
    BY <1>2, <1>3, <1>6, <2>1
  <2> QED
    BY <1>7, <1>8, <1>10, <2>2
<1> QED
  BY <1>9, <1>10

(* What is mapped stays as it is, except for what is freed.                 *)
LEMMA LivePrpsStay ==
    ASSUME IInv, PrpInv, NEW r, NEW F,
           \A p \in mgr.mapped \ F : r.iova[p] = mgr.iova[p] /\ r.dir[p] = mgr.dir[p],
           NEW c \in Prps, prps[c] # NoPrp, ~prps[c].freed, PrpMems(prps[c]) \cap F = {}
    PROVE  Filled(r, prps[c]) /\ Finished(prps[c])
<1>1. prps[c] \in PrpType
  BY DEF IInv, UsersType
<1>2. Filled(mgr, prps[c]) /\ Finished(prps[c])
  BY DEF PrpInv
<1>3. Range(prps[c].mems) \subseteq mgr.mapped \ F
  <2>1. MemsOf[c] \subseteq mgr.mapped
    BY DEF IInv, HeldInv, Apart
  <2> QED
    BY <2>1 DEF MemsOf, PrpMems
<1> QED
  BY <1>1, <1>2, <1>3, FilledStays

LEMMA ExtendsSteady ==
    ASSUME IInv, NEW r, Extends(mgr, r)
    PROVE  \A p \in mgr.mapped : r.iova[p] = mgr.iova[p] /\ r.dir[p] = mgr.dir[p]
BY DEF IInv, MgrInv, IovaInv, Extends

(* A call that gives the users of PRPs nothing.                             *)
LEMMA PrpInvElsewhere ==
    ASSUME IInv, PrpInv, prps' = prps, building' = NoPrp, Extends(mgr, mgr')
    PROVE  PrpInv'
<1>1. \A p \in mgr.mapped \ {} : mgr'.iova[p] = mgr.iova[p] /\ mgr'.dir[p] = mgr.dir[p]
  BY ExtendsSteady
<1>2. ASSUME NEW c \in Prps, prps[c] # NoPrp, ~prps[c].freed
      PROVE  Filled(mgr', prps[c]) /\ Finished(prps[c])
  <2> DEFINE F == {}
             r == mgr'
  <2>1. /\ \A p \in mgr.mapped \ F : r.iova[p] = mgr.iova[p] /\ r.dir[p] = mgr.dir[p]
        /\ PrpMems(prps[c]) \cap F = {}
    BY <1>1
  <2> HIDE DEF F, r
  <2>2. Filled(r, prps[c]) /\ Finished(prps[c])
    BY <1>2, <2>1, LivePrpsStay
  <2> QED
    BY <2>2 DEF r
<1> QED
  BY <1>2 DEF PrpInv, Finished, HasList, DataPages, PrpPagesNeeded

LEMMA PrpGrows ==
    ASSUME IInv, PrpInv, building # NoPrp,
           NEW r \in Malloc(mgr, PageSize, NextDirection(building)), r.mem # NoMem,
           NEW clear \in BOOLEAN
    PROVE  LET q == WithPage(building, r.mgr, r.mem, clear)
           IN  /\ Extends(mgr, r.mgr) /\ q.cmd = building.cmd /\ q \in PrpType
               /\ ~q.freed /\ Filled(r.mgr, q)
               /\ (AllocReturns(q) => Finished(q)) /\ (~AllocReturns(q) => Unfinished(q))
<1> DEFINE q == WithPage(building, r.mgr, r.mem, clear)
<1>1. building \in PrpType /\ PrpMems(building) \subseteq mgr.mapped
  BY DEF IInv, UsersType, HeldInv, Apart
<1>2. ~building.freed /\ Filled(mgr, building) /\ Unfinished(building)
  BY DEF PrpInv
<1>3. /\ MallocResult(mgr, r, PageSize, NextDirection(building))
      /\ MgrInv(r.mgr) /\ q \in PrpType /\ q.cmd = building.cmd
      /\ r.mem \in Pages
  BY MallocForPrp
<1>4. Extends(mgr, r.mgr)
  BY <1>3 DEF MallocResult
<1>5. r.mgr.dir[r.mem] = NextDirection(building)
  BY <1>3, MemIsNew DEF IInv
<1>6. \A p \in Range(building.mems) : r.mgr.iova[p] = mgr.iova[p] /\ r.mgr.dir[p] = mgr.dir[p]
  BY <1>1, <1>4, ExtendsSteady DEF PrpMems
<1>7. Filled(r.mgr, building)
  BY <1>1, <1>2, <1>6, FilledStays
<1>8. r.mgr \in MgrType
  BY <1>3 DEF MgrInv
<1>9. /\ Filled(r.mgr, q) /\ Len(q.mems) = Len(building.mems) + 1
      /\ Len(q.list) = IF Len(building.mems) < 2 THEN 0 ELSE Len(building.list) + 1
  BY <1>1, <1>3, <1>5, <1>7, <1>8, FilledGrows
<1>10. q.bytes = building.bytes /\ q.freed = building.freed
  BY <1>1, <1>3, <1>8, WithPageFields
<1> HIDE DEF q
<1>11. (AllocReturns(q) => Finished(q)) /\ (~AllocReturns(q) => Unfinished(q))
  BY <1>1, <1>2, <1>3, <1>9, <1>10, AllocEnds
<1> QED
  BY <1>2, <1>3, <1>4, <1>9, <1>10, <1>11 DEF q

LEMMA PrpInvInit == Init => PrpInv
BY DEF Init, PrpInv

LEMMA NewPrpFills ==
    ASSUME IInv, PrpInv, NEW c \in Prps, NEW bytes \in DataSizes, NEW dir \in DataDirs,
           NewPrp(c, bytes, dir)
    PROVE  PrpInv'
<1> DEFINE prp == [cmd |-> c, bytes |-> bytes, dir |-> dir, mems |-> <<>>,
                   prp1 |-> NoIova, prp2 |-> NoIova, list |-> <<>>,
                   stale |-> FALSE, freed |-> FALSE]
<1>1. building' = prp /\ UNCHANGED <<mgr, areas, lent, prps, spansFreed>>
  BY DEF NewPrp
<1>2. prp \in PrpType /\ prp.mems = <<>> /\ prp.list = <<>> /\ ~prp.freed
  BY DEF PrpType
<1> HIDE DEF prp
<1>3. DataPages(prp) \in Nat \ {0} /\ (HasList(prp) <=> DataPages(prp) > 2)
  BY <1>2, DataPagesFacts
<1>4. Len(prp.mems) = 0 /\ Len(prp.list) = 0
  BY <1>2
<1>5. Unfinished(prp)
  BY <1>3, <1>4 DEF Unfinished
<1>6. Filled(mgr, prp)
  BY <1>4 DEF Filled
<1>7. Filled(mgr, building)' /\ Unfinished(building)' /\ ~building'.freed
  BY <1>1, <1>2, <1>5, <1>6
<1>8. mgr' = mgr /\ prps' = prps
  BY <1>1
<1>9. \A d \in Prps : prps'[d] # NoPrp /\ ~prps'[d].freed =>
        Filled(mgr', prps'[d]) /\ Finished(prps'[d])
  BY <1>8 DEF PrpInv
<1> QED
  BY <1>7, <1>9 DEF PrpInv

LEMMA PrpPageFills ==
    ASSUME IInv, PrpInv, PrpPage
    PROVE  PrpInv'
<1>1. PICK r \in Malloc(mgr, PageSize, NextDirection(building)) :
        /\ r.mem # NoMem /\ mgr' = r.mgr
        /\ LET prp == WithPage(building, r.mgr, r.mem, r.mem \notin mgr.dirty)
           IN  ~AllocReturns(prp) /\ building' = prp
  BY DEF PrpPage
<1>2. building # NoPrp /\ UNCHANGED <<areas, lent, prps, spansFreed>>
  BY DEF PrpPage
<1> DEFINE q == WithPage(building, r.mgr, r.mem, r.mem \notin mgr.dirty)
<1>3. /\ Extends(mgr, mgr') /\ ~q.freed /\ Filled(mgr', q)
      /\ (~AllocReturns(q) => Unfinished(q))
  BY <1>1, <1>2, PrpGrows
<1>4. building' = q /\ ~AllocReturns(q)
  BY <1>1
<1> HIDE DEF q
<1> DEFINE F == {}
           m == mgr'
<1>5. \A p \in mgr.mapped \ F : m.iova[p] = mgr.iova[p] /\ m.dir[p] = mgr.dir[p]
  BY <1>3, ExtendsSteady
<1>6. \A c \in Prps : PrpMems(prps[c]) \cap F = {}
  OBVIOUS
<1> HIDE DEF F, m
<1>7. ASSUME NEW c \in Prps, prps[c] # NoPrp, ~prps[c].freed
      PROVE  Filled(m, prps[c]) /\ Finished(prps[c])
  BY <1>5, <1>6, <1>7, LivePrpsStay
<1>8. \A c \in Prps : prps'[c] # NoPrp /\ ~prps'[c].freed =>
        Filled(mgr', prps'[c]) /\ Finished(prps'[c])
  BY <1>2, <1>7 DEF m
<1>9. ~building'.freed /\ Filled(mgr', building') /\ Unfinished(building')
  BY <1>3, <1>4
<1> QED
  BY <1>8, <1>9 DEF PrpInv

LEMMA PrpLastPageFills ==
    ASSUME IInv, PrpInv, PrpLastPage
    PROVE  PrpInv'
<1>1. PICK r \in Malloc(mgr, PageSize, NextDirection(building)) :
        /\ r.mem # NoMem /\ mgr' = r.mgr
        /\ LET prp == WithPage(building, r.mgr, r.mem, r.mem \notin mgr.dirty)
           IN  AllocReturns(prp) /\ prps' = [prps EXCEPT ![prp.cmd] = prp]
  BY DEF PrpLastPage
<1>2. building # NoPrp /\ building' = NoPrp
  BY DEF PrpLastPage
<1> DEFINE q == WithPage(building, r.mgr, r.mem, r.mem \notin mgr.dirty)
<1>3. /\ Extends(mgr, mgr') /\ Filled(mgr', q) /\ q \in PrpType
      /\ (AllocReturns(q) => Finished(q))
  BY <1>1, <1>2, PrpGrows
<1>4. AllocReturns(q) /\ prps' = [prps EXCEPT ![q.cmd] = q]
  BY <1>1
<1> HIDE DEF q
<1> DEFINE F == {}
           m == mgr'
<1>5. \A p \in mgr.mapped \ F : m.iova[p] = mgr.iova[p] /\ m.dir[p] = mgr.dir[p]
  BY <1>3, ExtendsSteady
<1>6. \A c \in Prps : PrpMems(prps[c]) \cap F = {}
  OBVIOUS
<1> HIDE DEF F, m
<1>7. ASSUME NEW c \in Prps, prps[c] # NoPrp, ~prps[c].freed
      PROVE  Filled(m, prps[c]) /\ Finished(prps[c])
  BY <1>5, <1>6, <1>7, LivePrpsStay
<1>8. prps \in [Prps -> PrpType \union {NoPrp}]
  BY DEF IInv, UsersType
<1>9. \A c \in Prps : prps'[c] = IF c = q.cmd THEN q ELSE prps[c]
  BY <1>4, <1>8
<1>10. ASSUME NEW c \in Prps, prps'[c] # NoPrp, ~prps'[c].freed
       PROVE  Filled(mgr', prps'[c]) /\ Finished(prps'[c])
  <2>1. CASE c = q.cmd
    BY <1>3, <1>4, <1>9, <2>1
  <2>2. CASE c # q.cmd
    <3>1. prps'[c] = prps[c]
      BY <1>9, <2>2
    <3> QED
      BY <1>7, <1>10, <3>1 DEF m
  <2> QED
    BY <2>1, <2>2
<1> QED
  BY <1>2, <1>10 DEF PrpInv

LEMMA FreePrpsFills ==
    ASSUME IInv, PrpInv, NEW c \in Prps, FreePrps(c)
    PROVE  PrpInv'
<1> DEFINE mems == prps[c].mems
           as == Range(EveryOther(mems))
           prp == [prps[c] EXCEPT !.mems = Others(mems), !.freed = TRUE]
           m == mgr'
<1>1. /\ prps[c] # NoPrp /\ mgr' = FreeEach(mgr, as) /\ building' = NoPrp
  BY DEF FreePrps
<1>2. prps \in [Prps -> PrpType \union {NoPrp}]
  BY DEF IInv, UsersType
<1>3. prps[c] \in PrpType /\ mems \in Seq(Pages) /\ Distinct(mems)
  BY <1>1, <1>2, PrpFields DEF IInv, MemsDistinct
<1>4. prps' = [prps EXCEPT ![c] = prp]
  BY <1>2 DEF FreePrps
<1>5. prp.freed
  BY <1>3 DEF PrpType
<1>6. as \subseteq PrpMems(prps[c])
  BY <1>1, <1>3, OthersFacts DEF PrpMems
<1> HIDE DEF mems, as, prp
<1>7. Apart(mgr.mapped, areas, PrpMems(building), MemsOf) /\ MgrInv(mgr)
  BY DEF IInv, HeldInv
<1>8. as \in SUBSET mgr.mapped
  BY <1>6, <1>7 DEF Apart, MemsOf
<1>9. FreeResult(mgr, m, as)
  BY <1>1, <1>7, <1>8, FreeEachKeeps
<1> HIDE DEF m
<1>10. \A p \in mgr.mapped \ as : m.iova[p] = mgr.iova[p] /\ m.dir[p] = mgr.dir[p]
  BY <1>9 DEF FreeResult
<1>11. ASSUME NEW d \in Prps, prps'[d] # NoPrp, ~prps'[d].freed
       PROVE  Filled(m, prps'[d]) /\ Finished(prps'[d])
  <2>1. d # c
    BY <1>2, <1>4, <1>5, <1>11
  <2>2. prps'[d] = prps[d]
    BY <1>2, <1>4, <2>1
  <2>3. PrpMems(prps[d]) \cap as = {}
    BY <1>6, <1>7, <2>1 DEF Apart, MemsOf
  <2>4. prps[d] # NoPrp /\ ~prps[d].freed
    BY <1>11, <2>2
  <2> HIDE DEF as
  <2>5. Filled(m, prps[d]) /\ Finished(prps[d])
    BY <1>10, <2>3, <2>4, LivePrpsStay
  <2> QED
    BY <2>2, <2>5
<1> QED
  BY <1>1, <1>11 DEF PrpInv, m

LEMMA FreeAreaFills ==
    ASSUME IInv, PrpInv, NEW a \in areas, FreeArea(a)
    PROVE  PrpInv'
<1> DEFINE m == mgr'
           as == {a}
<1>1. mgr' = FreeEach(mgr, as) /\ building = NoPrp /\ UNCHANGED <<lent, prps, building>>
  BY DEF FreeArea
<1>2. Apart(mgr.mapped, areas, PrpMems(building), MemsOf) /\ MgrInv(mgr)
  BY DEF IInv, HeldInv
<1>3. as \in SUBSET mgr.mapped
  BY <1>2 DEF Apart
<1>4. \A d \in Prps : PrpMems(prps[d]) \cap as = {}
  BY <1>2 DEF Apart, MemsOf
<1> HIDE DEF as
<1>5. FreeResult(mgr, m, as)
  BY <1>1, <1>2, <1>3, FreeEachKeeps
<1> HIDE DEF m
<1>6. \A p \in mgr.mapped \ as : m.iova[p] = mgr.iova[p] /\ m.dir[p] = mgr.dir[p]
  BY <1>5 DEF FreeResult
<1>7. ASSUME NEW d \in Prps, prps[d] # NoPrp, ~prps[d].freed
      PROVE  Filled(m, prps[d]) /\ Finished(prps[d])
  BY <1>4, <1>6, <1>7, LivePrpsStay
<1>8. \A d \in Prps : prps'[d] # NoPrp /\ ~prps'[d].freed =>
        Filled(mgr', prps'[d]) /\ Finished(prps'[d])
  BY <1>1, <1>7 DEF m
<1> QED
  BY <1>1, <1>8 DEF PrpInv

LEMMA PrpInvNext == IInv /\ PrpInv /\ [Next]_vars => PrpInv'
<1> SUFFICES ASSUME IInv, PrpInv, [Next]_vars PROVE PrpInv'
  OBVIOUS
<1>1. CASE UNCHANGED vars
  <2>1. UNCHANGED <<mgr, prps, building>>
    BY <1>1 DEF vars
  <2> QED
    BY <2>1 DEF PrpInv
<1>2. ASSUME NEW c \in Prps, NEW bytes \in DataSizes, NEW dir \in DataDirs,
             NewPrp(c, bytes, dir)
      PROVE  PrpInv'
  BY <1>2, NewPrpFills
<1>3. CASE PrpPage
  BY <1>3, PrpPageFills
<1>4. CASE PrpLastPage
  BY <1>4, PrpLastPageFills
<1>5. CASE PrpRaises
  <2>1. PICK r \in Malloc(mgr, PageSize, NextDirection(building)) : mgr' = r.mgr
    BY <1>5 DEF PrpRaises
  <2>2. building' = NoPrp /\ prps' = prps
    BY <1>5 DEF PrpRaises
  <2>3. PageSize \in Nat
    BY PageSizeAssumption
  <2>4. Extends(mgr, mgr')
    BY <2>1, <2>3, MallocRaises
  <2> QED
    BY <2>2, <2>4, PrpInvElsewhere
<1>6. ASSUME NEW c \in Prps, FreePrps(c) PROVE PrpInv'
  BY <1>6, FreePrpsFills
<1>7. ASSUME NEW size \in AreaSizes, NEW dir \in AreaDirs, MallocArea(size, dir) PROVE PrpInv'
  <2>1. PICK r \in Malloc(mgr, size, dir) : mgr' = r.mgr
    BY <1>7 DEF MallocArea
  <2>2. building' = NoPrp /\ prps' = prps
    BY <1>7 DEF MallocArea
  <2>3. size \in Nat
    BY SizesAssumption
  <2>4. Extends(mgr, mgr')
    BY <2>1, <2>3, MallocRaises
  <2> QED
    BY <2>2, <2>4, PrpInvElsewhere
<1>8. ASSUME NEW n \in 1 .. MaxLent, BorrowPages(n) PROVE PrpInv'
  <2>1. PICK r \in MallocPages(mgr, n) : mgr' = r.mgr
    BY <1>8 DEF BorrowPages
  <2>2. building' = NoPrp /\ prps' = prps
    BY <1>8 DEF BorrowPages
  <2>3. n \in Nat
    BY DirsAssumption
  <2>4. Extends(mgr, mgr')
    BY <2>1, <2>3, MallocPagesKeeps DEF IInv, PagesResult
  <2> QED
    BY <2>2, <2>4, PrpInvElsewhere
<1>9. ASSUME NEW a \in areas, FreeArea(a) PROVE PrpInv'
  BY <1>9, FreeAreaFills
<1>10. CASE ReleaseAll
  BY <1>10 DEF ReleaseAll, PrpInv
<1> QED
  BY <1>1, <1>2, <1>3, <1>4, <1>5, <1>6, <1>7, <1>8, <1>9, <1>10 DEF Next

LEMMA PrpsFilled == Spec => []PrpInv
BY Inductive, PrpInvInit, PrpInvNext, PTL DEF Spec

(* An IOVA of a page that is mapped leads to that page.                     *)
LEMMA BehindIs ==
    ASSUME IInv, NEW p \in mgr.mapped, NEW dir, mgr.dir[p] = dir
    PROVE  Behind(mgr.iova[p], dir) = {p}
BY DEF IInv, MgrInv, IovaInv, Behind

(* The pages of the data and of the list of a live PRP.                     *)
LEMMA LiveFacts ==
    ASSUME IInv, PrpInv, NEW c \in LivePrps
    PROVE  LET prp == prps[c]
               n   == Len(prp.mems)
           IN  /\ prp \in PrpType /\ Filled(mgr, prp) /\ Distinct(prp.mems)
               /\ prp.mems \in Seq(Pages) /\ n \in Nat
               /\ DataPages(prp) \in Nat \ {0}
               /\ HasList(prp) <=> DataPages(prp) > 2
               /\ n = IF HasList(prp) THEN DataPages(prp) + 1 ELSE DataPages(prp)
               /\ \A i \in 1 .. n : prp.mems[i] \in mgr.mapped
<1> DEFINE prp == prps[c]
           n == Len(prp.mems)
<1>1. c \in Prps /\ prp # NoPrp /\ ~prp.freed
  BY DEF LivePrps
<1>2. prp \in PrpType /\ Distinct(prp.mems)
  BY <1>1 DEF IInv, UsersType, MemsDistinct
<1>3. Filled(mgr, prp) /\ Finished(prp)
  BY <1>1 DEF PrpInv
<1>4. prp.mems \in Seq(Pages)
  BY <1>2, PrpFields
<1>5. MemsOf[c] \subseteq mgr.mapped
  BY <1>1 DEF IInv, HeldInv, Apart
<1>6. Range(prp.mems) \subseteq mgr.mapped
  BY <1>1, <1>5 DEF MemsOf, PrpMems
<1>7. n \in Nat /\ \A i \in 1 .. n : prp.mems[i] \in mgr.mapped
  BY <1>4, <1>6 DEF Range
<1>8. DataPages(prp) \in Nat \ {0} /\ (HasList(prp) <=> DataPages(prp) > 2)
  BY <1>2, DataPagesFacts
<1> QED
  BY <1>2, <1>3, <1>4, <1>7, <1>8 DEF Finished

LEMMA ConcatFacts ==
    ASSUME NEW S, NEW a \in Seq(S), NEW b \in Seq(S)
    PROVE  /\ a \o b \in Seq(S) /\ Len(a \o b) = Len(a) + Len(b)
           /\ \A i \in 1 .. Len(a) : (a \o b)[i] = a[i]
           /\ \A i \in 1 .. Len(b) : (a \o b)[Len(a) + i] = b[i]
<1>1. a \o b \in Seq(S) /\ Len(a \o b) = Len(a) + Len(b)
  OBVIOUS
<1>2. \A i \in 1 .. Len(a) : (a \o b)[i] = a[i]
  OBVIOUS
<1>3. \A i \in 1 .. Len(b) : (a \o b)[Len(a) + i] = b[i]
  OBVIOUS
<1> QED
  BY <1>1, <1>2, <1>3

(* RemoveAt(s, 2): the first, and what comes after the second.              *)
LEMMA WithoutSecond ==
    ASSUME NEW s \in Seq(Pages), Len(s) > 2
    PROVE  /\ RemoveAt(s, 2) \in Seq(Pages) /\ Len(RemoveAt(s, 2)) = Len(s) - 1
           /\ \A i \in 1 .. Len(s) - 1 : RemoveAt(s, 2)[i] = IF i = 1 THEN s[1] ELSE s[i + 1]
<1> DEFINE n == Len(s)
           a == SubSeq(s, 1, 1)
           b == SubSeq(s, 3, n)
<1>1. n \in Nat /\ n > 2
  OBVIOUS
<1>2. a \in Seq(Pages) /\ Len(a) = 1 /\ a[1] = s[1]
  OBVIOUS
<1>3. b \in Seq(Pages) /\ Len(b) = n - 2 /\ \A i \in 1 .. n - 2 : b[i] = s[i + 2]
  OBVIOUS
<1>4. RemoveAt(s, 2) = a \o b
  BY DEF RemoveAt
<1> HIDE DEF n, a, b
<1>5. /\ a \o b \in Seq(Pages) /\ Len(a \o b) = n - 1
      /\ \A i \in 1 .. n - 1 : (a \o b)[i] = IF i <= 1 THEN a[i] ELSE b[i - 1]
  <2>0. a \in Seq(Pages) /\ b \in Seq(Pages)
    BY <1>2, <1>3
  <2>1. /\ a \o b \in Seq(Pages) /\ Len(a \o b) = Len(a) + Len(b)
        /\ \A i \in 1 .. Len(a) : (a \o b)[i] = a[i]
        /\ \A i \in 1 .. Len(b) : (a \o b)[Len(a) + i] = b[i]
    <3>1. a \o b \in Seq(Pages) /\ Len(a \o b) = Len(a) + Len(b)
      BY <2>0, ConcatFacts
    <3>2. \A i \in 1 .. Len(a) : (a \o b)[i] = a[i]
      BY <2>0, ConcatFacts
    <3>3. \A i \in 1 .. Len(b) : (a \o b)[Len(a) + i] = b[i]
      BY <2>0, ConcatFacts
    <3> QED
      BY <3>1, <3>2, <3>3
  <2> DEFINE t == a \o b
  <2>2. /\ t \in Seq(Pages) /\ Len(t) = n - 1 /\ t[1] = a[1]
        /\ \A i \in 1 .. n - 2 : t[1 + i] = b[i]
    BY <1>1, <1>2, <1>3, <2>1
  <2> HIDE DEF t
  <2>3. ASSUME NEW i \in 1 .. n - 1 PROVE t[i] = IF i <= 1 THEN a[i] ELSE b[i - 1]
    <3>1. CASE i = 1
      BY <2>2, <3>1
    <3>2. CASE i # 1
      <4>1. i - 1 \in 1 .. n - 2 /\ 1 + (i - 1) = i /\ ~(i <= 1)
        BY <1>1, <3>2
      <4>2. t[1 + (i - 1)] = b[i - 1]
        BY <2>2, <4>1
      <4> QED
        BY <4>1, <4>2
    <3> QED
      BY <3>1, <3>2
  <2> QED
    BY <2>2, <2>3 DEF t
<1>6. ASSUME NEW i \in 1 .. n - 1 PROVE (a \o b)[i] = IF i = 1 THEN s[1] ELSE s[i + 1]
  <2>1. CASE i = 1
    BY <1>1, <1>2, <1>5, <2>1
  <2>2. CASE i # 1
    <3>1. ~(i <= 1) /\ i - 1 \in 1 .. n - 2 /\ i - 1 + 2 = i + 1
      BY <1>1, <2>2
    <3>2. (a \o b)[i] = b[i - 1]
      BY <1>5, <3>1
    <3>3. b[i - 1] = s[i - 1 + 2]
      BY <1>3, <3>1
    <3> QED
      BY <2>2, <3>1, <3>2, <3>3
  <2> QED
    BY <2>1, <2>2
<1> QED
  BY <1>4, <1>5, <1>6 DEF n

(* The controller reaches the data of a live command, page by page and in   *)
(* its direction, and can read the list of a command that has one.          *)
THEOREM ControllerCorrect == Spec => []ControllerReachesData
<1>1. IInv /\ PrpInv => ControllerReachesData
  <2> SUFFICES ASSUME IInv, PrpInv, NEW c \in LivePrps
               PROVE  /\ Len(Reached(prps[c])) = DataPages(prps[c])
                      /\ Reached(prps[c]) =
                           [i \in 1 .. Len(DataMems(prps[c])) |-> {DataMems(prps[c])[i]}]
                      /\ HasList(prps[c]) =>
                           Behind(prps[c].prp2, "to device") = {prps[c].mems[2]}
    BY DEF ControllerReachesData
  <2> DEFINE prp == prps[c]
             mems == prp.mems
             n == Len(mems)
             D == DataPages(prp)
             hasList == HasList(prp)
             data == DataMems(prp)
             reached == Reached(prp)
             dir == prp.dir
  <2>1. /\ mems \in Seq(Pages) /\ n \in Nat /\ D \in Nat \ {0} /\ (hasList <=> D > 2)
        /\ n = IF hasList THEN D + 1 ELSE D
        /\ \A i \in 1 .. n : mems[i] \in mgr.mapped
        /\ prp \in PrpType /\ Filled(mgr, prp)
    BY LiveFacts
  <2>2. prp.list \in Seq(Iovas \union {NoIova})
    BY <2>1, PrpFields
  <2>3. /\ n >= 1 => prp.prp1 = mgr.iova[mems[1]]
        /\ n >= 2 => prp.prp2 = mgr.iova[mems[2]]
        /\ Len(prp.list) = IF n > 2 THEN n - 2 ELSE 0
        /\ \A i \in 1 .. Len(prp.list) : prp.list[i] = mgr.iova[mems[i + 2]]
        /\ \A i \in 1 .. n : mgr.dir[mems[i]] = IF hasList /\ i = 2 THEN "to device" ELSE dir
    BY <2>1 DEF Filled
  <2>4. ASSUME NEW i \in 1 .. n, ~(hasList /\ i = 2)
        PROVE  Behind(mgr.iova[mems[i]], dir) = {mems[i]}
    BY <2>1, <2>3, <2>4, BehindIs
  <2>5. CASE D = 1
    <3>1. ~hasList /\ n = 1
      BY <2>1, <2>5
    <3>2. data = mems
      BY <3>1 DEF DataMems
    <3>3. reached = [i \in 1 .. 1 |-> Behind(<<prp.prp1>>[i], dir)]
      BY <2>5 DEF Reached
    <3>4. Behind(prp.prp1, dir) = {mems[1]}
      BY <2>3, <2>4, <3>1
    <3>5. reached = [i \in 1 .. 1 |-> {mems[i]}]
      BY <3>3, <3>4
    <3> HIDE DEF data, reached, mems, D, hasList
    <3>6. Len(reached) = 1 /\ reached = [i \in 1 .. Len(data) |-> {data[i]}]
      <4>1. Len(data) = 1
        BY <3>1, <3>2
      <4>2. reached = [i \in 1 .. 1 |-> {data[i]}]
        BY <3>2, <3>5
      <4>3. Len(reached) = 1
        BY <4>2
      <4> QED
        BY <4>1, <4>2, <4>3
    <3> QED
      BY <2>5, <3>1, <3>6 DEF data, reached, D, hasList
  <2>6. CASE D = 2
    <3>1. ~hasList /\ n = 2
      BY <2>1, <2>6
    <3>2. data = mems
      BY <3>1 DEF DataMems
    <3>3. reached = [i \in 1 .. 2 |-> Behind(<<prp.prp1, prp.prp2>>[i], dir)]
      BY <2>6 DEF Reached
    <3>4. Behind(prp.prp1, dir) = {mems[1]} /\ Behind(prp.prp2, dir) = {mems[2]}
      BY <2>3, <2>4, <3>1
    <3>5. reached = [i \in 1 .. 2 |-> {mems[i]}]
      BY <3>3, <3>4
    <3> HIDE DEF data, reached, mems, D, hasList
    <3>6. Len(reached) = 2 /\ reached = [i \in 1 .. Len(data) |-> {data[i]}]
      <4>1. Len(data) = 2
        BY <3>1, <3>2
      <4>2. reached = [i \in 1 .. 2 |-> {data[i]}]
        BY <3>2, <3>5
      <4>3. Len(reached) = 2
        BY <4>2
      <4> QED
        BY <4>1, <4>2, <4>3
    <3> QED
      BY <2>6, <3>1, <3>6 DEF data, reached, D, hasList
  <2>7. CASE D > 2
    <3>1. hasList /\ n = D + 1 /\ n > 2 /\ 1 \in 1 .. n /\ 2 \in 1 .. n
      BY <2>1, <2>7
    <3>2. data = RemoveAt(mems, 2)
      BY <3>1 DEF DataMems
    <3> DEFINE list == prp.list
               first == <<prp.prp1>>
               s == first \o list
    <3>4. reached = [i \in 1 .. Len(s) |-> Behind(s[i], dir)]
      BY <2>7 DEF Reached
    <3>2a. /\ prp.prp1 = mgr.iova[mems[1]] /\ prp.prp2 = mgr.iova[mems[2]]
           /\ \A i \in 1 .. Len(list) : list[i] = mgr.iova[mems[i + 2]]
           /\ mgr.dir[mems[2]] = "to device"
      <4>1. mgr.dir[mems[2]] = IF hasList /\ 2 = 2 THEN "to device" ELSE dir
        BY <2>3, <3>1
      <4>2. n >= 1 /\ n >= 2
        BY <2>1, <3>1
      <4>3. prp.prp1 = mgr.iova[mems[1]] /\ prp.prp2 = mgr.iova[mems[2]]
        BY <2>3, <4>2
      <4>4. \A i \in 1 .. Len(list) : list[i] = mgr.iova[mems[i + 2]]
        BY <2>3
      <4> QED
        BY <3>1, <4>1, <4>3, <4>4
    <3>2b. \A i \in 1 .. n : i # 2 => Behind(mgr.iova[mems[i]], dir) = {mems[i]}
      BY <2>4
    <3>2c. mems[2] \in mgr.mapped
      BY <2>1, <3>1
    <3>2d. first \in Seq(Iovas \union {NoIova}) /\ Len(first) = 1 /\ first[1] = prp.prp1
      BY <2>1, PrpFields
    <3> HIDE DEF data, reached, D, dir, hasList, list, n
    <3>2e. Len(mems) = n /\ Len(list) = IF n > 2 THEN n - 2 ELSE 0
      BY <2>3 DEF n, list
    <3>3. /\ data \in Seq(Pages) /\ Len(data) = Len(mems) - 1
          /\ \A i \in 1 .. Len(mems) - 1 : data[i] = IF i = 1 THEN mems[1] ELSE mems[i + 1]
      <4> HIDE DEF mems
      <4>1. Len(mems) > 2
        BY <3>1, <3>2e
      <4> QED
        BY <2>1, <3>2, <4>1, WithoutSecond
    <3> HIDE DEF mems
    <3>5. Len(list) = D - 1 /\ Len(data) = D
      BY <2>1, <3>1, <3>2e, <3>3
    <3>6. /\ Len(s) = D /\ s[1] = prp.prp1
          /\ \A i \in 1 .. D - 1 : s[1 + i] = list[i]
      <4>1. /\ Len(s) = Len(first) + Len(list)
            /\ \A i \in 1 .. Len(first) : s[i] = first[i]
            /\ \A i \in 1 .. Len(list) : s[Len(first) + i] = list[i]
        BY <2>2, <3>2d, ConcatFacts DEF list
      <4> HIDE DEF s, first
      <4> QED
        BY <2>1, <3>2d, <3>5, <4>1
    <3> HIDE DEF s, first
    <3>7. ASSUME NEW i \in 1 .. D PROVE Behind(s[i], dir) = {data[i]}
      <4>1. CASE i = 1
        <5>1. s[i] = mgr.iova[mems[1]]
          BY <3>2a, <3>6, <4>1
        <5>2. data[i] = mems[1]
          BY <2>1, <3>1, <3>2e, <3>3, <4>1
        <5>3. Behind(mgr.iova[mems[1]], dir) = {mems[1]}
          BY <3>1, <3>2b
        <5> QED
          BY <5>1, <5>2, <5>3
      <4>2. CASE i # 1
        <5>1. /\ i - 1 \in 1 .. D - 1 /\ i - 1 + 2 = i + 1 /\ 1 + (i - 1) = i
              /\ i + 1 \in 1 .. n /\ i + 1 # 2 /\ i \in 1 .. Len(mems) - 1
          BY <2>1, <3>1, <3>2e, <4>2
        <5>2. data[i] = mems[i + 1]
          BY <3>3, <4>2, <5>1
        <5>3. s[1 + (i - 1)] = list[i - 1]
          BY <3>6, <5>1
        <5>4. list[i - 1] = mgr.iova[mems[i - 1 + 2]]
          BY <3>2a, <3>5, <5>1
        <5>5. Behind(mgr.iova[mems[i + 1]], dir) = {mems[i + 1]}
          BY <3>2b, <5>1
        <5> QED
          BY <5>1, <5>2, <5>3, <5>4, <5>5
      <4> QED
        BY <4>1, <4>2
    <3>8. reached = [i \in 1 .. D |-> {data[i]}]
      BY <3>4, <3>6, <3>7
    <3>9. Behind(prp.prp2, "to device") = {mems[2]}
      <4> QED
        BY <3>2a, <3>2c, BehindIs
    <3>10. Len(reached) = D
      BY <2>1, <3>8
    <3>11. reached = [i \in 1 .. Len(data) |-> {data[i]}]
      BY <3>5, <3>8
    <3> QED
      BY <3>9, <3>10, <3>11 DEF data, reached, D, mems
  <2>8. D = 1 \/ D = 2 \/ D > 2
    BY <2>1
  <2> HIDE DEF D
  <2> QED
    BY <2>5, <2>6, <2>7, <2>8 DEF D
<1> QED
  BY <1>1, Inductive, PrpsFilled, PTL

-----------------------------------------------------------------------------
(***************************************************************************)
(* Clear pages.  As long as nothing but single pages is freed one by one,   *)
(* what is not clear is in use: a page that was handed out, or one that an  *)
(* area reaches.  Sizes must be whole pages, or less than one: malloc       *)
(* rounds the pages of other sizes down, and their user writes to the page  *)
(* after the area.                                                          *)
(***************************************************************************)
WholeSizes == \A size \in AreaSizes : size <= PageSize \/ size % PageSize = 0

Covered(m, given) ==
    \A p \in m.dirty : p \in given \/ \E a \in m.mapped : p = a \/ p \in Beyond(m, a)

CleanInv ==
    /\ \A a \in mgr.mapped \ areas : mgr.size[a] = PageSize
    /\ ~spansFreed =>
         /\ Covered(mgr, lent)
         /\ building # NoPrp => ~building.stale
         /\ \A c \in Prps : prps[c] # NoPrp => ~prps[c].stale

LEMMA TouchedIs ==
    ASSUME NEW a \in Nat, NEW d \in Nat \ {0}
    PROVE  /\ Touched(a, d * PageSize) = a .. a + d - 1
           /\ PagesNeeded(d * PageSize) = d
<1> DEFINE P == PageSize
           x == d * P - 1
           q == x \div P
           r == x % P
<1>1. P \in Nat \ {0}
  BY PageSizeAssumption
<1> HIDE DEF P
<1>2. d * P \in Nat \ {0} /\ x \in Nat /\ x = P * (d - 1) + (P - 1)
  <2>1. d - 1 \in Nat /\ (d - 1) * P \in Nat /\ d * P = (d - 1) * P + P
    BY <1>1
  <2>2. (d - 1) * P = P * (d - 1)
    BY <1>1
  <2> DEFINE y == d * P
             z == (d - 1) * P
  <2>3. z \in Nat /\ y = z + P /\ z = P * (d - 1)
    BY <2>1, <2>2
  <2> HIDE DEF y, z
  <2>4. y \in Nat \ {0} /\ y - 1 \in Nat /\ y - 1 = z + (P - 1)
    BY <1>1, <2>3
  <2> QED
    BY <2>3, <2>4 DEF y
<1>3. q \in Nat /\ r \in 0 .. P - 1 /\ x = P * q + r
  BY <1>1, <1>2, DivFacts
<1>4. Touched(a, d * PageSize) = a .. a + q
  BY DEF Touched, P
<1> HIDE DEF x, q, r
<1>5. q = d - 1
  <2>1. P * q + r = P * (d - 1) + (P - 1) /\ P - 1 \in 0 .. P - 1 /\ d - 1 \in Int /\ q \in Int
    BY <1>1, <1>2, <1>3
  <2> DEFINE t == P - 1
             k == d - 1
  <2>2. P * q + r = P * k + t /\ t \in 0 .. P - 1 /\ k \in Int /\ q \in Int
    BY <2>1
  <2> HIDE DEF t, k
  <2>3. q = k
    BY <1>1, <1>3, <2>2, MulUnique
  <2> QED
    BY <2>3 DEF k
<1>6. PagesNeeded(d * PageSize) = d
  <2> DEFINE z == d * PageSize
  <2>1. z \in Nat /\ z = d * PageSize
    BY <1>2 DEF P
  <2> HIDE DEF z
  <2>2. PagesNeeded(z) = d
    BY <2>1, PagesNeededFacts
  <2> QED
    BY <2>2 DEF z
<1> QED
  BY <1>4, <1>5, <1>6

LEMMA WholeSizeIs ==
    ASSUME WholeSizes, NEW size \in AreaSizes
    PROVE  \E d \in Nat \ {0} : WholeSize(size) = d * PageSize
<1>1. size \in Nat \ {0} /\ PageSize \in Nat \ {0}
  BY SizesAssumption, PageSizeAssumption
<1>2. WholeSize(size) \in {size, PageSize} /\ WholeSize(size) >= size /\ WholeSize(size) >= PageSize
  BY <1>1, MaxPair DEF WholeSize
<1>3. CASE size <= PageSize
  <2>1. WholeSize(size) = 1 * PageSize
    BY <1>1, <1>2, <1>3
  <2> QED
    BY <2>1
<1>4. CASE size > PageSize /\ size % PageSize = 0
  <2> DEFINE q == size \div PageSize
             r == size % PageSize
  <2>1. q \in Nat /\ size = PageSize * q + r
    BY <1>1, DivFacts
  <2>2. r = 0
    BY <1>4
  <2> HIDE DEF q, r
  <2>3. size = q * PageSize /\ q # 0
    BY <1>1, <2>1, <2>2
  <2>4. WholeSize(size) = size
    BY <1>1, <1>2, <1>4
  <2> QED
    BY <2>1, <2>3, <2>4
<1> QED
  BY <1>1, <1>3, <1>4 DEF WholeSizes

LEMMA SameBeyond ==
    ASSUME NEW m, NEW r, NEW a, r.size[a] = m.size[a]
    PROVE  Beyond(r, a) = Beyond(m, a)
BY DEF Beyond

LEMMA CoveredExtends ==
    ASSUME NEW m, NEW r, NEW given, MgrInv(m), Extends(m, r), Covered(m, given), NEW p \in m.dirty
    PROVE  p \in given \/ \E a \in r.mapped : p = a \/ p \in Beyond(r, a)
<1>1. \A a \in m.mapped : a \in r.mapped /\ r.size[a] = m.size[a]
  BY DEF MgrInv, IovaInv, Extends
<1>2. \A a \in m.mapped : Beyond(r, a) = Beyond(m, a)
  BY <1>1, SameBeyond
<1> QED
  BY <1>1, <1>2 DEF Covered

LEMMA CoveredMalloc ==
    ASSUME NEW m, NEW r, NEW given, NEW d \in Nat \ {0}, NEW dir, MgrInv(m), Covered(m, given),
           MallocResult(m, r, d * PageSize, dir)
    PROVE  Covered(r.mgr, given)
<1>1. Extends(m, r.mgr)
  BY DEF MallocResult
<1>2. \A p \in m.dirty : p \in given \/ \E a \in r.mgr.mapped : p = a \/ p \in Beyond(r.mgr, a)
  BY <1>1, CoveredExtends
<1>3. CASE r.mgr.dirty = m.dirty
  BY <1>2, <1>3 DEF Covered
<1>4. CASE ~(r.mgr.dirty = m.dirty)
  <2>1. /\ r.mem \in Pages /\ r.mgr.mapped = m.mapped \union {r.mem}
        /\ r.mgr.dirty = m.dirty \union Touched(r.mem, d * PageSize)
        /\ r.mgr.size[r.mem] = d * PageSize
    BY <1>4 DEF MallocResult
  <2>2. r.mem \in Nat
    BY <2>1, PagesAreNat
  <2>3. Touched(r.mem, d * PageSize) = r.mem .. r.mem + d - 1 /\ PagesNeeded(d * PageSize) = d
    BY <2>2, TouchedIs
  <2>4. Beyond(r.mgr, r.mem) = r.mem + 1 .. r.mem + d - 1
    BY <2>1, <2>3 DEF Beyond
  <2>5. ASSUME NEW p \in Touched(r.mem, d * PageSize)
        PROVE  \E a \in r.mgr.mapped : p = a \/ p \in Beyond(r.mgr, a)
    <3>1. r.mem \in r.mgr.mapped
      BY <2>1
    <3>2. p = r.mem \/ p \in r.mem + 1 .. r.mem + d - 1
      BY <2>2, <2>3, <2>5
    <3> QED
      BY <2>4, <3>1, <3>2
  <2> QED
    BY <1>2, <2>1, <2>5 DEF Covered
<1> QED
  BY <1>3, <1>4

LEMMA CoveredFree ==
    ASSUME NEW m, NEW r, NEW given, NEW as \in SUBSET m.mapped, Covered(m, given),
           FreeResult(m, r, as), \A a \in as : Beyond(m, a) = {}
    PROVE  Covered(r, given)
<1>1. /\ r.mapped = m.mapped \ as /\ r.dirty = m.dirty \ as
      /\ \A a \in m.mapped \ as : r.size[a] = m.size[a]
  BY DEF FreeResult
<1>2. \A a \in m.mapped \ as : Beyond(r, a) = Beyond(m, a)
  BY <1>1, SameBeyond
<1> SUFFICES ASSUME NEW p \in r.dirty, p \notin given
             PROVE  \E a \in r.mapped : p = a \/ p \in Beyond(r, a)
  BY DEF Covered
<1>3. PICK a \in m.mapped : p = a \/ p \in Beyond(m, a)
  BY <1>1 DEF Covered
<1>4. a \notin as
  BY <1>1, <1>3
<1> QED
  BY <1>1, <1>2, <1>3, <1>4

LEMMA CoveredIsInUse ==
    ASSUME NEW m, NEW given, MgrInv(m), LentInv(m, given), Covered(m, given)
    PROVE  m.dirty \subseteq m.inUse
<1>1. m \in MgrType /\ LinkInv(m) /\ SizeInv(m) /\ IovaInv(m)
  BY DEF MgrInv
<1>2. ASSUME NEW a \in m.mapped PROVE a \in m.inUse /\ Beyond(m, a) \subseteq m.inUse
  <2>1. a \in m.inUse /\ a \in Pages
    BY <1>1, MgrFields DEF IovaInv
  <2>2. Beyond(m, a) \subseteq Tree(m, a) /\ Tree(m, a) \subseteq {a} \union m.inUse
    BY <1>1, <2>1, TreeInUse DEF SizeInv
  <2> QED
    BY <2>1, <2>2
<1> QED
  BY <1>2 DEF Covered, LentInv

LEMMA CleanInit == Init => CleanInv
<1> SUFFICES ASSUME Init PROVE CleanInv
  OBVIOUS
<1>1. PICK hps \in Answers(NewPageMgr, 1) : mgr = WithHugePages(NewPageMgr, hps)
  BY DEF Init
<1>2. MgrInv(NewPageMgr)
  BY NewIsTyped, UnusedIsCorrect
<1>3. mgr.mapped = {} /\ mgr.dirty = {}
  BY <1>1, <1>2, NewIsTyped, WithHugePagesKeeps
<1>4. prps = [c \in Prps |-> NoPrp] /\ building = NoPrp
  BY DEF Init
<1> QED
  BY <1>3, <1>4 DEF CleanInv, Covered

(* Sizes after a call that gave nothing back.                               *)
LEMMA SizesExtend ==
    ASSUME IInv, CleanInv, NEW r, Extends(mgr, r)
    PROVE  \A a \in mgr.mapped \ areas : r.size[a] = PageSize
<1>1. \A a \in mgr.mapped : r.size[a] = mgr.size[a]
  BY DEF IInv, MgrInv, IovaInv, Extends
<1> QED
  BY <1>1 DEF CleanInv

(* A page for a PRP is clear.                                               *)
LEMMA CleanPrpPage ==
    ASSUME IInv, CleanInv, building # NoPrp,
           NEW r \in Malloc(mgr, PageSize, NextDirection(building)), r.mem # NoMem
    PROVE  LET q == WithPage(building, r.mgr, r.mem, r.mem \notin mgr.dirty)
           IN  /\ \A a \in r.mgr.mapped \ areas : r.mgr.size[a] = PageSize
               /\ ~spansFreed => Covered(r.mgr, lent) /\ ~q.stale
<1> DEFINE clear == r.mem \notin mgr.dirty
           q == WithPage(building, r.mgr, r.mem, clear)
           dir == NextDirection(building)
<1>1. building \in PrpType /\ MgrInv(mgr) /\ LentInv(mgr, lent)
  BY DEF IInv, UsersType
<1>2. MallocResult(mgr, r, PageSize, dir) /\ r.mgr \in MgrType /\ r.mem \in Pages
  BY MallocForPrp DEF MgrInv
<1> HIDE DEF dir
<1>3. /\ r.mem \notin mgr.inUse /\ r.mgr.mapped = mgr.mapped \union {r.mem}
      /\ r.mgr.size[r.mem] = PageSize
  BY <1>1, <1>2, MemIsNew
<1>4. \A a \in r.mgr.mapped \ areas : r.mgr.size[a] = PageSize
  BY <1>2, <1>3, SizesExtend DEF MallocResult
<1>5. ASSUME ~spansFreed PROVE Covered(r.mgr, lent) /\ ~q.stale
  <2>1. Covered(mgr, lent) /\ ~building.stale
    BY <1>5 DEF CleanInv
  <2>2. 1 * PageSize = PageSize
    BY PageSizeAssumption
  <2>3. Covered(r.mgr, lent)
    BY <1>1, <1>2, <2>1, <2>2, CoveredMalloc
  <2>4. clear
    BY <1>1, <1>3, <2>1, CoveredIsInUse
  <2>5. clear \in BOOLEAN
    OBVIOUS
  <2> HIDE DEF clear
  <2>6. q.stale = (building.stale \/
          (HasList(building) /\ Len(building.mems) + 1 = 2 /\ ~clear))
    BY <1>1, <1>2, <2>5, WithPageFields
  <2> HIDE DEF q
  <2> QED
    BY <2>1, <2>3, <2>4, <2>6
<1> QED
  BY <1>4, <1>5

(* Sizes and what is covered, with the users of PRPs as they were.          *)
LEMMA CleanStays ==
    ASSUME CleanInv, prps' = prps, building' = building \/ building' = NoPrp,
           spansFreed' = spansFreed,
           \A a \in mgr'.mapped \ areas' : mgr'.size[a] = PageSize,
           ~spansFreed => Covered(mgr', lent')
    PROVE  CleanInv'
BY DEF CleanInv, Covered

LEMMA CleanRaises ==
    ASSUME IInv, CleanInv, NEW d \in Nat \ {0}, NEW dir, NEW r,
           MallocResult(mgr, r, d * PageSize, dir)
    PROVE  /\ ~spansFreed => Covered(r.mgr, lent)
           /\ \A a \in r.mgr.mapped \ areas : a # r.mem => r.mgr.size[a] = PageSize
<1>1. Extends(mgr, r.mgr) /\ MgrInv(mgr)
  BY DEF MallocResult, IInv
<1>2. r.mgr.mapped \subseteq mgr.mapped \union {r.mem}
  BY DEF MallocResult
<1>3. \A a \in mgr.mapped \ areas : r.mgr.size[a] = PageSize
  BY <1>1, SizesExtend
<1>4. ~spansFreed => Covered(r.mgr, lent)
  BY <1>1, CoveredMalloc DEF CleanInv
<1> QED
  BY <1>2, <1>3, <1>4

LEMMA SingleHasNothingBeyond ==
    ASSUME NEW m, MgrInv(m), NEW a \in m.mapped, Own(m, a) = {a}
    PROVE  Beyond(m, a) = {}
<1>1. m \in MgrType /\ SizeInv(m) /\ a \in Pages /\ a \in Nat
  BY MgrFields, PagesAreNat DEF MgrInv
<1> DEFINE W == {a}
<1>2. W \in SUBSET Pages /\ a \in W /\ Closed(m, W)
  BY <1>1 DEF Closed, Own
<1> HIDE DEF W
<1>3. Tree(m, a) \subseteq W
  BY <1>2 DEF Tree
<1>4. Beyond(m, a) \subseteq W
  BY <1>1, <1>3 DEF SizeInv
<1> DEFINE k == PagesNeeded(m.size[a])
<1>5. Beyond(m, a) = a + 1 .. a + k - 1
  BY DEF Beyond
<1>6. k \in Nat
  BY <1>1, MgrFields, PagesNeededFacts
<1> HIDE DEF k
<1>7. a \notin Beyond(m, a)
  BY <1>1, <1>5, <1>6
<1> QED
  BY <1>4, <1>7 DEF W

LEMMA NoMemIsNoPage == NoMem \notin Pages
BY NoMemAssumption, PagesAreNat

LEMMA CleanNext == WholeSizes /\ IInv /\ CleanInv /\ [Next]_vars => CleanInv'
<1> SUFFICES ASSUME WholeSizes, IInv, CleanInv, [Next]_vars PROVE CleanInv'
  OBVIOUS
<1>0. /\ MgrInv(mgr) /\ prps \in [Prps -> PrpType \union {NoPrp}]
      /\ Apart(mgr.mapped, areas, PrpMems(building), MemsOf)
  BY DEF IInv, UsersType, HeldInv
<1>1. CASE UNCHANGED vars
  <2>1. UNCHANGED <<mgr, areas, lent, prps, building, spansFreed>>
    BY <1>1 DEF vars
  <2> QED
    BY <2>1 DEF CleanInv, Covered
<1>2. ASSUME NEW c \in Prps, NEW bytes \in DataSizes, NEW dir \in DataDirs,
             NewPrp(c, bytes, dir)
      PROVE  CleanInv'
  <2>1. ~building'.stale /\ UNCHANGED <<mgr, areas, lent, prps, spansFreed>>
    BY <1>2 DEF NewPrp
  <2> QED
    BY <2>1 DEF CleanInv, Covered
<1>3. CASE PrpPage
  <2>1. PICK r \in Malloc(mgr, PageSize, NextDirection(building)) :
          /\ r.mem # NoMem /\ mgr' = r.mgr
          /\ building' = WithPage(building, r.mgr, r.mem, r.mem \notin mgr.dirty)
    BY <1>3 DEF PrpPage
  <2>2. building # NoPrp /\ UNCHANGED <<areas, lent, prps, spansFreed>>
    BY <1>3 DEF PrpPage
  <2>3. /\ \A a \in mgr'.mapped \ areas : mgr'.size[a] = PageSize
        /\ ~spansFreed => Covered(mgr', lent) /\ ~building'.stale
    BY <2>1, <2>2, CleanPrpPage
  <2> QED
    BY <2>2, <2>3 DEF CleanInv, Covered
<1>4. CASE PrpLastPage
  <2>1. PICK r \in Malloc(mgr, PageSize, NextDirection(building)) :
          /\ r.mem # NoMem /\ mgr' = r.mgr
          /\ LET prp == WithPage(building, r.mgr, r.mem, r.mem \notin mgr.dirty)
             IN  prps' = [prps EXCEPT ![prp.cmd] = prp]
    BY <1>4 DEF PrpLastPage
  <2>2. building # NoPrp /\ building' = NoPrp /\ UNCHANGED <<areas, lent, spansFreed>>
    BY <1>4 DEF PrpLastPage
  <2> DEFINE q == WithPage(building, r.mgr, r.mem, r.mem \notin mgr.dirty)
  <2>3. /\ \A a \in mgr'.mapped \ areas : mgr'.size[a] = PageSize
        /\ ~spansFreed => Covered(mgr', lent) /\ ~q.stale
    BY <2>1, <2>2, CleanPrpPage
  <2>4. prps' = [prps EXCEPT ![q.cmd] = q]
    BY <2>1
  <2> HIDE DEF q
  <2>5. \A c \in Prps : prps'[c] = IF c = q.cmd THEN q ELSE prps[c]
    BY <1>0, <2>4
  <2>6. ASSUME ~spansFreed, NEW c \in Prps, prps'[c] # NoPrp PROVE ~prps'[c].stale
    <3>1. CASE c = q.cmd
      BY <2>3, <2>5, <2>6, <3>1
    <3>2. CASE c # q.cmd
      BY <2>5, <2>6, <3>2 DEF CleanInv
    <3> QED
      BY <3>1, <3>2
  <2> QED
    BY <2>2, <2>3, <2>6 DEF CleanInv, Covered
<1>5. CASE PrpRaises
  <2>1. PICK r \in Malloc(mgr, PageSize, NextDirection(building)) : mgr' = r.mgr
    BY <1>5 DEF PrpRaises
  <2>2. building # NoPrp /\ building' = NoPrp /\ UNCHANGED <<areas, lent, prps, spansFreed>>
    BY <1>5 DEF PrpRaises
  <2>3. /\ \A a \in mgr'.mapped \ areas : mgr'.size[a] = PageSize
        /\ ~spansFreed => Covered(mgr', lent)
    <3>1. CASE r.mem # NoMem
      BY <2>1, <2>2, <3>1, CleanPrpPage
    <3>2. CASE r.mem = NoMem
      <4> DEFINE dir == NextDirection(building)
      <4>0. WholeSize(PageSize) = PageSize /\ PageSize \in Nat
        BY PageSizeAssumption, MaxPair DEF WholeSize
      <4>1. WholeSize(PageSize) = 1 * PageSize /\ PageSize \in Nat
        BY <4>0
      <4>2. MallocResult(mgr, r, 1 * PageSize, dir)
        <5>1. MallocResult(mgr, r, WholeSize(PageSize), dir)
          BY <1>0, <2>1, <4>1, MallocKeeps
        <5> QED
          BY <4>1, <5>1
      <4> HIDE DEF dir
      <4>3. /\ ~spansFreed => Covered(mgr', lent)
            /\ \A a \in mgr'.mapped \ areas : a # NoMem => mgr'.size[a] = PageSize
        BY <2>1, <3>2, <4>2, CleanRaises
      <4>4. mgr'.mapped \subseteq Pages
        BY <2>1, <4>2, MgrFields DEF MallocResult, MgrInv
      <4> QED
        BY <4>3, <4>4, NoMemIsNoPage
    <3> QED
      BY <3>1, <3>2
  <2> QED
    BY <2>2, <2>3, CleanStays
<1>6. ASSUME NEW c \in Prps, FreePrps(c) PROVE CleanInv'
  <2> DEFINE mems == prps[c].mems
             as == Range(EveryOther(mems))
             prp == [prps[c] EXCEPT !.mems = Others(mems), !.freed = TRUE]
  <2>1. /\ prps[c] # NoPrp /\ mgr' = FreeEach(mgr, as) /\ building = NoPrp
        /\ UNCHANGED <<areas, lent, building, spansFreed>>
    BY <1>6 DEF FreePrps
  <2>2. prps[c] \in PrpType /\ mems \in Seq(Pages) /\ Distinct(mems)
    BY <1>0, <2>1, PrpFields DEF IInv, MemsDistinct
  <2>3. prps' = [prps EXCEPT ![c] = prp]
    BY <1>0, <1>6 DEF FreePrps
  <2>4. prp.stale = prps[c].stale
    BY <2>2 DEF PrpType
  <2>5. as \subseteq PrpMems(prps[c])
    BY <2>1, <2>2, OthersFacts DEF PrpMems
  <2> HIDE DEF mems, as, prp
  <2>6. as \in SUBSET mgr.mapped /\ as \cap areas = {}
    BY <1>0, <2>5 DEF Apart, MemsOf
  <2>7. FreeResult(mgr, mgr', as)
    BY <1>0, <2>1, <2>6, FreeEachKeeps
  <2>8. \A a \in as : Beyond(mgr, a) = {}
    <3>1. \A a \in as : a \in Nat /\ mgr.size[a] = PageSize
      BY <1>0, <2>6, MgrFields, PagesAreNat DEF CleanInv, MgrInv
    <3> QED
      BY <3>1, PageHasNothingBeyond
  <2>9. ~spansFreed => Covered(mgr', lent)
    BY <2>6, <2>7, <2>8, CoveredFree DEF CleanInv
  <2>10. \A a \in mgr'.mapped \ areas : mgr'.size[a] = PageSize
    BY <2>7 DEF FreeResult, CleanInv
  <2>11. \A d \in Prps : prps'[d] = IF d = c THEN prp ELSE prps[d]
    BY <1>0, <2>3
  <2>12. ASSUME ~spansFreed, NEW d \in Prps, prps'[d] # NoPrp PROVE ~prps'[d].stale
    <3>1. CASE d = c
      BY <2>1, <2>4, <2>11, <2>12, <3>1 DEF CleanInv
    <3>2. CASE d # c
      BY <2>11, <2>12, <3>2 DEF CleanInv
    <3> QED
      BY <3>1, <3>2
  <2> QED
    BY <2>1, <2>9, <2>10, <2>12 DEF CleanInv, Covered
<1>7. ASSUME NEW size \in AreaSizes, NEW dir \in AreaDirs, MallocArea(size, dir) PROVE CleanInv'
  <2>1. PICK r \in Malloc(mgr, size, dir) :
          mgr' = r.mgr /\ areas' = areas \union ({r.mem} \ {NoMem})
    BY <1>7 DEF MallocArea
  <2>2. UNCHANGED <<lent, prps, building, spansFreed>>
    BY <1>7 DEF MallocArea
  <2>3. PICK d \in Nat \ {0} : WholeSize(size) = d * PageSize
    BY WholeSizeIs
  <2>4. size \in Nat
    BY SizesAssumption
  <2>5. MallocResult(mgr, r, WholeSize(size), dir)
    BY <1>0, <2>1, <2>4, MallocKeeps
  <2>6. MallocResult(mgr, r, d * PageSize, dir)
    BY <2>3, <2>5
  <2>7. /\ ~spansFreed => Covered(mgr', lent)
        /\ \A a \in mgr'.mapped \ areas : a # r.mem => mgr'.size[a] = PageSize
    BY <2>1, <2>6, CleanRaises
  <2>8. mgr'.mapped \subseteq Pages
    BY <2>1, <2>6, MgrFields DEF MallocResult, MgrInv
  <2>9. \A a \in mgr'.mapped \ areas' : mgr'.size[a] = PageSize
    BY <2>1, <2>7, <2>8, NoMemIsNoPage
  <2>10. ~spansFreed => Covered(mgr', lent')
    BY <2>2, <2>7
  <2> QED
    BY <2>2, <2>9, <2>10, CleanStays
<1>8. ASSUME NEW n \in 1 .. MaxLent, BorrowPages(n) PROVE CleanInv'
  <2>1. PICK r \in MallocPages(mgr, n) : mgr' = r.mgr /\ lent' = lent \union r.taken
    BY <1>8 DEF BorrowPages
  <2>2. UNCHANGED <<areas, prps, building, spansFreed>>
    BY <1>8 DEF BorrowPages
  <2>3. n \in Nat
    BY DirsAssumption
  <2>4. PagesResult(mgr, r)
    BY <1>0, <2>1, <2>3, MallocPagesKeeps
  <2>5. Extends(mgr, mgr') /\ mgr'.mapped = mgr.mapped /\ mgr'.dirty = mgr.dirty \union r.taken
    BY <2>1, <2>4 DEF PagesResult
  <2>6. \A a \in mgr'.mapped \ areas' : mgr'.size[a] = PageSize
    BY <2>2, <2>5, SizesExtend
  <2>7. ASSUME ~spansFreed PROVE Covered(mgr', lent')
    <3>1. Covered(mgr, lent)
      BY <2>7 DEF CleanInv
    <3>2. \A p \in mgr.dirty :
            p \in lent \/ \E a \in mgr'.mapped : p = a \/ p \in Beyond(mgr', a)
      BY <1>0, <2>5, <3>1, CoveredExtends
    <3> QED
      BY <2>1, <2>5, <3>2 DEF Covered
  <2> QED
    BY <2>2, <2>6, <2>7, CleanStays
<1>9. ASSUME NEW a \in areas, FreeArea(a) PROVE CleanInv'
  <2> DEFINE as == {a}
  <2>1. /\ mgr' = FreeEach(mgr, as) /\ areas' = areas \ {a}
        /\ spansFreed' = (spansFreed \/ Own(mgr, a) # {a})
        /\ UNCHANGED <<lent, prps, building>>
    BY <1>9 DEF FreeArea
  <2>2. as \in SUBSET mgr.mapped /\ a \in mgr.mapped
    BY <1>0 DEF Apart
  <2>3. \A b \in as : b = a
    OBVIOUS
  <2>3a. a \in as
    OBVIOUS
  <2> HIDE DEF as
  <2>4. FreeResult(mgr, mgr', as)
    BY <1>0, <2>1, <2>2, FreeEachKeeps
  <2>5. \A b \in mgr'.mapped \ areas' : mgr'.size[b] = PageSize
    BY <2>1, <2>3a, <2>4 DEF FreeResult, CleanInv
  <2>6. ASSUME ~spansFreed' PROVE ~spansFreed /\ Covered(mgr', lent)
    <3>1. ~spansFreed /\ Own(mgr, a) = {a}
      BY <2>1, <2>6
    <3>2. \A b \in as : Beyond(mgr, b) = {}
      BY <1>0, <2>2, <2>3, <3>1, SingleHasNothingBeyond
    <3> QED
      BY <2>2, <2>4, <3>1, <3>2, CoveredFree DEF CleanInv
  <2> QED
    BY <2>1, <2>5, <2>6 DEF CleanInv, Covered
<1>10. CASE ReleaseAll
  <2>1. /\ building = NoPrp /\ MayFreeAll(mgr) /\ mgr' = FreeAll(mgr)
        /\ prps' = [c \in Prps |-> NoPrp] /\ UNCHANGED <<building, spansFreed>>
    BY <1>10 DEF ReleaseAll
  <2>2. mgr'.mapped = {} /\ mgr'.dirty = {}
    BY <1>0, <2>1, FreeAllKeeps
  <2> QED
    BY <2>1, <2>2 DEF CleanInv, Covered
<1> QED
  BY <1>1, <1>2, <1>3, <1>4, <1>5, <1>6, <1>7, <1>8, <1>9, <1>10 DEF Next

LEMMA Clean ==
    ASSUME WholeSizes
    PROVE  Spec => []CleanInv
<1>1. IInv /\ CleanInv /\ [Next]_vars => CleanInv'
  BY CleanNext
<1> QED
  BY <1>1, Inductive, CleanInit, PTL DEF Spec

-----------------------------------------------------------------------------
(* The memories of a PRP that have the IOVA of one of them are that one.    *)
LEMMA MatchIs ==
    ASSUME IInv, NEW prp, prp.mems \in Seq(Pages),
           \A i \in 1 .. Len(prp.mems) : prp.mems[i] \in mgr.mapped,
           NEW k \in 1 .. Len(prp.mems)
    PROVE  Matches(prp, mgr.iova[prp.mems[k]]) = {prp.mems[k]}
<1> DEFINE mems == prp.mems
           n == Len(mems)
<1>1. \A a, b \in mgr.mapped : mgr.iova[a] = mgr.iova[b] => a = b
  BY DEF IInv, MgrInv, IovaInv
<1>2. Range(mems) \subseteq mgr.mapped /\ mems[k] \in Range(mems)
  BY DEF Range
<1> HIDE DEF mems
<1>3. {p \in Range(mems) : mgr.iova[p] = mgr.iova[mems[k]]} = {mems[k]}
  BY <1>1, <1>2
<1> QED
  BY <1>3 DEF mems, Matches

(* The first page and those of the list are all pages but the second.       *)
LEMMA FirstAndRest ==
    ASSUME NEW s \in Seq(Pages), Len(s) > 2,
           NEW rest \in Seq(Pages), Len(rest) = Len(s) - 2,
           \A i \in 1 .. Len(s) - 2 : rest[i] = s[i + 2]
    PROVE  <<s[1]>> \o rest = RemoveAt(s, 2)
<1> DEFINE n == Len(s)
           first == <<s[1]>>
           t == first \o rest
           u == RemoveAt(s, 2)
<1>1. n \in Nat /\ n > 2 /\ Len(rest) = n - 2 /\ \A i \in 1 .. n - 2 : rest[i] = s[i + 2]
  OBVIOUS
<1>2. first \in Seq(Pages) /\ Len(first) = 1 /\ first[1] = s[1]
  <2>1. s[1] \in Pages
    BY <1>1
  <2> QED
    BY <2>1
<1>3. /\ u \in Seq(Pages) /\ Len(u) = n - 1
      /\ \A i \in 1 .. n - 1 : u[i] = IF i = 1 THEN s[1] ELSE s[i + 1]
  BY WithoutSecond
<1> HIDE DEF n, first, u
<1>4. /\ t \in Seq(Pages) /\ Len(t) = Len(first) + Len(rest)
      /\ \A i \in 1 .. Len(first) : t[i] = first[i]
      /\ \A i \in 1 .. Len(rest) : t[Len(first) + i] = rest[i]
  <2>1. t \in Seq(Pages) /\ Len(t) = Len(first) + Len(rest)
    BY <1>2, ConcatFacts
  <2>2. \A i \in 1 .. Len(first) : t[i] = first[i]
    <3> DEFINE b == rest
    <3>1. b \in Seq(Pages) /\ first \in Seq(Pages)
      BY <1>2
    <3> HIDE DEF b
    <3>2. \A i \in 1 .. Len(first) : (first \o b)[i] = first[i]
      BY ONLY <3>1, ConcatFacts
    <3> QED
      BY <3>2 DEF b
  <2>3. \A i \in 1 .. Len(rest) : t[Len(first) + i] = rest[i]
    <3> DEFINE b == rest
    <3>1. b \in Seq(Pages) /\ first \in Seq(Pages)
      BY <1>2
    <3> HIDE DEF b
    <3>2. \A i \in 1 .. Len(b) : (first \o b)[Len(first) + i] = b[i]
      BY ONLY <3>1, ConcatFacts
    <3> QED
      BY <3>2 DEF b
  <2> QED
    BY <2>1, <2>2, <2>3
<1> HIDE DEF t
<1>5. /\ t \in Seq(Pages) /\ Len(t) = n - 1 /\ t[1] = s[1]
      /\ \A i \in 1 .. n - 2 : t[1 + i] = rest[i]
  BY <1>1, <1>2, <1>4
<1>6. ASSUME NEW i \in 1 .. n - 1 PROVE t[i] = u[i]
  <2>1. CASE i = 1
    BY <1>3, <1>5, <2>1
  <2>2. CASE i # 1
    <3>1. i - 1 \in 1 .. n - 2 /\ 1 + (i - 1) = i /\ (i - 1) + 2 = i + 1
      BY <1>1, <2>2
    <3>2. t[1 + (i - 1)] = rest[i - 1] /\ rest[i - 1] = s[(i - 1) + 2]
      BY <1>1, <1>5, <3>1
    <3> QED
      BY <1>3, <2>2, <3>1, <3>2
  <2> QED
    BY <2>1, <2>2
<1>7. t = u
  BY <1>3, <1>5, <1>6
<1> QED
  BY <1>7 DEF t, u, first

(* get_data_segments finds the data of every live command with one page or  *)
(* with a list, as long as every area asked for is at most a page or a      *)
(* whole number of pages and no area of several pages was freed by free:    *)
(* the memory that a list is written to is then clear.                      *)
THEOREM ListsCorrect ==
    ASSUME WholeSizes
    PROVE  Spec => []ListLeadsToData
<1>1. IInv /\ PrpInv /\ CleanInv => ListLeadsToData
  <2> SUFFICES ASSUME IInv, PrpInv, CleanInv, ~spansFreed, NEW c \in LivePrps,
                      DataPages(prps[c]) # 2
               PROVE  SegmentsAreData(prps[c])
    BY DEF ListLeadsToData
  <2> DEFINE prp == prps[c]
             mems == prp.mems
             n == Len(mems)
             D == DataPages(prp)
             hasList == HasList(prp)
             list == prp.list
  <2>1. /\ mems \in Seq(Pages) /\ n \in Nat /\ D \in Nat \ {0} /\ (hasList <=> D > 2)
        /\ n = IF hasList THEN D + 1 ELSE D
        /\ \A i \in 1 .. n : mems[i] \in mgr.mapped
        /\ prp \in PrpType /\ Filled(mgr, prp) /\ Distinct(mems)
    BY LiveFacts
  <2>2. ~prp.stale
    BY DEF LivePrps, CleanInv
  <2>3. D # 2 /\ n >= 1 /\ n # 2 /\ (n > 2 <=> hasList) /\ (n = 1 <=> ~hasList)
    BY <2>1
  <2>4. /\ prp.prp1 = mgr.iova[mems[1]]
        /\ Len(list) = IF n > 2 THEN n - 2 ELSE 0
        /\ \A i \in 1 .. Len(list) : list[i] = mgr.iova[mems[i + 2]]
    BY <2>1, <2>3 DEF Filled
  <2>5. \A k \in 1 .. n : Matches(prp, mgr.iova[mems[k]]) = {mems[k]}
    BY <2>1, MatchIs
  <2>6. ASSUME NEW i \in 1 .. Len(list)
        PROVE  Matches(prp, list[i]) = {mems[i + 2]} /\ mems[i + 2] \in Pages
    <3>1. n > 2 /\ i + 2 \in 1 .. n
      BY <2>1, <2>4
    <3>2. list[i] = mgr.iova[mems[i + 2]] /\ mems[i + 2] \in Pages
      BY <2>1, <2>4, <3>1
    <3> QED
      BY <2>5, <3>1, <3>2
  <2>7. SegmentsAssertHolds(prp)
    <3>1. ASSUME NEW i \in 1 .. Len(list) PROVE Cardinality(Matches(prp, list[i])) = 1
      BY <2>6, FS_Singleton
    <3> QED
      BY <2>2, <3>1 DEF SegmentsAssertHolds
  <2> DEFINE first == Matches(prp, prp.prp1)
             rest == [i \in 1 .. Len(list) |-> CHOOSE p \in Matches(prp, list[i]) : TRUE]
  <2>8. first = {mems[1]}
    <3>1. 1 \in 1 .. n
      BY <2>1, <2>3
    <3>2. Matches(prp, mgr.iova[mems[1]]) = {mems[1]}
      BY <2>5, <3>1
    <3> QED
      BY <2>4, <3>2
  <2>9. Keep(mems, first) = <<mems[1]>>
    <3>1. mems # <<>> /\ mems[1] \in first
      BY <2>1, <2>3, <2>8
    <3>2. \A i \in 2 .. n : mems[i] \notin first
      BY <2>1, <2>3, <2>8 DEF Distinct
    <3> HIDE DEF mems, first
    <3> QED
      BY <2>1, <3>1, <3>2, KeepOnlyFirst DEF n
  <2>10. DataSegments(prp) = <<mems[1]>> \o rest
    <3>1. DataSegments(prp) = Keep(mems, first) \o rest
      BY DEF DataSegments
    <3> HIDE DEF mems, first, rest
    <3> QED
      BY <2>9, <3>1
  <2>11. rest = [i \in 1 .. Len(list) |-> mems[i + 2]]
    BY <2>6
  <2>12. CASE hasList
    <3>1. n > 2 /\ Len(list) = n - 2
      BY <2>3, <2>4, <2>12
    <3>2. rest \in Seq(Pages) /\ Len(rest) = n - 2 /\ \A i \in 1 .. n - 2 : rest[i] = mems[i + 2]
      <4>1. rest = [i \in 1 .. n - 2 |-> mems[i + 2]] /\ n - 2 \in Nat
        <5>1. n - 2 \in Nat
          BY <2>1, <3>1
        <5> HIDE DEF rest, mems, n, list
        <5> QED
          BY <2>11, <3>1, <5>1
      <4>2. \A i \in 1 .. n - 2 : mems[i + 2] \in Pages
        BY <2>6, <3>1
      <4> HIDE DEF rest, mems, n
      <4> QED
        BY <4>1, <4>2
    <3>3. DataMems(prp) = RemoveAt(mems, 2)
      BY <2>12 DEF DataMems
    <3> HIDE DEF rest, mems, D
    <3>4. <<mems[1]>> \o rest = RemoveAt(mems, 2)
      BY <2>1, <3>1, <3>2, FirstAndRest DEF n
    <3>5. DataSegments(prp) = DataMems(prp)
      BY <2>10, <3>3, <3>4
    <3> QED
      BY <2>7, <3>5 DEF SegmentsAreData
  <2>13. CASE ~hasList
    <3>1. n = 1 /\ Len(list) = 0
      BY <2>3, <2>4, <2>13
    <3>2. DataMems(prp) = mems
      BY <2>13 DEF DataMems
    <3>3. rest = <<>>
      <4>1. rest = [i \in 1 .. 0 |-> mems[i + 2]]
        BY <2>11, <3>1
      <4> HIDE DEF rest, mems
      <4> QED
        BY <4>1
    <3> HIDE DEF rest, mems, D
    <3>4. <<mems[1]>> \o rest = mems
      <4>1. mems \in Seq(Pages) /\ Len(mems) = 1
        BY <2>1, <3>1 DEF n
      <4>2. mems = <<mems[1]>>
        BY <4>1
      <4>3. <<mems[1]>> \o <<>> = <<mems[1]>>
        OBVIOUS
      <4> QED
        BY <3>3, <4>2, <4>3
    <3>5. DataSegments(prp) = DataMems(prp)
      BY <2>10, <3>2, <3>4
    <3> QED
      BY <2>7, <3>5 DEF SegmentsAreData
  <2> QED
    BY <2>12, <2>13
<1> QED
  BY <1>1, Inductive, PrpsFilled, Clean, PTL
=============================================================================

-------------------------- MODULE SimStorageProofs --------------------------
(***************************************************************************)
(* Proofs about SimStorage, for any number of namespaces of any size, every *)
(* size of blocks and of pages, any calls at the shell and any programs:    *)
(* the files and the answers have their types, transfers of whole pages are *)
(* served, and the handlers of commands implement BlockStore.               *)
(***************************************************************************)
EXTENDS SimStorage, ListTheorems

-----------------------------------------------------------------------------
(***************************************************************************)
(* Copying through the pages of a buffer.                                   *)
(***************************************************************************)

(* The pages that alloc counts out hold the data, and not one less does.    *)
LEMMA PagesForFacts ==
    ASSUME NEW size \in Nat \ {0}
    PROVE  /\ PagesFor(size) \in Nat \ {0}
           /\ PageSize * PagesFor(size) - PageSize < size
           /\ size <= PageSize * PagesFor(size)
<1> DEFINE x == size + PageSize - 1
           q == x \div PageSize
           r == x % PageSize
<1>1. PageSize \in Nat \ {0} /\ x \in Nat /\ x >= PageSize
  BY PageSizeAssumption
<1>2. PagesFor(size) = q /\ x = size + PageSize - 1
  BY DEF PagesFor
<1> HIDE DEF x
<1>3. q \in Nat /\ r \in 0 .. PageSize - 1 /\ x = PageSize * q + r
  BY <1>1, DivFacts
<1> HIDE DEF q, r
<1>4. q # 0
  BY <1>1, <1>3
<1>5. PageSize * q \in Nat
  BY <1>1, <1>3
<1> QED
  BY <1>1, <1>2, <1>3, <1>4, <1>5

(* A fresh buffer is made of that many clear pages.                         *)
LEMMA FreshFacts ==
    ASSUME NEW size \in Nat \ {0}
    PROVE  /\ Len(FreshBuffer(size)) = PagesFor(size)
           /\ \A k \in 1 .. PagesFor(size) : FreshBuffer(size)[k] = ZeroPage
<1>1. PagesFor(size) \in Nat
  BY PagesForFacts
<1> QED
  BY <1>1 DEF FreshBuffer

(* Data of one page, or of three and more whole ones, is never refused.     *)
LEMMA FittingIsCopied ==
    ASSUME NEW size \in Nat \ {0}, NEW data, Len(data) = size, FitsPages(size)
    PROVE  ~SetRaises(FreshBuffer(size), data) /\ PagesFor(size) # 2
<1> DEFINE p == PagesFor(size)
           b == FreshBuffer(size)
<1>1. /\ PageSize \in Nat \ {0} /\ p \in Nat \ {0}
      /\ PageSize * p - PageSize < size /\ size <= PageSize * p
  BY PageSizeAssumption, PagesForFacts
<1>2. Len(b) = p
  BY FreshFacts
<1> HIDE DEF p, b
<1>3. CASE size <= PageSize
  <2>1. p < 2
    <3> SUFFICES ASSUME p >= 2 PROVE FALSE
      BY <1>1
    <3>1. p - 2 \in Nat /\ PageSize * (p - 2) \in Nat
      BY <1>1
    <3>2. PageSize * p - PageSize = PageSize * (p - 2) + PageSize
      BY <1>1
    <3> QED
      BY <1>1, <1>3, <3>1, <3>2
  <2>2. p = 1
    BY <1>1, <2>1
  <2> QED
    BY <1>2, <2>2 DEF SetRaises, SliceRaises, Segments, Found, p, b
<1>4. CASE p > 2 /\ size % PageSize = 0
  <2> DEFINE q == size \div PageSize
  <2>1. q \in Nat /\ size = PageSize * q
    <3> DEFINE r == size % PageSize
    <3>1. q \in Nat /\ size = PageSize * q + r
      BY <1>1, DivFacts
    <3>2. r = 0
      BY <1>4
    <3> HIDE DEF q, r
    <3>3. PageSize * q \in Nat
      BY <1>1, <3>1
    <3> QED
      BY <3>1, <3>2, <3>3
  <2> HIDE DEF q
  <2>2. ASSUME NEW k \in Nat, SliceRaises(data, k) PROVE FALSE
    <3>1. (k - 1) * PageSize < PageSize * q /\ PageSize * q < k * PageSize
      BY <2>1, <2>2 DEF SliceRaises
    <3>2. CASE q >= k
      <4>1. q - k \in Nat /\ PageSize * (q - k) \in Nat
        BY <1>1, <2>1, <3>2
      <4>2. PageSize * q = PageSize * (q - k) + k * PageSize
        BY <1>1, <2>1
      <4>3. PageSize * q \in Nat /\ k * PageSize \in Nat
        BY <1>1, <2>1
      <4> QED
        BY <3>1, <4>1, <4>2, <4>3
    <3>3. CASE q < k
      <4>1. k - 1 - q \in Nat /\ PageSize * (k - 1 - q) \in Nat
        BY <1>1, <2>1, <3>3
      <4>2. (k - 1) * PageSize = PageSize * (k - 1 - q) + PageSize * q
        BY <1>1, <2>1
      <4>3. PageSize * q \in Nat
        BY <1>1, <2>1
      <4> QED
        BY <3>1, <4>1, <4>2, <4>3
    <3> QED
      BY <2>1, <3>2, <3>3
  <2>3. Segments(b) \subseteq Nat
    BY <1>1, <1>2 DEF Segments, Found
  <2> QED
    BY <1>4, <2>2, <2>3 DEF SetRaises, p, b
<1> QED
  BY <1>3, <1>4 DEF FitsPages, p

(* What comes out of a fresh buffer that data was copied into: the data, or *)
(* its first page if there are two, because the second is not found.        *)
CopiedBack(got, data, size) ==
    /\ got \in Seq(Nat)
    /\ PagesFor(size) # 2 => got = data
    /\ PagesFor(size) = 2 =>
         Len(got) = PageSize /\ PageSize < size /\ \A i \in 1 .. PageSize : got[i] = data[i]

LEMMA DataComesBack ==
    ASSUME NEW size \in Nat \ {0}, NEW data \in Seq(Nat), Len(data) = size,
           ~SetRaises(FreshBuffer(size), data)
    PROVE  CopiedBack(FirstOf(GetData(SetData(FreshBuffer(size), data)), size), data, size)
<1> DEFINE p == PagesFor(size)
           b == FreshBuffer(size)
           c == SetData(b, data)
           m == Found(c)
           g == GetData(c)
<1>1. /\ PageSize \in Nat \ {0} /\ p \in Nat \ {0}
      /\ PageSize * p - PageSize < size /\ size <= PageSize * p
  BY PageSizeAssumption, PagesForFacts
<1>2. Len(b) = p /\ \A k \in 1 .. p : b[k] = ZeroPage
  BY FreshFacts
<1>3. ~SetRaises(b, data)
  OBVIOUS
<1> HIDE DEF p, b
<1>4. Len(c) = p
  BY <1>1, <1>2 DEF SetData
<1>5. m = Found(b) /\ Segments(b) = 1 .. m /\ m = IF p = 2 THEN 1 ELSE p
  BY <1>2, <1>4 DEF Segments, Found
<1> HIDE DEF m
<1>6. m \in Nat \ {0} /\ m <= p
  BY <1>1, <1>5
<1>7. ASSUME NEW k \in 1 .. m PROVE c[k] = PageFrom(ZeroPage, data, k)
  <2>1. k \in 1 .. p /\ k \in Segments(b) /\ ~SliceRaises(data, k)
    BY <1>1, <1>3, <1>5, <1>6 DEF SetRaises
  <2> QED
    BY <1>2, <2>1 DEF SetData
<1>8. g = [i \in 1 .. m * PageSize |-> c[((i - 1) \div PageSize) + 1][((i - 1) % PageSize) + 1]]
  BY DEF GetData, m
<1> HIDE DEF c, g
<1>9. m * PageSize \in Nat /\ PageSize * m = m * PageSize
  BY <1>1, <1>6
<1>10. ASSUME NEW i \in 1 .. m * PageSize
       PROVE  g[i] = IF i <= size THEN data[i] ELSE 0
  <2> DEFINE q == (i - 1) \div PageSize
             r == (i - 1) % PageSize
  <2>1. q \in Nat /\ r \in 0 .. PageSize - 1 /\ i - 1 = PageSize * q + r
    <3> DEFINE x == i - 1
    <3>1. x \in Nat
      BY <1>9
    <3> HIDE DEF x
    <3>2. x \div PageSize \in Nat /\ x % PageSize \in 0 .. PageSize - 1
          /\ x = PageSize * (x \div PageSize) + (x % PageSize)
      BY <1>1, <3>1, DivFacts
    <3> QED
      BY <3>2 DEF x
  <2>2. g[i] = c[q + 1][r + 1]
    BY <1>8
  <2> HIDE DEF q, r
  <2>3. q < m
    <3> SUFFICES ASSUME q >= m PROVE FALSE
      BY <1>6, <2>1
    <3>1. q - m \in Nat /\ PageSize * (q - m) \in Nat
      BY <1>1, <1>6, <2>1
    <3>2. PageSize * q = PageSize * (q - m) + PageSize * m
      BY <1>1, <1>6, <2>1
    <3>3. PageSize * q >= m * PageSize
      BY <1>9, <3>1, <3>2
    <3> QED
      BY <1>1, <1>9, <2>1, <3>3
  <2>4. q + 1 \in 1 .. m /\ r + 1 \in 1 .. PageSize
    BY <1>1, <1>6, <2>1, <2>3
  <2>5. ((q + 1) - 1) * PageSize + (r + 1) = i
    <3>1. ((q + 1) - 1) * PageSize = PageSize * q /\ PageSize * q \in Nat
      BY <1>1, <2>1
    <3>2. i \in Int /\ r \in Int /\ i - 1 = PageSize * q + r
      BY <1>9, <2>1
    <3> DEFINE x == PageSize * q
               y == ((q + 1) - 1) * PageSize
    <3>3. y = x /\ x \in Nat /\ i - 1 = x + r
      BY <3>1, <3>2
    <3> HIDE DEF x, y
    <3>4. y + (r + 1) = i
      BY ONLY <3>2, <3>3
    <3> QED
      BY <3>4 DEF y
  <2>6. c[q + 1] = PageFrom(ZeroPage, data, q + 1)
    BY <1>7, <2>4
  <2>7. ZeroPage[r + 1] = 0
    BY <2>4 DEF ZeroPage
  <2> DEFINE k == q + 1
             j == r + 1
  <2>8. g[i] = PageFrom(ZeroPage, data, k)[j] /\ j \in 1 .. PageSize /\ (k - 1) * PageSize + j = i
        /\ ZeroPage[j] = 0
    <3>1. g[i] = PageFrom(ZeroPage, data, k)[j]
      BY ONLY <2>2, <2>6
    <3>2. j \in 1 .. PageSize /\ ZeroPage[j] = 0
      BY ONLY <2>4, <2>7
    <3>3. (k - 1) * PageSize + j = i
      BY <2>5
    <3> HIDE DEF k, j
    <3> QED
      BY ONLY <3>1, <3>2, <3>3
  <2> HIDE DEF k, j
  <2> QED
    BY <2>8 DEF PageFrom
<1>11. g \in Seq(Nat) /\ Len(g) = m * PageSize
  <2> DEFINE n == m * PageSize
             cell(i) == c[((i - 1) \div PageSize) + 1][((i - 1) % PageSize) + 1]
  <2>1. n \in Nat /\ g = [i \in 1 .. n |-> cell(i)] /\ \A i \in 1 .. n : g[i] \in Nat
    BY <1>8, <1>9, <1>10
  <2> HIDE DEF n, cell
  <2>2. g \in Seq(Nat) /\ Len(g) = n
    BY ONLY <2>1
  <2> QED
    BY <2>2 DEF n
<1> DEFINE got == FirstOf(g, size)
<1>12. CASE p # 2
  <2>1. size <= Len(g)
    BY <1>1, <1>5, <1>9, <1>11, <1>12
  <2>2. got = SubSeq(g, 1, size)
    BY <1>9, <1>11, <2>1 DEF FirstOf
  <2>3. got \in Seq(Nat) /\ Len(got) = size /\ \A i \in 1 .. size : got[i] = g[i]
    BY <1>11, <2>1, <2>2
  <2>4. \A i \in 1 .. size : g[i] = data[i]
    BY <1>9, <1>10, <1>11, <2>1
  <2> HIDE DEF got
  <2>5. got = data
    BY <2>3, <2>4, SeqEqual
  <2> QED
    BY <1>12, <2>3, <2>5 DEF CopiedBack, got, g, c, p, b
<1>13. CASE p = 2
  <2>1. m = 1 /\ Len(g) = PageSize /\ PageSize < size
    BY <1>1, <1>5, <1>11, <1>13
  <2>2. got = SubSeq(g, 1, PageSize)
    BY <1>1, <2>1 DEF FirstOf
  <2>3. got \in Seq(Nat) /\ Len(got) = PageSize /\ \A i \in 1 .. PageSize : got[i] = g[i]
    BY <1>1, <1>11, <2>1, <2>2
  <2>4. \A i \in 1 .. PageSize : g[i] = data[i]
    BY <1>1, <1>10, <2>1
  <2> HIDE DEF got
  <2> QED
    BY <1>13, <2>1, <2>3, <2>4 DEF CopiedBack, got, g, c, p, b
<1> QED
  BY <1>12, <1>13

-----------------------------------------------------------------------------
(***************************************************************************)
(* The generator: its states are numbers.                                   *)
(***************************************************************************)

(* The subsets of 1 .. n are finitely many, and 2^n.                        *)
LEMMA PowerNat ==
    ASSUME NEW n \in Nat
    PROVE  2 ^ n \in Nat
<1> DEFINE S == 1 .. n
<1>1. IsFiniteSet(S) /\ Cardinality(S) = n
  BY FS_Interval
<1> HIDE DEF S
<1>2. IsFiniteSet(SUBSET S) /\ Cardinality(SUBSET S) = 2 ^ n
  BY <1>1, FS_SUBSET
<1> QED
  BY <1>2, FS_CardinalityType

LEMMA ShiftNat ==
    ASSUME NEW s \in Nat, NEW n \in Nat \ {0}
    PROVE  Shift(s, n) \in Nat
<1> DEFINE p == Polys[n - MinBits + 1]
           fed == (Bit(s, n - p[1]) + Bit(s, n - p[2]) + Bit(s, n - p[3]) + Bit(s, n - p[4])) % 2 = 1
           top == 2 ^ (n - 1)
           half == s \div 2
<1>1. top \in Nat
  <2> DEFINE k == n - 1
  <2>1. k \in Nat
    OBVIOUS
  <2> HIDE DEF k
  <2>2. 2 ^ k \in Nat
    BY <2>1, PowerNat
  <2> QED
    BY <2>2 DEF k
<1>2. half \in Nat
  BY DivFacts
<1>3. Shift(s, n) = half + IF fed THEN top ELSE 0
  BY DEF Shift
<1> HIDE DEF fed, top, half
<1> QED
  BY <1>1, <1>2, <1>3

(* The turns of one draw, as the function that Turned is defined by.        *)
Turns(f, s, max, n, m) ==
    f = [k \in 0 .. m |-> IF k = 0 THEN Shift(s, n)
                          ELSE IF f[k - 1] > max THEN Shift(f[k - 1], n) ELSE f[k - 1]]

LEMMA TurnsExist ==
    ASSUME NEW s, NEW max, NEW n, NEW m \in Nat
    PROVE  \E f : Turns(f, s, max, n, m)
<1> DEFINE S == {k \in Nat : \E f : Turns(f, s, max, n, k)}
<1>1. 0 \in S
  <2> DEFINE f == [k \in 0 .. 0 |-> Shift(s, n)]
  <2>1. Turns(f, s, max, n, 0)
    BY DEF Turns
  <2> QED
    BY <2>1
<1>2. ASSUME NEW k \in Nat, k \in S PROVE k + 1 \in S
  <2>1. PICK f : Turns(f, s, max, n, k)
    BY <1>2
  <2> DEFINE g == [i \in 0 .. k + 1 |->
                     IF i <= k THEN f[i]
                     ELSE IF f[i - 1] > max THEN Shift(f[i - 1], n) ELSE f[i - 1]]
  <2>2. ASSUME NEW i \in 0 .. k + 1
        PROVE  g[i] = IF i = 0 THEN Shift(s, n)
                      ELSE IF g[i - 1] > max THEN Shift(g[i - 1], n) ELSE g[i - 1]
    <3>1. CASE i = 0
      BY <2>1, <3>1 DEF Turns
    <3>2. CASE i # 0
      <4>1. i - 1 \in 0 .. k /\ g[i - 1] = f[i - 1]
        BY <3>2
      <4>2. CASE i = k + 1
        BY <4>1, <4>2
      <4>3. CASE i # k + 1
        <5>1. i \in 0 .. k /\ g[i] = f[i]
          BY <4>3
        <5> QED
          BY <2>1, <3>2, <4>1, <5>1 DEF Turns
      <4> QED
        BY <4>2, <4>3
    <3> QED
      BY <3>1, <3>2
  <2>3. Turns(g, s, max, n, k + 1)
    BY <2>2 DEF Turns
  <2> QED
    BY <2>3
<1>3. Nat \subseteq S
  <2> HIDE DEF S
  <2> QED
    BY <1>1, <1>2, SetInduction
<1> QED
  BY <1>3

(* However often the register turns, its state stays a number.              *)
LEMMA TurnedNat ==
    ASSUME NEW s \in Nat, NEW max, NEW n \in Nat \ {0}
    PROVE  Turned(s, max, n) \in Nat
<1> DEFINE m == 2 ^ n
<1>1. m \in Nat
  BY PowerNat
<1>2. PICK f : Turns(f, s, max, n, m) /\ Turned(s, max, n) = f[m]
  <2> HIDE DEF m
  <2>1. PICK f : Turns(f, s, max, n, m)
    BY <1>1, TurnsExist
  <2> QED
    BY <2>1 DEF Turned, Turns, m
<1> HIDE DEF m
<1> DEFINE S == {k \in Nat : k <= m => f[k] \in Nat}
<1>3. 0 \in S
  <2>1. f[0] = Shift(s, n)
    BY <1>1, <1>2 DEF Turns
  <2> QED
    BY <2>1, ShiftNat
<1>4. ASSUME NEW k \in Nat, k \in S PROVE k + 1 \in S
  <2> SUFFICES ASSUME k + 1 <= m PROVE f[k + 1] \in Nat
    OBVIOUS
  <2>1. f[k] \in Nat
    BY <1>1, <1>4
  <2>2. k + 1 \in 0 .. m /\ k + 1 # 0 /\ (k + 1) - 1 = k
    BY <1>1
  <2>3. f[k + 1] = IF f[k] > max THEN Shift(f[k], n) ELSE f[k]
    BY <1>2, <2>2 DEF Turns
  <2>4. Shift(f[k], n) \in Nat
    BY <2>1, ShiftNat
  <2> QED
    BY <2>1, <2>3, <2>4
<1>5. Nat \subseteq S
  <2> HIDE DEF S
  <2> QED
    BY <1>3, <1>4, SetInduction
<1> QED
  BY <1>1, <1>2, <1>5

(* The generators that __init__ lets through, and keeps.                    *)
Gens == [nb : Nat \ {0}, initial : Nat, maxValue : Nat, state : Nat, started : BOOLEAN, complete : BOOLEAN]
GoodGen(g) == g \in Gens /\ NumBits(g.maxValue) \in Nat \ {0}

LEMMA NewGenGood ==
    ASSUME NEW maxLba \in Nat, NEW nb \in Nat, NEW initial \in Nat, MayGenerate(maxLba, nb, initial)
    PROVE  GoodGen(NewGen(maxLba, nb, initial)) /\ NewGen(maxLba, nb, initial).nb = nb /\ nb # 0
<1> DEFINE v == MaxValue(maxLba, nb)
<1>1. nb > 0 /\ initial < v /\ NumBits(v) \in MinBits .. MaxBits
  BY DEF MayGenerate
<1>2. v \in Int
  BY <1>1 DEF MaxValue
<1> HIDE DEF v
<1>3. v \in Nat
  BY <1>1, <1>2
<1>4. NumBits(v) \in Nat \ {0}
  BY <1>1 DEF MinBits
<1>5. NewGen(maxLba, nb, initial) = [nb |-> nb, initial |-> initial, maxValue |-> v,
                                     state |-> initial, started |-> FALSE, complete |-> FALSE]
  BY DEF NewGen, v
<1> QED
  BY <1>1, <1>3, <1>4, <1>5 DEF GoodGen, Gens

LEMMA GenStepsGood ==
    ASSUME NEW g, GoodGen(g)
    PROVE  /\ GoodGen(Reset(g)) /\ Reset(g).nb = g.nb
           /\ GoodGen(Draw(g)) /\ Draw(g).nb = g.nb
           /\ GoodGen(Advance(g)) /\ Advance(g).nb = g.nb
           /\ Returned(g) \in Nat
<1>1. g \in Gens /\ NumBits(g.maxValue) \in Nat \ {0}
  BY DEF GoodGen
<1>2. GoodGen(Reset(g)) /\ Reset(g).nb = g.nb
  BY <1>1 DEF GoodGen, Gens, Reset
<1>3. GoodGen(Draw(g)) /\ Draw(g).nb = g.nb
  <2> DEFINE t == Turned(g.state, g.maxValue, NumBits(g.maxValue))
  <2>1. g.state \in Nat
    BY <1>1 DEF Gens
  <2>2. t \in Nat
    BY <1>1, <2>1, TurnedNat
  <2> HIDE DEF t
  <2>3. Draw(g) = [g EXCEPT !.state = t, !.started = TRUE]
    BY DEF Draw, t
  <2> QED
    BY <1>1, <2>2, <2>3 DEF GoodGen, Gens
<1>4. GoodGen(Advance(g)) /\ Advance(g).nb = g.nb
  BY <1>1, <1>3 DEF GoodGen, Gens, Advance
<1>5. Returned(g) \in Nat
  BY <1>1 DEF Gens, Returned
<1> QED
  BY <1>2, <1>3, <1>4, <1>5

-----------------------------------------------------------------------------
(***************************************************************************)
(* What a write and a read do to the files, and what they answer.           *)
(***************************************************************************)

(* Every file has the size of its namespace.                                *)
FilesOK ==
    /\ mm \in [Namespaces -> Seq(Nat)]
    /\ \A ns \in Namespaces : Len(mm[ns]) = NumLbas[ns] * BlockSize[ns]

LEMMA NamespaceFacts ==
    ASSUME NEW ns \in Namespaces
    PROVE  /\ NumLbas[ns] \in Nat \ {0} /\ BlockSize[ns] \in Nat \ {0} /\ BlockSize[ns] <= PageSize
           /\ NumLbas[ns] * BlockSize[ns] \in Nat
<1>1. NumLbas[ns] \in Nat \ {0} /\ BlockSize[ns] \in Nat \ {0}
  BY SizesAssumption
<1>2. BlockSize[ns] <= PageSize
  BY BlocksAssumption
<1>3. NumLbas[ns] * BlockSize[ns] \in Nat
  BY <1>1, MulNat
<1> QED
  BY <1>1, <1>2, <1>3

(* A transfer of n blocks has cells, and at least those of a block.         *)
LEMMA CellsFacts ==
    ASSUME NEW ns, NEW n \in Nat \ {0}
    PROVE  /\ BlockSizeOf(ns) \in Nat \ {0} /\ Cells(ns, n) = n * BlockSizeOf(ns)
           /\ Cells(ns, n) \in Nat \ {0} /\ BlockSizeOf(ns) <= Cells(ns, n)
           /\ ns \in Namespaces => BlockSizeOf(ns) = BlockSize[ns]
<1> DEFINE bs == BlockSizeOf(ns)
<1>1. bs \in Nat \ {0} /\ (ns \in Namespaces => bs = BlockSize[ns])
  BY NamespaceFacts, PageSizeAssumption DEF BlockSizeOf
<1>2. Cells(ns, n) = n * bs
  BY DEF Cells
<1> HIDE DEF bs
<1>3. (n - 1) * bs \in Nat /\ n * bs = (n - 1) * bs + bs
  BY <1>1
<1> QED
  BY <1>1, <1>2, <1>3 DEF bs

(* The slice of the file is the data, the rest stays.                       *)
LEMMA StoredFacts ==
    ASSUME NEW ns \in Namespaces, NEW file \in Seq(Nat), NEW data \in Seq(Nat), NEW lba \in Nat
    PROVE  LET r == Stored(file, ns, lba, data)
               start == lba * BlockSize[ns]
           IN  /\ r \in Seq(Nat) /\ Len(r) = Len(file)
               /\ \A i \in 1 .. Len(file) :
                    r[i] = IF i \in start + 1 .. start + Len(data) THEN data[i - start] ELSE file[i]
<1> DEFINE r == Stored(file, ns, lba, data)
           start == lba * BlockSize[ns]
           n == Len(file)
           val(i) == IF i \in start + 1 .. start + Len(data) THEN data[i - start] ELSE file[i]
<1>1. start \in Nat
  BY NamespaceFacts, MulNat
<1>2. n \in Nat /\ DOMAIN file = 1 .. n
  OBVIOUS
<1>3. r = [i \in 1 .. n |-> val(i)]
  BY <1>2 DEF Stored
<1> HIDE DEF r, start, n
<1>4. ASSUME NEW i \in 1 .. n PROVE val(i) \in Nat
  <2>1. CASE i \in start + 1 .. start + Len(data)
    <3>1. i - start \in 1 .. Len(data)
      BY <1>1, <2>1
    <3> QED
      BY <2>1, <3>1
  <2>2. CASE i \notin start + 1 .. start + Len(data)
    BY <2>2 DEF n
  <2> QED
    BY <2>1, <2>2
<1>5. r \in Seq(Nat) /\ Len(r) = n /\ \A i \in 1 .. n : r[i] = val(i)
  <2> HIDE DEF val
  <2> QED
    BY <1>2, <1>3, <1>4
<1> QED
  BY <1>5 DEF r, start, n

(* A write that fits its namespace and whole pages is stored; what is not   *)
(* stored leaves the files alone.                                           *)
Written(ns, lba, n, data) ==
    /\ reply' = Result("write", ns, lba, n, reply'.out, data)
    /\ UNCHANGED <<power, idData>>
    /\ reply'.out = "ok" =>
         /\ ns \in Namespaces /\ lba + n <= NumLbas[ns]
         /\ mm' = [mm EXCEPT ![ns] = Stored(mm[ns], ns, lba, data)]
    /\ reply'.out # "ok" => mm' = mm
    /\ ns \in Namespaces /\ lba + n <= NumLbas[ns] /\ FitsPages(Cells(ns, n)) => reply'.out = "ok"

LEMMA WriteFacts ==
    ASSUME FilesOK, NEW ns, NEW lba \in Nat, NEW n \in Nat \ {0},
           NEW data \in Seq(Nat), Len(data) = Cells(ns, n), Write(ns, lba, n, data)
    PROVE  Written(ns, lba, n, data)
<1> DEFINE size == Cells(ns, n)
           fresh == FreshBuffer(size)
           taken == FirstOf(GetData(SetData(fresh, data)), size)
           out == IF SetRaises(fresh, data) THEN "raised" ELSE IoOutcome(ns, lba, n, Len(taken) # size)
<1>1. /\ reply' = Result("write", ns, lba, n, out, data)
      /\ mm' = IF out = "ok" THEN [mm EXCEPT ![ns] = Stored(mm[ns], ns, lba, taken)] ELSE mm
      /\ UNCHANGED <<power, idData>>
  <2> HIDE DEF size
  <2>1. mm' = IF out = "ok" THEN [mm EXCEPT ![ns] = Stored(@, ns, lba, taken)] ELSE mm
    BY DEF Write, size
  <2>2. [mm EXCEPT ![ns] = Stored(@, ns, lba, taken)] = [mm EXCEPT ![ns] = Stored(mm[ns], ns, lba, taken)]
    BY DEF FilesOK
  <2>3. reply' = Result("write", ns, lba, n, out, data) /\ UNCHANGED <<power, idData>>
    BY DEF Write, size
  <2> QED
    BY <2>1, <2>2, <2>3
<1>2. size \in Nat \ {0} /\ Len(data) = size
  BY CellsFacts
<1>3. ~SetRaises(fresh, data) => CopiedBack(taken, data, size)
  BY <1>2, DataComesBack
<1>4. FitsPages(size) => ~SetRaises(fresh, data) /\ PagesFor(size) # 2
  BY <1>2, FittingIsCopied
<1> HIDE DEF size, fresh, taken
<1>5. out = "ok" => /\ ns \in Namespaces /\ lba + n <= NumLbas[ns] /\ ~SetRaises(fresh, data)
                    /\ Len(taken) = size
  BY NamespaceFacts DEF IoOutcome, OutOfRange
<1>6. out = "ok" => taken = data
  <2> SUFFICES ASSUME out = "ok" PROVE taken = data
    OBVIOUS
  <2>1. CopiedBack(taken, data, size) /\ Len(taken) = size
    BY <1>3, <1>5
  <2> QED
    BY <1>2, <2>1, PageSizeAssumption DEF CopiedBack
<1>7. ns \in Namespaces /\ lba + n <= NumLbas[ns] /\ FitsPages(size) => out = "ok"
  <2> SUFFICES ASSUME ns \in Namespaces, lba + n <= NumLbas[ns], FitsPages(size) PROVE out = "ok"
    OBVIOUS
  <2>1. ~SetRaises(fresh, data) /\ Len(taken) = size
    BY <1>2, <1>3, <1>4 DEF CopiedBack
  <2>2. ~OutOfRange(ns, lba, n)
    BY NamespaceFacts DEF OutOfRange
  <2> QED
    BY <2>1, <2>2 DEF IoOutcome
<1> HIDE DEF out
<1>8. reply'.out = out
  BY <1>1 DEF Result
<1> QED
  BY <1>1, <1>5, <1>6, <1>7, <1>8 DEF Written, size

(* Where the blocks of a range lie in the file.                             *)
LEMMA RangeInFile ==
    ASSUME NEW ns \in Namespaces, NEW lba \in Nat, NEW n \in Nat, lba + n <= NumLbas[ns]
    PROVE  /\ lba * BlockSize[ns] \in Nat /\ n * BlockSize[ns] \in Nat
           /\ (lba + n) * BlockSize[ns] = lba * BlockSize[ns] + n * BlockSize[ns]
           /\ (lba + n) * BlockSize[ns] <= NumLbas[ns] * BlockSize[ns]
<1> DEFINE b == BlockSize[ns]
           m == NumLbas[ns]
           d == m - (lba + n)
<1>1. b \in Nat \ {0} /\ m \in Nat /\ lba + n <= m
  BY NamespaceFacts
<1> HIDE DEF b, m
<1>2. lba * b \in Nat /\ n * b \in Nat /\ (lba + n) * b = lba * b + n * b
  BY <1>1
<1>3. d \in Nat /\ m = (lba + n) + d
  BY <1>1
<1> HIDE DEF d
<1>4. d * b \in Nat /\ m * b = (lba + n) * b + d * b
  BY <1>1, <1>3
<1>5. (lba + n) * b <= m * b
  BY <1>2, <1>4
<1> QED
  BY <1>2, <1>5 DEF b, m

LEMMA CellsOfRange ==
    ASSUME FilesOK, NEW ns \in Namespaces, NEW lba \in Nat, NEW n \in Nat, lba + n <= NumLbas[ns]
    PROVE  LET start == lba * BlockSize[ns]
               cells == SubSeq(mm[ns], start + 1, (lba + n) * BlockSize[ns])
           IN  /\ cells \in Seq(Nat) /\ Len(cells) = n * BlockSize[ns]
               /\ \A i \in 1 .. n * BlockSize[ns] : cells[i] = mm[ns][start + i]
<1> DEFINE file == mm[ns]
           start == lba * BlockSize[ns]
           size == n * BlockSize[ns]
           stop == (lba + n) * BlockSize[ns]
           cells == SubSeq(file, start + 1, stop)
<1>1. start \in Nat /\ size \in Nat /\ stop = start + size /\ stop <= NumLbas[ns] * BlockSize[ns]
  BY RangeInFile
<1>2. file \in Seq(Nat) /\ Len(file) = NumLbas[ns] * BlockSize[ns]
  BY DEF FilesOK
<1>3. stop <= Len(file) /\ Len(file) \in Nat
  BY <1>1, <1>2
<1> HIDE DEF file, start, size, stop
<1>4. /\ start \in Nat /\ size \in Nat /\ stop = start + size /\ stop <= Len(file) /\ Len(file) \in Nat
      /\ file \in Seq(Nat)
  BY <1>1, <1>2, <1>3
<1>5. cells \in Seq(Nat) /\ Len(cells) = size
  BY ONLY <1>4
<1>6. \A i \in 1 .. size : cells[i] = file[start + i]
  BY ONLY <1>4
<1> QED
  BY <1>5, <1>6 DEF file, start, size, stop

(* A read that is answered brings the cells of the range from the first on, *)
(* a whole block of them at least; one that fits brings all.                *)
Fetched(ns, lba, n) ==
    /\ reply' = Result("read", ns, lba, n, reply'.out, reply'.data)
    /\ UNCHANGED <<mm, power, idData>>
    /\ reply'.out = "ok" =>
         /\ ns \in Namespaces /\ lba + n <= NumLbas[ns]
         /\ reply'.data \in Seq(Nat)
         /\ BlockSize[ns] <= Len(reply'.data) /\ Len(reply'.data) <= n * BlockSize[ns]
         /\ \A i \in 1 .. Len(reply'.data) : reply'.data[i] = mm[ns][lba * BlockSize[ns] + i]
    /\ ns \in Namespaces /\ lba + n <= NumLbas[ns] /\ FitsPages(Cells(ns, n)) =>
         reply'.out = "ok" /\ Len(reply'.data) = Cells(ns, n)

LEMMA ReadFacts ==
    ASSUME FilesOK, NEW ns, NEW lba \in Nat, NEW n \in Nat \ {0}, Read(ns, lba, n)
    PROVE  Fetched(ns, lba, n)
<1> DEFINE size == Cells(ns, n)
           fresh == FreshBuffer(size)
           cells == SubSeq(mm[ns], lba * BlockSize[ns] + 1, (lba + n) * BlockSize[ns])
           out == IoOutcome(ns, lba, n, SetRaises(fresh, cells))
           got == FirstOf(GetData(SetData(fresh, cells)), size)
           data == IF out = "ok" THEN got ELSE <<>>
           inRange == ns \in Namespaces /\ lba + n <= NumLbas[ns]
<1>1. reply' = Result("read", ns, lba, n, out, data) /\ UNCHANGED <<mm, power, idData>>
  BY DEF Read
<1>2. size \in Nat \ {0} /\ (ns \in Namespaces => size = n * BlockSize[ns] /\ BlockSize[ns] <= size)
  BY CellsFacts
<1>3. inRange => /\ cells \in Seq(Nat) /\ Len(cells) = size
                 /\ \A i \in 1 .. size : cells[i] = mm[ns][lba * BlockSize[ns] + i]
  BY <1>2, CellsOfRange
<1> HIDE DEF size, cells
<1>4. inRange /\ ~SetRaises(fresh, cells) => CopiedBack(got, cells, size)
  BY <1>2, <1>3, DataComesBack
<1>5. inRange /\ FitsPages(size) => ~SetRaises(fresh, cells) /\ PagesFor(size) # 2
  BY <1>2, <1>3, FittingIsCopied
<1> HIDE DEF fresh, got
<1>6. out = "ok" <=> inRange /\ ~SetRaises(fresh, cells)
  BY NamespaceFacts DEF IoOutcome, OutOfRange
<1> HIDE DEF out
<1>7. ASSUME inRange, ~SetRaises(fresh, cells)
      PROVE  /\ got \in Seq(Nat)
             /\ BlockSize[ns] <= Len(got) /\ Len(got) <= size
             /\ \A i \in 1 .. Len(got) : got[i] = mm[ns][lba * BlockSize[ns] + i]
  <2>1. CopiedBack(got, cells, size)
    BY <1>4, <1>7
  <2>2. CASE PagesFor(size) # 2
    <3>1. got = cells
      BY <2>1, <2>2 DEF CopiedBack
    <3> QED
      BY <1>2, <1>3, <1>7, <3>1
  <2>3. CASE PagesFor(size) = 2
    <3>1. got \in Seq(Nat) /\ Len(got) = PageSize /\ PageSize < size /\ \A i \in 1 .. PageSize : got[i] = cells[i]
      BY <2>1, <2>3 DEF CopiedBack
    <3>2. BlockSize[ns] <= PageSize
      BY <1>7, NamespaceFacts
    <3>3. PageSize \in Nat
      BY PageSizeAssumption
    <3>4. \A i \in 1 .. PageSize : i \in 1 .. size
      BY <1>2, <3>1, <3>3
    <3>5. \A i \in 1 .. PageSize : got[i] = mm[ns][lba * BlockSize[ns] + i]
      BY <1>3, <1>7, <3>1, <3>4
    <3> QED
      BY <1>2, <3>1, <3>2, <3>3, <3>5
  <2> QED
    BY <2>2, <2>3
<1>8. inRange /\ FitsPages(size) => out = "ok" /\ Len(got) = size
  <2> SUFFICES ASSUME inRange, FitsPages(size) PROVE out = "ok" /\ Len(got) = size
    OBVIOUS
  <2>1. ~SetRaises(fresh, cells) /\ PagesFor(size) # 2
    BY <1>5
  <2>2. got = cells
    BY <1>4, <2>1 DEF CopiedBack
  <2> QED
    BY <1>3, <1>6, <2>1, <2>2
<1>9. reply'.out = out /\ reply'.data = data
  BY <1>1 DEF Result
<1>10. reply'.out = "ok" =>
         /\ ns \in Namespaces /\ lba + n <= NumLbas[ns]
         /\ reply'.data \in Seq(Nat)
         /\ BlockSize[ns] <= Len(reply'.data) /\ Len(reply'.data) <= n * BlockSize[ns]
         /\ \A i \in 1 .. Len(reply'.data) : reply'.data[i] = mm[ns][lba * BlockSize[ns] + i]
  <2> SUFFICES ASSUME out = "ok"
               PROVE  /\ inRange /\ got \in Seq(Nat)
                      /\ BlockSize[ns] <= Len(got) /\ Len(got) <= n * BlockSize[ns]
                      /\ \A i \in 1 .. Len(got) : got[i] = mm[ns][lba * BlockSize[ns] + i]
    BY <1>9
  <2> QED
    BY <1>2, <1>6, <1>7
<1>11. inRange /\ FitsPages(size) => reply'.out = "ok" /\ Len(reply'.data) = size
  BY <1>8, <1>9
<1>12. reply' = Result("read", ns, lba, n, reply'.out, reply'.data)
  BY <1>1, <1>9
<1> QED
  BY <1>1, <1>10, <1>11, <1>12 DEF Fetched, size

-----------------------------------------------------------------------------
(***************************************************************************)
(* The invariant.  That of the files and of the answers needs nothing of    *)
(* the programs but that what they draw are LBAs; for that the generator of *)
(* a running program is one that __init__ accepted.                         *)
(***************************************************************************)
NoSweep == [stage |-> "none", gen |-> NoGen, given |-> <<>>]
Programs == [stage : {"begin", "write", "read", "verified", "failed"}, gen : Gens \union {NoGen},
             given : Seq(Nat), run : Sweeps]

SweepOK ==
    \/ sweep = NoSweep
    \/ /\ sweep \in Programs
       /\ sweep.stage \in {"write", "read"} =>
            GoodGen(sweep.gen) /\ sweep.gen.nb = sweep.run.nb /\ sweep.run.nb # 0

SideOK ==
    /\ power \in PowerStates
    /\ \A ns \in Namespaces : idData[ns] \in {NoData, IdNamespace(ns)}
    /\ calls \in 0 .. MaxCalls

ReplyOK == reply.ns \in NSIDs \union {AllNamespaces} /\ reply.lba \in Nat /\ reply.n \in Nat

IInv == FilesOK /\ SideOK /\ ReplyOK /\ SweepOK /\ WholePagesAreServed

LEMMA InvTypes == IInv => TypeOK
<1> SUFFICES ASSUME IInv PROVE TypeOK
  OBVIOUS
<1>1. /\ sweep.stage \in {"none", "begin", "write", "read", "verified", "failed"}
      /\ sweep.given \in Seq(Nat)
  <2>1. CASE sweep = NoSweep
    <3>1. <<>> \in Seq(Nat)
      OBVIOUS
    <3> QED
      BY <2>1, <3>1 DEF NoSweep
  <2>2. CASE sweep \in Programs
    BY <2>2 DEF Programs
  <2> QED
    BY <2>1, <2>2 DEF IInv, SweepOK
<1> QED
  BY <1>1 DEF IInv, TypeOK, FilesOK, SideOK, ReplyOK, IdNamespace

LEMMA PayloadFacts ==
    ASSUME NEW tag \in Nat, NEW n \in Nat
    PROVE  Payload(tag, n) \in Seq(Nat) /\ Len(Payload(tag, n)) = n
<1>1. \A i \in 1 .. n : 10 * tag + i \in Nat
  OBVIOUS
<1> QED
  BY <1>1 DEF Payload

LEMMA ClearFilesFacts ==
    ASSUME NEW ns \in Namespaces
    PROVE  /\ ClearFiles[ns] \in Seq(Nat) /\ Len(ClearFiles[ns]) = NumLbas[ns] * BlockSize[ns]
           /\ \A i \in 1 .. NumLbas[ns] * BlockSize[ns] : ClearFiles[ns][i] = 0
<1> DEFINE n == NumLbas[ns] * BlockSize[ns]
<1>1. n \in Nat
  BY NamespaceFacts
<1>2. ClearFiles[ns] = [i \in 1 .. n |-> 0]
  BY DEF ClearFiles
<1> HIDE DEF n
<1>3. ClearFiles[ns] \in Seq(Nat) /\ Len(ClearFiles[ns]) = n /\ \A i \in 1 .. n : ClearFiles[ns][i] = 0
  BY <1>1, <1>2
<1> QED
  BY <1>3 DEF n

LEMMA InitInv == Init => IInv
<1> SUFFICES ASSUME Init PROVE IInv
  OBVIOUS
<1>1. FilesOK
  <2>1. mm = ClearFiles
    BY DEF Init
  <2>2. ClearFiles \in [Namespaces -> Seq(Nat)]
    BY ClearFilesFacts DEF ClearFiles
  <2> QED
    BY <2>1, <2>2, ClearFilesFacts DEF FilesOK
<1>2. SideOK
  BY SizesAssumption DEF Init, SideOK
<1>3. reply = Result("none", 0, 0, 0, "ok", <<>>)
  BY DEF Init
<1>4. ReplyOK /\ WholePagesAreServed
  BY <1>3 DEF Result, ReplyOK, WholePagesAreServed, NSIDs
<1>5. SweepOK
  <2>1. CASE sweep = NoSweep
    BY <2>1 DEF SweepOK
  <2>2. ASSUME NEW s \in Sweeps, sweep = [stage |-> "begin", gen |-> NoGen, given |-> <<>>, run |-> s]
        PROVE  SweepOK
    <3>1. <<>> \in Seq(Nat)
      OBVIOUS
    <3>2. sweep \in Programs /\ sweep.stage = "begin"
      BY <2>2, <3>1 DEF Programs
    <3> QED
      BY <3>2 DEF SweepOK
  <2> QED
    BY <2>1, <2>2 DEF Init, NoSweep
<1> QED
  BY <1>1, <1>2, <1>4, <1>5 DEF IInv

(* Every call of a user is a write, a read, a command that touches no file, *)
(* or a reset of the function.                                              *)
Answered ==
    \E op, out, data : \E ns \in NSIDs \union {AllNamespaces} :
        /\ reply' = Result(op, ns, 0, 0, out, data) /\ op \notin {"write", "read", "reset"}
        /\ mm' = mm

Stores ==
    \E ns \in NSIDs, lba \in Nat, n \in Nat \ {0}, data \in Seq(Nat) :
        Len(data) = Cells(ns, n) /\ Written(ns, lba, n, data)

Fetches == \E ns \in NSIDs, lba \in Nat, n \in Nat \ {0} : Fetched(ns, lba, n)

Handled == Stores \/ Fetches \/ Answered \/ FunctionReset

LEMMA AnswersAnswered ==
    ASSUME NEW op, NEW ns, NEW out, NEW data, Answers(op, ns, out, data),
           op \notin {"write", "read", "reset"}, ns \in NSIDs \union {AllNamespaces}
    PROVE  Handled
BY DEF Answers, Answered, Handled

LEMMA ShellHandled ==
    ASSUME IInv, ShellCall
    PROVE  Handled /\ SideOK' /\ sweep' = sweep
<1>1. /\ FilesOK /\ calls' = calls + 1 /\ calls' \in 0 .. MaxCalls /\ sweep' = sweep
      /\ power \in PowerStates /\ \A ns \in Namespaces : idData[ns] \in {NoData, IdNamespace(ns)}
      /\ calls \in Nat
  <2>1. FilesOK /\ SideOK
    BY DEF IInv
  <2>2. calls < MaxCalls /\ calls' = calls + 1 /\ sweep' = sweep
    BY DEF ShellCall
  <2>3. MaxCalls \in Nat /\ calls \in 0 .. MaxCalls
    BY <2>1, SizesAssumption DEF SideOK
  <2>4. calls \in Nat /\ calls + 1 \in 0 .. MaxCalls
    BY <2>2, <2>3
  <2> QED
    BY <2>1, <2>2, <2>4 DEF SideOK
<1>2. 0 \in NSIDs \union {AllNamespaces} /\ 0 \in PowerStates /\ Lengths \subseteq Nat \ {0} /\ Slbas \subseteq Nat
  BY SizesAssumption DEF NSIDs
<1> DEFINE Kept == power' = power /\ idData' = idData
<1>3. Kept => SideOK'
  BY <1>1 DEF SideOK, IdNamespace
<1>4. ASSUME NEW ns \in NSIDs, NEW lba \in Slbas, NEW n \in Lengths,
             Write(ns, lba, n, Payload(calls + 1, Cells(ns, n)))
      PROVE  Handled /\ SideOK'
  <2> DEFINE data == Payload(calls + 1, Cells(ns, n))
  <2>1. n \in Nat \ {0} /\ lba \in Nat /\ Cells(ns, n) \in Nat /\ calls + 1 \in Nat
    BY <1>1, <1>2, CellsFacts
  <2>2. data \in Seq(Nat) /\ Len(data) = Cells(ns, n)
    BY <2>1, PayloadFacts
  <2>3. Write(ns, lba, n, data)
    BY <1>4
  <2> HIDE DEF data
  <2>4. Written(ns, lba, n, data)
    BY <1>1, <2>1, <2>2, <2>3, WriteFacts
  <2>5. Handled
    BY <2>1, <2>2, <2>4 DEF Handled, Stores
  <2> QED
    BY <1>3, <2>4, <2>5 DEF Written
<1>5. ASSUME NEW ns \in NSIDs, NEW lba \in Slbas, NEW n \in Lengths, Read(ns, lba, n)
      PROVE  Handled /\ SideOK'
  <2>1. n \in Nat \ {0} /\ lba \in Nat
    BY <1>2
  <2>2. Fetched(ns, lba, n)
    BY <1>1, <1>5, <2>1, ReadFacts
  <2>3. Handled
    BY <2>1, <2>2 DEF Handled, Fetches
  <2> QED
    BY <1>3, <2>2, <2>3 DEF Fetched
<1>6. ASSUME NEW ns \in NSIDs \union {AllNamespaces}, Flush(ns) \/ Format(ns) PROVE Handled /\ SideOK'
  <2>1. Kept /\ \E op, out, data : op \notin {"write", "read", "reset"} /\ Answers(op, ns, out, data)
    BY <1>6 DEF Flush, Format
  <2> QED
    BY <1>3, <2>1, AnswersAnswered
<1>7. ASSUME NEW lid, NEW ot, GetLogPage(lid, ot) PROVE Handled /\ SideOK'
  <2>1. Kept /\ \E op, out, data : op \notin {"write", "read", "reset"} /\ Answers(op, 0, out, data)
    BY <1>7 DEF GetLogPage
  <2> QED
    BY <1>2, <1>3, <2>1, AnswersAnswered
<1>8. ASSUME NEW fid, GetFeature(fid) PROVE Handled /\ SideOK'
  <2>1. Kept /\ \E op, out, data : op \notin {"write", "read", "reset"} /\ Answers(op, 0, out, data)
    BY <1>8 DEF GetFeature
  <2> QED
    BY <1>2, <1>3, <2>1, AnswersAnswered
<1>9. ASSUME NEW fid, NEW ps \in PowerStates, NEW sv, SetFeature(fid, ps, sv) PROVE Handled /\ SideOK'
  <2>1. /\ power' \in PowerStates /\ idData' = idData
        /\ \E op, out, data : op \notin {"write", "read", "reset"} /\ Answers(op, 0, out, data)
    BY <1>1, <1>9 DEF SetFeature
  <2>2. SideOK'
    BY <1>1, <2>1 DEF SideOK, IdNamespace
  <2> QED
    BY <1>2, <2>1, <2>2, AnswersAnswered
<1>10. ASSUME NEW cns, NEW ns \in NSIDs, Identify(cns, ns) PROVE Handled /\ SideOK'
  <2>1. Kept /\ \E out, data : Answers("identify", ns, out, data)
    BY <1>10 DEF Identify
  <2> QED
    BY <1>3, <2>1, AnswersAnswered
<1>11. CASE NotSupported \/ Restart
  <2>1. Kept /\ \E op, out, data : op \notin {"write", "read", "reset"} /\ Answers(op, 0, out, data)
    <3>1. CASE NotSupported
      BY <3>1 DEF NotSupported
    <3>2. CASE Restart
      BY <3>2 DEF Restart
    <3> QED
      BY <1>11, <3>1, <3>2
  <2> QED
    BY <1>1, <1>2, <1>3, <2>1, AnswersAnswered
<1>12. CASE Initialize
  <2>1. power' = power /\ idData' = [ns \in Namespaces |-> IdNamespace(ns)] /\ Answers("initialize", 0, "ok", <<>>)
    BY <1>12 DEF Initialize
  <2>2. SideOK'
    BY <1>1, <2>1 DEF SideOK, IdNamespace
  <2>3. \E op, out, data : op \notin {"write", "read", "reset"} /\ Answers(op, 0, out, data)
    BY <2>1
  <2> QED
    BY <1>1, <1>2, <2>2, <2>3, AnswersAnswered
<1>13. CASE FunctionReset
  <2>1. power' = 0 /\ idData' = idData
    BY <1>13 DEF FunctionReset
  <2>2. SideOK'
    BY <1>1, <1>2, <2>1 DEF SideOK, IdNamespace
  <2>3. Handled
    BY <1>13 DEF Handled
  <2> QED
    BY <1>1, <2>2, <2>3
<1> HIDE DEF Kept
<1> QED
  <2>1. \/ \E ns \in NSIDs, lba \in Slbas, n \in Lengths :
              Write(ns, lba, n, Payload(calls + 1, Cells(ns, n))) \/ Read(ns, lba, n)
        \/ \E ns \in NSIDs \union {AllNamespaces} : Flush(ns) \/ Format(ns)
        \/ \E lid \in 0 .. 1, ot \in 0 .. 1 : GetLogPage(lid, ot)
        \/ \E fid \in {"power", "other"} :
              GetFeature(fid) \/ \E ps \in PowerStates, sv \in 0 .. 1 : SetFeature(fid, ps, sv)
        \/ \E cns \in {"controller", "namespace", "namespace list", "uuid list", "other"}, ns \in NSIDs :
              Identify(cns, ns)
        \/ NotSupported \/ Initialize \/ Restart \/ FunctionReset
    BY DEF ShellCall
  <2>2. Handled /\ SideOK'
    BY <1>4, <1>5, <1>6, <1>7, <1>8, <1>9, <1>10, <1>11, <1>12, <1>13, <2>1
  <2> QED
    BY <1>1, <2>2

(* A program's step is one of a user's calls or leaves the files and the    *)
(* last answer alone, and keeps the program's generator good.               *)
LEMMA SweepHandled ==
    ASSUME IInv, SweepStep
    PROVE  (Handled \/ UNCHANGED <<mm, reply>>) /\ SideOK' /\ SweepOK'
<1>1. FilesOK /\ SideOK /\ SweepOK /\ calls' = calls
  BY DEF IInv, SweepStep, SweepBegins, SweepWrites, SweepTurns, SweepReads, SweepEnds
<1>2. sweep # NoSweep
  BY DEF SweepStep, SweepBegins, SweepWrites, SweepTurns, SweepReads, SweepEnds, NoSweep
<1>3. sweep \in Programs
  BY <1>1, <1>2 DEF SweepOK
<1>4. /\ SweepNs \in Namespaces /\ SweepNs \in NSIDs /\ sweep.run \in Sweeps
      /\ sweep.run.nb \in Nat /\ sweep.run.initial \in Nat
  BY <1>3, SweepsAssumption DEF Programs, SweepNs, NSIDs
<1>5. ASSUME power' = power, idData' = idData PROVE SideOK'
  BY <1>1, <1>5 DEF SideOK, IdNamespace
<1>6. ASSUME NEW gen, NEW ok \in BOOLEAN, GoodGen(gen), gen.nb = sweep.run.nb, sweep.run.nb # 0, Takes(gen, ok)
      PROVE  SweepOK'
  <2>1. Returned(gen) \in Nat /\ gen \in Gens
    BY <1>6, GenStepsGood DEF GoodGen
  <2>2. Append(sweep.given, Returned(gen)) \in Seq(Nat)
    BY <1>3, <2>1 DEF Programs
  <2> DEFINE given == Append(sweep.given, Returned(gen))
             stage == IF ok THEN sweep.stage ELSE "failed"
  <2>3. sweep' = [sweep EXCEPT !.gen = gen, !.given = given, !.stage = stage]
    BY <1>3, <1>6 DEF Takes, Programs
  <2>4. stage \in {"begin", "write", "read", "verified", "failed"}
    BY <1>3 DEF Programs
  <2> HIDE DEF given, stage
  <2>5. sweep' \in Programs /\ sweep'.gen = gen /\ sweep'.run = sweep.run
    BY <1>3, <2>1, <2>2, <2>3, <2>4 DEF Programs, given
  <2> QED
    BY <1>6, <2>5 DEF SweepOK
<1>7. CASE SweepBegins
  <2>1. power' = power /\ idData' = [ns \in Namespaces |-> IdNamespace(ns)]
        /\ Answers("initialize", 0, "ok", <<>>)
    BY <1>7 DEF SweepBegins, Initialize
  <2>2. SideOK'
    BY <1>1, <2>1 DEF SideOK, IdNamespace
  <2>3. Handled
    <3>1. 0 \in NSIDs \union {AllNamespaces}
      BY DEF NSIDs
    <3> QED
      BY <2>1, <3>1, AnswersAnswered
  <2> DEFINE nsze == NumLbas[SweepNs]
             nb == sweep.run.nb
             initial == sweep.run.initial
             gen == NewGen(nsze, nb, initial)
  <2>4. idData'[SweepNs].nsze = nsze
    BY <1>4, <2>1 DEF IdNamespace
  <2>5. sweep' = IF MayGenerate(nsze, nb, initial)
                 THEN [sweep EXCEPT !.stage = "write", !.gen = gen]
                 ELSE [sweep EXCEPT !.stage = "failed"]
    BY <1>7, <2>4 DEF SweepBegins
  <2>6. nsze \in Nat /\ nb \in Nat /\ initial \in Nat
    BY <1>4, NamespaceFacts
  <2>7. MayGenerate(nsze, nb, initial) => GoodGen(gen) /\ gen.nb = nb /\ nb # 0
    <3> HIDE DEF nsze, nb, initial
    <3> QED
      BY <2>6, NewGenGood
  <2> HIDE DEF nsze, gen
  <2>8. SweepOK'
    <3>1. CASE MayGenerate(nsze, nb, initial)
      <4>1. sweep' = [sweep EXCEPT !.stage = "write", !.gen = gen]
        BY <2>5, <3>1
      <4>2. GoodGen(gen) /\ gen.nb = nb /\ nb # 0 /\ gen \in Gens
        BY <2>7, <3>1 DEF GoodGen
      <4>3. sweep' \in Programs /\ sweep'.gen = gen /\ sweep'.run.nb = nb
        BY <1>3, <4>1, <4>2 DEF Programs
      <4> QED
        BY <4>2, <4>3 DEF SweepOK
    <3>2. CASE ~MayGenerate(nsze, nb, initial)
      <4>1. sweep' = [sweep EXCEPT !.stage = "failed"]
        BY <2>5, <3>2
      <4>2. sweep' \in Programs /\ sweep'.stage = "failed"
        BY <1>3, <4>1 DEF Programs
      <4> QED
        BY <4>2 DEF SweepOK
    <3> QED
      BY <3>1, <3>2
  <2> QED
    BY <2>2, <2>3, <2>8
<1>8. ASSUME sweep.stage \in {"write", "read"}
      PROVE  /\ GoodGen(sweep.gen) /\ sweep.gen.nb = sweep.run.nb /\ sweep.run.nb \in Nat \ {0}
             /\ GoodGen(Drawn) /\ Drawn.nb = sweep.run.nb /\ Returned(Drawn) \in Nat
  <2>1. GoodGen(sweep.gen) /\ sweep.gen.nb = sweep.run.nb /\ sweep.run.nb # 0
    BY <1>1, <1>2, <1>8 DEF SweepOK
  <2>2. GoodGen(Drawn) /\ Drawn.nb = sweep.run.nb
    BY <2>1, GenStepsGood DEF Drawn
  <2>3. Returned(Drawn) \in Nat
    BY <2>2, GenStepsGood
  <2> QED
    BY <1>4, <2>1, <2>2, <2>3
<1>9. CASE SweepWrites
  <2> DEFINE lba == Returned(Drawn)
             nb == sweep.run.nb
             data == Payload(lba, SweepSize)
             ok == reply'.out = "ok"
  <2>1. /\ GoodGen(Drawn) /\ Drawn.nb = nb /\ nb \in Nat \ {0} /\ lba \in Nat
        /\ Write(SweepNs, lba, nb, data) /\ Takes(Drawn, ok)
    BY <1>8, <1>9 DEF SweepWrites
  <2>2. data \in Seq(Nat) /\ Len(data) = Cells(SweepNs, nb)
    <3> HIDE DEF lba, nb
    <3>1. Cells(SweepNs, nb) \in Nat
      BY <2>1, CellsFacts
    <3>2. SweepSize = Cells(SweepNs, nb)
      BY DEF SweepSize, nb
    <3> QED
      BY <2>1, <3>1, <3>2, PayloadFacts
  <2> HIDE DEF lba, data
  <2>3. Written(SweepNs, lba, nb, data)
    <3> HIDE DEF nb
    <3> QED
      BY <1>1, <2>1, <2>2, WriteFacts
  <2>4. Handled
    BY <1>4, <2>1, <2>2, <2>3 DEF Handled, Stores
  <2>5. SideOK'
    BY <1>5, <2>3 DEF Written
  <2>6. SweepOK'
    <3>1. ok \in BOOLEAN
      OBVIOUS
    <3> HIDE DEF ok
    <3> QED
      BY <1>6, <2>1, <3>1
  <2> QED
    BY <2>4, <2>5, <2>6
<1>10. CASE SweepReads
  <2> DEFINE lba == Returned(Drawn)
             nb == sweep.run.nb
             ok == reply'.out = "ok" /\ reply'.data = Payload(lba, SweepSize)
  <2>1. /\ GoodGen(Drawn) /\ Drawn.nb = nb /\ nb \in Nat \ {0} /\ lba \in Nat
        /\ Read(SweepNs, lba, nb) /\ Takes(Drawn, ok)
    BY <1>8, <1>10 DEF SweepReads
  <2>2. Fetched(SweepNs, lba, nb)
    <3> HIDE DEF lba, nb
    <3> QED
      BY <1>1, <2>1, ReadFacts
  <2>3. Handled
    BY <1>4, <2>1, <2>2 DEF Handled, Fetches
  <2>4. SideOK'
    BY <1>5, <2>2 DEF Fetched
  <2>5. SweepOK'
    <3>1. ok \in BOOLEAN
      OBVIOUS
    <3> HIDE DEF ok
    <3> QED
      BY <1>6, <2>1, <3>1
  <2> QED
    BY <2>3, <2>4, <2>5
<1>11. CASE SweepTurns
  <2>1. sweep.stage = "write" /\ UNCHANGED <<mm, power, idData, reply>>
        /\ sweep' = [sweep EXCEPT !.stage = "read", !.gen = Reset(sweep.gen), !.given = <<>>]
    BY <1>3, <1>11 DEF SweepTurns, Programs
  <2>2. GoodGen(Reset(sweep.gen)) /\ Reset(sweep.gen).nb = sweep.run.nb /\ sweep.run.nb # 0
    BY <1>8, <2>1, GenStepsGood
  <2>3. <<>> \in Seq(Nat) /\ Reset(sweep.gen) \in Gens
    BY <2>2 DEF GoodGen
  <2> DEFINE gen == Reset(sweep.gen)
  <2> HIDE DEF gen
  <2>4. sweep' = [sweep EXCEPT !.stage = "read", !.gen = gen, !.given = <<>>]
        /\ gen \in Gens /\ GoodGen(gen) /\ gen.nb = sweep.run.nb
    BY <2>1, <2>2, <2>3 DEF gen
  <2>5. sweep' \in Programs /\ sweep'.gen = gen /\ sweep'.run = sweep.run
    BY <1>3, <2>3, <2>4 DEF Programs
  <2>6. SweepOK'
    BY <2>2, <2>4, <2>5 DEF SweepOK
  <2> QED
    BY <1>5, <2>1, <2>6
<1>12. CASE SweepEnds
  <2>1. UNCHANGED <<mm, power, idData, reply>> /\ sweep' = [sweep EXCEPT !.stage = "verified"]
    BY <1>12 DEF SweepEnds
  <2>2. sweep' \in Programs /\ sweep'.stage = "verified"
    BY <1>3, <2>1 DEF Programs
  <2>3. SweepOK'
    BY <2>2 DEF SweepOK
  <2> QED
    BY <1>5, <2>1, <2>3
<1> QED
  BY <1>7, <1>9, <1>10, <1>11, <1>12 DEF SweepStep

(* What a call leaves of the files and of its answer.                       *)
LEMMA HandledKeeps ==
    ASSUME IInv, Handled
    PROVE  FilesOK' /\ ReplyOK' /\ WholePagesAreServed'
<1>1. FilesOK
  BY DEF IInv
<1>2. ASSUME mm' = mm PROVE FilesOK'
  BY <1>1, <1>2 DEF FilesOK
<1>3. CASE Stores
  <2>1. PICK ns \in NSIDs, lba \in Nat, n \in Nat \ {0}, data \in Seq(Nat) :
               Len(data) = Cells(ns, n) /\ Written(ns, lba, n, data)
    BY <1>3 DEF Stores
  <2>2. reply' = Result("write", ns, lba, n, reply'.out, data)
    BY <2>1 DEF Written
  <2>3. reply'.ns = ns /\ reply'.lba = lba /\ reply'.n = n /\ reply'.data = data
    BY <2>2 DEF Result
  <2>4. FilesOK'
    <3>1. CASE reply'.out # "ok"
      BY <1>2, <2>1, <3>1 DEF Written
    <3>2. CASE reply'.out = "ok"
      <4> DEFINE file == Stored(mm[ns], ns, lba, data)
      <4>1. ns \in Namespaces /\ mm' = [mm EXCEPT ![ns] = file]
        BY <2>1, <3>2 DEF Written
      <4>2. mm[ns] \in Seq(Nat)
        BY <1>1, <4>1 DEF FilesOK
      <4>3. file \in Seq(Nat) /\ Len(file) = Len(mm[ns])
        BY <4>1, <4>2, StoredFacts
      <4> HIDE DEF file
      <4> QED
        BY <1>1, <4>1, <4>3 DEF FilesOK
    <3> QED
      BY <3>1, <3>2
  <2>5. ReplyOK'
    BY <2>3 DEF ReplyOK
  <2>6. WholePagesAreServed'
    BY <2>1, <2>3 DEF WholePagesAreServed, Written
  <2> QED
    BY <2>4, <2>5, <2>6
<1>4. CASE Fetches
  <2>1. PICK ns \in NSIDs, lba \in Nat, n \in Nat \ {0} : Fetched(ns, lba, n)
    BY <1>4 DEF Fetches
  <2>2. reply' = Result("read", ns, lba, n, reply'.out, reply'.data) /\ mm' = mm
    BY <2>1 DEF Fetched
  <2>3. reply'.ns = ns /\ reply'.lba = lba /\ reply'.n = n
    BY <2>2 DEF Result
  <2>4. ReplyOK'
    BY <2>3 DEF ReplyOK
  <2>5. WholePagesAreServed'
    BY <2>1, <2>3 DEF WholePagesAreServed, Fetched
  <2> QED
    BY <1>2, <2>2, <2>4, <2>5
<1>5. CASE Answered
  <2>1. PICK op, out, data : \E ns \in NSIDs \union {AllNamespaces} :
               /\ reply' = Result(op, ns, 0, 0, out, data) /\ op \notin {"write", "read", "reset"}
               /\ mm' = mm
    BY <1>5 DEF Answered
  <2>2. PICK ns \in NSIDs \union {AllNamespaces} :
               /\ reply' = Result(op, ns, 0, 0, out, data) /\ op \notin {"write", "read", "reset"}
               /\ mm' = mm
    BY <2>1
  <2>3. reply'.op = op /\ reply'.ns = ns /\ reply'.lba = 0 /\ reply'.n = 0
    BY <2>2 DEF Result
  <2>4. ReplyOK'
    BY <2>2, <2>3 DEF ReplyOK
  <2>5. WholePagesAreServed'
    BY <2>2, <2>3 DEF WholePagesAreServed
  <2> QED
    BY <1>2, <2>2, <2>4, <2>5
<1>6. CASE FunctionReset
  <2>1. reply'.op = "reset" /\ reply'.ns = 0 /\ reply'.lba = 0 /\ reply'.n = 0 /\ mm' = ClearFiles
    BY <1>6 DEF FunctionReset, Result
  <2>2. ClearFiles \in [Namespaces -> Seq(Nat)]
    BY ClearFilesFacts DEF ClearFiles
  <2>3. FilesOK'
    BY <2>1, <2>2, ClearFilesFacts DEF FilesOK
  <2>4. ReplyOK' /\ WholePagesAreServed'
    BY <2>1 DEF ReplyOK, WholePagesAreServed, NSIDs
  <2> QED
    BY <2>3, <2>4
<1> QED
  BY <1>3, <1>4, <1>5, <1>6 DEF Handled

(* Every step is a call or leaves the files and the last answer alone.      *)
LEMMA NextHandled ==
    ASSUME IInv, [Next]_vars
    PROVE  (Handled \/ UNCHANGED <<mm, reply>>) /\ SideOK' /\ SweepOK'
<1>1. CASE ShellCall
  <2>1. Handled /\ SideOK' /\ sweep' = sweep
    BY <1>1, ShellHandled
  <2>2. SweepOK'
    BY <2>1 DEF IInv, SweepOK
  <2> QED
    BY <2>1, <2>2
<1>2. CASE SweepStep
  BY <1>2, SweepHandled
<1>3. CASE UNCHANGED vars
  BY <1>3 DEF vars, IInv, SideOK, SweepOK
<1> QED
  BY <1>1, <1>2, <1>3 DEF Next

LEMMA StepInv ==
    ASSUME IInv, [Next]_vars
    PROVE  IInv'
<1>1. (Handled \/ UNCHANGED <<mm, reply>>) /\ SideOK' /\ SweepOK'
  BY NextHandled
<1>2. FilesOK' /\ ReplyOK' /\ WholePagesAreServed'
  <2>1. CASE Handled
    BY <2>1, HandledKeeps
  <2>2. CASE UNCHANGED <<mm, reply>>
    BY <2>2 DEF IInv, FilesOK, ReplyOK, WholePagesAreServed
  <2> QED
    BY <1>1, <2>1, <2>2
<1> QED
  BY <1>1, <1>2 DEF IInv

(* Files keep their size through every slice assignment, identify data says *)
(* of a namespace what it is, and a program draws LBAs and nothing else.     *)
THEOREM TypesCorrect == Spec => []TypeOK
<1>1. IInv /\ [Next]_vars => IInv'
  BY StepInv
<1> QED
  BY InitInv, <1>1, InvTypes, PTL DEF Spec

(* A transfer within its namespace, of one page or less or of three and     *)
(* more whole pages, succeeds, and a read brings all of it: the slices that  *)
(* PRP.get_data_buffer and set_data_buffer compute refuse and lose nothing   *)
(* of such data, whatever the sizes of pages and blocks.                     *)
THEOREM TransfersServed == Spec => []WholePagesAreServed
<1>1. IInv /\ [Next]_vars => IInv'
  BY StepInv
<1>2. IInv => WholePagesAreServed
  BY DEF IInv
<1> QED
  BY InitInv, <1>1, <1>2, PTL DEF Spec

-----------------------------------------------------------------------------
(***************************************************************************)
(* The files implement BlockStore.  A block is a slice of its file, and a   *)
(* transfer a slice of as many blocks; that the two line up is arithmetic.  *)
(***************************************************************************)
Block(file, ns, lba) == SubSeq(file, lba * BlockSize[ns] + 1, (lba + 1) * BlockSize[ns])

LEMMA MulMonotone ==
    ASSUME NEW a \in Nat, NEW b \in Nat, a <= b, NEW c \in Nat
    PROVE  a * c \in Nat /\ b * c \in Nat /\ a * c <= b * c
<1> DEFINE d == b - a
<1>1. d \in Nat /\ b = a + d
  OBVIOUS
<1> HIDE DEF d
<1>2. a * c \in Nat /\ d * c \in Nat /\ (a + d) * c = a * c + d * c
  BY <1>1
<1> QED
  BY <1>1, <1>2

(* The cells of block lba of a sequence that has m blocks or more.          *)
BlockIs(file, ns, lba) ==
    /\ lba * BlockSize[ns] \in Nat
    /\ lba * BlockSize[ns] + BlockSize[ns] <= Len(file)
    /\ Block(file, ns, lba) \in Seq(Nat) /\ Len(Block(file, ns, lba)) = BlockSize[ns]
    /\ \A i \in 1 .. BlockSize[ns] : Block(file, ns, lba)[i] = file[lba * BlockSize[ns] + i]

LEMMA BlockFacts ==
    ASSUME NEW ns \in Namespaces, NEW m \in Nat, NEW file \in Seq(Nat),
           m * BlockSize[ns] <= Len(file), NEW lba \in 0 .. m - 1
    PROVE  BlockIs(file, ns, lba)
<1> DEFINE b == BlockSize[ns]
           start == lba * b
           stop == (lba + 1) * b
<1>1. b \in Nat \ {0} /\ lba \in Nat /\ lba + 1 \in Nat /\ lba + 1 <= m
  BY NamespaceFacts
<1>2. m * b <= Len(file) /\ Len(file) \in Nat
  OBVIOUS
<1>3. Block(file, ns, lba) = SubSeq(file, start + 1, stop)
  BY DEF Block
<1> HIDE DEF b
<1>4. start \in Nat /\ stop = start + b
  BY <1>1
<1>5. stop <= m * b /\ m * b \in Nat
  BY <1>1, MulMonotone
<1> HIDE DEF start, stop
<1>6. start + b <= Len(file)
  BY <1>1, <1>2, <1>4, <1>5
<1> DEFINE r == SubSeq(file, start + 1, stop)
<1>7. r \in Seq(Nat) /\ Len(r) = b
  BY <1>1, <1>2, <1>4, <1>6
<1>8. \A i \in 1 .. b : r[i] = file[start + i]
  BY <1>1, <1>2, <1>4, <1>6
<1> HIDE DEF r
<1>9. Block(file, ns, lba) = r
  BY <1>3 DEF r
<1> QED
  BY <1>4, <1>6, <1>7, <1>8, <1>9 DEF b, start, BlockIs

(* A slice of n blocks from block lba on is stored: these blocks are the    *)
(* data's, the others the file's.                                           *)
LEMMA StoredBlocks ==
    ASSUME NEW ns \in Namespaces, NEW file \in Seq(Nat), Len(file) = NumLbas[ns] * BlockSize[ns],
           NEW lba \in Nat, NEW n \in Nat \ {0}, lba + n <= NumLbas[ns],
           NEW data \in Seq(Nat), Len(data) = n * BlockSize[ns],
           NEW l \in 0 .. NumLbas[ns] - 1
    PROVE  Block(Stored(file, ns, lba, data), ns, l) =
             IF l \in lba .. lba + n - 1 THEN Block(data, ns, l - lba) ELSE Block(file, ns, l)
<1> DEFINE b == BlockSize[ns]
           m == NumLbas[ns]
           r == Stored(file, ns, lba, data)
           start == lba * b
           at == l * b
<1>1. b \in Nat \ {0} /\ m \in Nat /\ l \in Nat /\ m * b \in Nat
  BY NamespaceFacts
<1>2. /\ r \in Seq(Nat) /\ Len(r) = Len(file)
      /\ \A i \in 1 .. Len(file) :
           r[i] = IF i \in start + 1 .. start + Len(data) THEN data[i - start] ELSE file[i]
  BY StoredFacts
<1> HIDE DEF r
<1>3. /\ at \in Nat /\ at + b <= Len(file)
      /\ Block(r, ns, l) \in Seq(Nat) /\ Len(Block(r, ns, l)) = b
      /\ \A i \in 1 .. b : Block(r, ns, l)[i] = r[at + i]
      /\ Block(file, ns, l) \in Seq(Nat) /\ Len(Block(file, ns, l)) = b
      /\ \A i \in 1 .. b : Block(file, ns, l)[i] = file[at + i]
  <2>1. m * b <= Len(file) /\ m * b <= Len(r) /\ l \in 0 .. m - 1
    BY <1>1, <1>2
  <2>2. ASSUME NEW f \in Seq(Nat), m * b <= Len(f)
        PROVE  /\ at \in Nat /\ at + b <= Len(f)
               /\ Block(f, ns, l) \in Seq(Nat) /\ Len(Block(f, ns, l)) = b
               /\ \A i \in 1 .. b : Block(f, ns, l)[i] = f[at + i]
    <3>1. ns \in Namespaces /\ m \in Nat /\ l \in 0 .. m - 1 /\ f \in Seq(Nat) /\ m * b <= Len(f)
      BY <1>1, <2>1, <2>2
    <3>2. BlockIs(f, ns, l)
      BY ONLY <3>1, BlockFacts
    <3> QED
      BY ONLY <3>2 DEF BlockIs
  <2> HIDE DEF at, b, m
  <2> QED
    BY <1>2, <2>1, <2>2
<1>4. Len(file) \in Nat /\ start \in Nat /\ Len(data) = n * b /\ n * b \in Nat
  BY <1>1
<1>5. CASE l \in lba .. lba + n - 1
  <2> DEFINE k == l - lba
             off == k * b
  <2>1. k \in 0 .. n - 1 /\ k \in Nat /\ l = lba + k
    BY <1>1, <1>5
  <2>2. /\ off \in Nat /\ off + b <= Len(data)
        /\ Block(data, ns, k) \in Seq(Nat) /\ Len(Block(data, ns, k)) = b
        /\ \A i \in 1 .. b : Block(data, ns, k)[i] = data[off + i]
    <3> HIDE DEF k
    <3>1. n \in Nat /\ n * b <= Len(data)
      BY <1>4
    <3>2. BlockIs(data, ns, k)
      BY <2>1, <3>1, BlockFacts
    <3> QED
      BY <3>2 DEF BlockIs
  <2>3. at = start + off
    <3> HIDE DEF k
    <3> QED
      BY <1>1, <2>1
  <2> HIDE DEF off, start, at, b
  <2>4. ASSUME NEW i \in 1 .. b PROVE r[at + i] = data[off + i]
    <3>1. at + i \in 1 .. Len(file) /\ at + i \in start + 1 .. start + Len(data)
          /\ (at + i) - start = off + i
      <4>1. /\ at \in Nat /\ at + b <= Len(file) /\ off \in Nat /\ off + b <= Len(data)
            /\ b \in Nat /\ Len(file) \in Nat /\ start \in Nat /\ Len(data) \in Nat
        BY <1>1, <1>3, <1>4, <2>2
      <4> QED
        BY ONLY <4>1, <2>3, i \in 1 .. b
    <3> QED
      BY <1>2, <3>1
  <2>5. \A i \in 1 .. b : Block(r, ns, l)[i] = Block(data, ns, k)[i]
    BY <1>3, <2>2, <2>4
  <2>6. Block(r, ns, l) = Block(data, ns, k)
    <3> DEFINE x == Block(r, ns, l)
               y == Block(data, ns, k)
    <3>1. x \in Seq(Nat) /\ y \in Seq(Nat) /\ Len(x) = b /\ Len(y) = b /\ \A i \in 1 .. b : x[i] = y[i]
      BY <1>3, <2>2, <2>5
    <3> HIDE DEF x, y
    <3>2. x = y
      BY <3>1, SeqEqual
    <3> QED
      BY <3>2 DEF x, y
  <2> QED
    BY <1>5, <2>6 DEF r
<1>6. CASE l \notin lba .. lba + n - 1
  <2>1. at + b <= start \/ start + Len(data) <= at
    <3>1. CASE l < lba
      <4>1. l + 1 \in Nat /\ l + 1 <= lba
        BY <1>1, <3>1
      <4>2. (l + 1) * b <= lba * b
        BY <1>1, <4>1, MulMonotone
      <4>3. (l + 1) * b = at + b
        <5>1. l \in Nat /\ b \in Nat
          BY <1>1
        <5> HIDE DEF b
        <5> QED
          BY ONLY <5>1
      <4> QED
        BY <4>2, <4>3
    <3>2. CASE l >= lba
      <4>1. lba + n \in Nat /\ lba + n <= l
        BY <1>1, <1>6, <3>2
      <4>2. (lba + n) * b <= l * b
        BY <1>1, <4>1, MulMonotone
      <4>3. (lba + n) * b = start + n * b
        BY <1>1
      <4> QED
        BY <1>4, <4>2, <4>3
    <3> QED
      BY <1>1, <3>1, <3>2
  <2> HIDE DEF start, at, b
  <2>2. ASSUME NEW i \in 1 .. b PROVE r[at + i] = file[at + i]
    <3>1. at + i \in 1 .. Len(file) /\ at + i \notin start + 1 .. start + Len(data)
      <4>1. /\ at \in Nat /\ at + b <= Len(file) /\ b \in Nat /\ Len(file) \in Nat
            /\ start \in Nat /\ Len(data) \in Nat
        BY <1>1, <1>3, <1>4
      <4> QED
        BY ONLY <4>1, <2>1, i \in 1 .. b
    <3> QED
      BY <1>2, <3>1
  <2> DEFINE x == Block(r, ns, l)
             y == Block(file, ns, l)
  <2>3. x \in Seq(Nat) /\ y \in Seq(Nat) /\ Len(x) = b /\ Len(y) = b /\ \A i \in 1 .. b : x[i] = y[i]
    BY <1>3, <2>2
  <2> HIDE DEF x, y
  <2>4. x = y
    BY <2>3, SeqEqual
  <2> QED
    BY <1>6, <2>4 DEF x, y, r
<1> QED
  BY <1>5, <1>6

(* Clear files hold clear blocks.                                           *)
LEMMA ClearBlocks ==
    [ns \in Namespaces |-> [lba \in 0 .. NumLbas[ns] - 1 |-> Block(ClearFiles[ns], ns, lba)]] = Store!Clear
<1>1. ASSUME NEW ns \in Namespaces, NEW lba \in 0 .. NumLbas[ns] - 1
      PROVE  Block(ClearFiles[ns], ns, lba) = Store!ZeroBlock(ns)
  <2> DEFINE b == BlockSize[ns]
             m == NumLbas[ns]
             file == ClearFiles[ns]
             x == Block(file, ns, lba)
             y == [i \in 1 .. b |-> 0]
  <2>1. b \in Nat \ {0} /\ m \in Nat /\ m * b \in Nat
    BY NamespaceFacts
  <2>2. file \in Seq(Nat) /\ Len(file) = m * b /\ \A i \in 1 .. m * b : file[i] = 0
    BY ClearFilesFacts
  <2> HIDE DEF file
  <2>3. /\ lba * b \in Nat /\ lba * b + b <= Len(file)
        /\ x \in Seq(Nat) /\ Len(x) = b /\ \A i \in 1 .. b : x[i] = file[lba * b + i]
    <3>1. m * b <= Len(file)
      BY <2>1, <2>2
    <3>2. BlockIs(file, ns, lba)
      BY <2>1, <2>2, <3>1, BlockFacts
    <3> QED
      BY <3>2 DEF BlockIs
  <2>4. Store!ZeroBlock(ns) = y
    BY DEF Store!ZeroBlock
  <2> DEFINE at == lba * b
  <2>5. \A i \in 1 .. b : at + i \in 1 .. m * b
    <3> HIDE DEF at, b, m, x
    <3>1. at \in Nat /\ at + b <= m * b
      BY <2>2, <2>3 DEF at
    <3> QED
      BY <2>1, <3>1
  <2>6. \A i \in 1 .. b : x[i] = 0
    BY <2>2, <2>3, <2>5
  <2> HIDE DEF b, m, x
  <2>7. y \in Seq(Nat) /\ Len(y) = b /\ \A i \in 1 .. b : y[i] = 0
    BY <2>1
  <2> HIDE DEF y
  <2>8. x = y
    BY <2>1, <2>3, <2>6, <2>7, SeqEqual
  <2> QED
    BY <2>4, <2>8 DEF x, file
<1> QED
  BY <1>1 DEF Store!Clear

LEMMA ContentsAreBlocks ==
    BlockContents = [ns \in Namespaces |-> [lba \in 0 .. NumLbas[ns] - 1 |-> Block(mm[ns], ns, lba)]]
BY DEF BlockContents, Block

(* A write that is answered puts its data into the blocks it names.         *)
LEMMA WrittenPuts ==
    ASSUME FilesOK, NEW ns, NEW lba \in Nat, NEW n \in Nat \ {0}, NEW data \in Seq(Nat),
           Len(data) = Cells(ns, n), Written(ns, lba, n, data), reply'.out = "ok"
    PROVE  Store!Put
<1> DEFINE b == BlockSize[ns]
           m == NumLbas[ns]
           named == lba .. lba + n - 1
           file == Stored(mm[ns], ns, lba, data)
<1>1. ns \in Namespaces /\ lba + n <= m /\ mm' = [mm EXCEPT ![ns] = file]
  BY DEF Written
<1>2. reply'.op = "write" /\ reply'.ns = ns /\ reply'.lba = lba /\ reply'.n = n /\ reply'.data = data
  <2>1. reply' = Result("write", ns, lba, n, reply'.out, data)
    BY DEF Written
  <2> QED
    BY <2>1 DEF Result
<1>3. m \in Nat /\ mm \in [Namespaces -> Seq(Nat)] /\ mm[ns] \in Seq(Nat) /\ Len(mm[ns]) = m * b
  BY <1>1, NamespaceFacts DEF FilesOK
<1>4. Len(data) = n * b
  BY <1>1, CellsFacts
<1>5. \A l \in 0 .. m - 1 : Block(file, ns, l) = IF l \in named THEN Block(data, ns, l - lba) ELSE Block(mm[ns], ns, l)
  BY <1>1, <1>3, <1>4, StoredBlocks
<1>6. DOMAIN BlockContents = Namespaces /\ DOMAIN BlockContents[ns] = 0 .. m - 1
      /\ \A l \in 0 .. m - 1 : BlockContents[ns][l] = Block(mm[ns], ns, l)
  BY <1>1, ContentsAreBlocks
<1>7. named \subseteq DOMAIN BlockContents[ns]
  BY <1>1, <1>3, <1>6
<1> HIDE DEF file, named
<1> DEFINE new == [l \in 0 .. m - 1 |-> IF l \in named THEN Block(data, ns, l - lba) ELSE BlockContents[ns][l]]
<1>8. BlockContents' = [s \in Namespaces |-> [l \in 0 .. NumLbas[s] - 1 |-> Block(mm'[s], s, l)]]
  BY DEF BlockContents, Block
<1>9. BlockContents' = [BlockContents EXCEPT ![ns] = new]
  <2>1. ASSUME NEW s \in Namespaces, s # ns PROVE mm'[s] = mm[s]
    BY <1>1, <1>3, <2>1
  <2>2. mm'[ns] = file
    BY <1>1, <1>3
  <2>3. [l \in 0 .. m - 1 |-> Block(mm'[ns], ns, l)] = new
    BY <1>5, <1>6, <2>2
  <2> HIDE DEF new
  <2>4. BlockContents'[ns] = new
    BY <1>1, <1>8, <2>3
  <2>5. ASSUME NEW s \in Namespaces, s # ns PROVE BlockContents'[s] = BlockContents[s]
    BY <1>8, <2>1, <2>5, ContentsAreBlocks
  <2>6. DOMAIN BlockContents' = Namespaces
    BY <1>8
  <2> DEFINE x == BlockContents'
             y == BlockContents
  <2>7. x = [s \in Namespaces |-> x[s]] /\ y = [s \in Namespaces |-> y[s]]
    BY <1>8, ContentsAreBlocks
  <2>8. x[ns] = new /\ \A s \in Namespaces : s # ns => x[s] = y[s]
    BY <2>4, <2>5
  <2> HIDE DEF x, y
  <2>9. x = [y EXCEPT ![ns] = new]
    BY <1>1, <2>7, <2>8
  <2> QED
    BY <2>9 DEF x, y
<1>10. new = [l \in DOMAIN BlockContents[ns] |->
                IF l \in named THEN Store!BlockOf(ns, data, l - lba) ELSE BlockContents[ns][l]]
  BY <1>6 DEF Store!BlockOf, Block
<1>11. [BlockContents EXCEPT ![ns] = new] =
       [BlockContents EXCEPT ![ns] = [l \in DOMAIN @ |->
                IF l \in named THEN Store!BlockOf(ns, data, l - lba) ELSE @[l]]]
  <2> HIDE DEF new
  <2> QED
    BY <1>1, <1>6, <1>10
<1> HIDE DEF new
<1> QED
  BY <1>2, <1>7, <1>9, <1>11 DEF Store!Put, Store!Accepted, named

(* A read that is answered brings blocks as they are, from the first on.    *)
LEMMA FetchedGets ==
    ASSUME FilesOK, NEW ns, NEW lba \in Nat, NEW n \in Nat \ {0},
           Fetched(ns, lba, n), reply'.out = "ok"
    PROVE  Store!Get
<1> DEFINE b == BlockSize[ns]
           m == NumLbas[ns]
           file == mm[ns]
           data == reply'.data
           len == Len(data)
           q == len \div b
<1>1. /\ ns \in Namespaces /\ lba + n <= m /\ data \in Seq(Nat)
      /\ b <= len /\ len <= n * b
      /\ \A i \in 1 .. len : data[i] = file[lba * b + i]
      /\ UNCHANGED mm
  BY DEF Fetched
<1>2. reply'.op = "read" /\ reply'.ns = ns /\ reply'.lba = lba /\ reply'.n = n
  <2>1. reply' = Result("read", ns, lba, n, reply'.out, reply'.data)
    BY DEF Fetched
  <2> QED
    BY <2>1 DEF Result
<1>3. m \in Nat /\ b \in Nat \ {0} /\ file \in Seq(Nat) /\ Len(file) = m * b /\ m * b \in Nat /\ len \in Nat
  BY <1>1, NamespaceFacts DEF FilesOK
<1>4. q \in Nat /\ q * b <= len /\ len < q * b + b /\ q * b \in Nat
  <2> DEFINE r == len % b
  <2> HIDE DEF b, data, len
  <2>1. q \in Nat /\ r \in 0 .. b - 1 /\ len = b * q + r
    BY <1>3, DivFacts DEF len
  <2> HIDE DEF q, r
  <2>2. b * q = q * b /\ q * b \in Nat
    BY <1>3, <2>1
  <2> QED
    BY <1>3, <2>1, <2>2
<1>5. q \in 1 .. n
  <2> HIDE DEF b, data, len, q
  <2>1. q # 0
    BY <1>1, <1>3, <1>4
  <2>2. q <= n
    <3> SUFFICES ASSUME n + 1 <= q PROVE FALSE
      BY <1>4
    <3>1. (n + 1) * b <= q * b
      BY <1>3, <1>4, MulMonotone
    <3>2. (n + 1) * b = n * b + b /\ n * b \in Nat
      BY <1>3
    <3>3. len <= n * b /\ q * b <= len /\ b > 0 /\ b \in Nat /\ len \in Nat /\ q * b \in Nat
      BY <1>1, <1>3, <1>4
    <3> QED
      BY ONLY <3>1, <3>2, <3>3
  <2> QED
    BY <1>4, <2>1, <2>2
<1>6. BlockContents[ns] = [l \in 0 .. m - 1 |-> Block(file, ns, l)]
  BY <1>1, ContentsAreBlocks
<1>7. UNCHANGED BlockContents
  BY <1>1 DEF BlockContents
<1>8. ASSUME NEW k \in 0 .. q - 1
      PROVE  Store!BlockOf(ns, data, k) = BlockContents[ns][lba + k]
  <2> DEFINE l == lba + k
             x == Block(data, ns, k)
             y == Block(file, ns, l)
             off == k * b
             at == l * b
             start == lba * b
  <2>1. k \in Nat /\ l \in 0 .. m - 1 /\ l \in Nat
    BY <1>1, <1>3, <1>5
  <2>2. BlockContents[ns][l] = y
    <3> HIDE DEF l, y
    <3>1. BlockContents[ns][l] = Block(file, ns, l)
      BY <1>6, <2>1
    <3> QED
      BY <3>1 DEF y
  <2>3. BlockIs(data, ns, k)
    BY <1>1, <1>4, BlockFacts
  <2>4. BlockIs(file, ns, l)
    <3> HIDE DEF l, file
    <3>1. m * b <= Len(file)
      BY <1>3
    <3> QED
      BY <1>1, <1>3, <2>1, <3>1, BlockFacts
  <2>5. /\ off \in Nat /\ off + b <= len
        /\ x \in Seq(Nat) /\ Len(x) = b /\ \A i \in 1 .. b : x[i] = data[off + i]
    BY <2>3 DEF BlockIs
  <2>6. y \in Seq(Nat) /\ Len(y) = b /\ \A i \in 1 .. b : y[i] = file[at + i]
    BY <2>4 DEF BlockIs
  <2>7. start \in Nat /\ at = start + off
    <3>1. lba \in Nat /\ k \in Nat /\ b \in Nat
      BY <1>3, <2>1
    <3> HIDE DEF b
    <3> QED
      BY ONLY <3>1
  <2>8. ASSUME NEW i \in 1 .. b PROVE x[i] = y[i]
    <3> HIDE DEF x, y, off, at, start, l
    <3>1. i \in Nat /\ b \in Nat
      BY <1>3
    <3> HIDE DEF b, len
    <3>2. off + i \in 1 .. len /\ at + i = start + (off + i)
      BY <1>3, <2>5, <2>7, <3>1, i \in 1 .. b
    <3>3. data[off + i] = file[start + (off + i)]
      BY <1>1, <3>2 DEF len, start, b
    <3> QED
      BY <2>5, <2>6, <3>2, <3>3
  <2>9. x = y
    <3> HIDE DEF x, y
    <3>1. b \in Nat
      BY <1>3
    <3> HIDE DEF b
    <3> QED
      BY <2>5, <2>6, <2>8, <3>1, SeqEqual
  <2>10. Store!BlockOf(ns, data, k) = x
    BY DEF Store!BlockOf, Block
  <2> QED
    BY <2>2, <2>9, <2>10
<1> HIDE DEF q
<1> QED
  BY <1>2, <1>5, <1>7, <1>8 DEF Store!Get, Store!Accepted, q, len, b

(* Every call is an operation of the array of blocks.                       *)
LEMMA HandledIsStoreStep ==
    ASSUME IInv, Handled
    PROVE  Store!StoreNext
<1>1. FilesOK
  BY DEF IInv
<1>2. ASSUME mm' = mm, reply'.out # "ok" \/ reply'.op \notin {"write", "read", "reset"} PROVE Store!StoreNext
  BY <1>2 DEF BlockContents, Store!StoreNext, Store!Other
<1>3. CASE Stores
  <2>1. PICK ns \in NSIDs, lba \in Nat, n \in Nat \ {0}, data \in Seq(Nat) :
               Len(data) = Cells(ns, n) /\ Written(ns, lba, n, data)
    BY <1>3 DEF Stores
  <2>2. CASE reply'.out = "ok"
    BY <1>1, <2>1, <2>2, WrittenPuts DEF Store!StoreNext
  <2>3. CASE reply'.out # "ok"
    BY <1>2, <2>1, <2>3 DEF Written
  <2> QED
    BY <2>2, <2>3
<1>4. CASE Fetches
  <2>1. PICK ns \in NSIDs, lba \in Nat, n \in Nat \ {0} : Fetched(ns, lba, n)
    BY <1>4 DEF Fetches
  <2>2. CASE reply'.out = "ok"
    BY <1>1, <2>1, <2>2, FetchedGets DEF Store!StoreNext
  <2>3. CASE reply'.out # "ok"
    BY <1>2, <2>1, <2>3 DEF Fetched
  <2> QED
    BY <2>2, <2>3
<1>5. CASE Answered
  <2>1. mm' = mm /\ reply'.op \notin {"write", "read", "reset"}
    BY <1>5 DEF Answered, Result
  <2> QED
    BY <1>2, <2>1
<1>6. CASE FunctionReset
  <2>1. mm' = ClearFiles /\ reply'.op = "reset" /\ reply'.out = "ok"
    BY <1>6 DEF FunctionReset, Result
  <2>2. BlockContents' = [ns \in Namespaces |-> [lba \in 0 .. NumLbas[ns] - 1 |-> Block(mm'[ns], ns, lba)]]
    BY DEF BlockContents, Block
  <2>3. BlockContents' = Store!Clear
    BY <2>1, <2>2, ClearBlocks
  <2> QED
    BY <2>1, <2>3 DEF Store!StoreNext, Store!Erase, Store!Accepted
<1> QED
  BY <1>3, <1>4, <1>5, <1>6 DEF Handled

(* The handlers implement an array of blocks: what a write was answered for *)
(* is in the blocks it names and in no other, what a read brings is what    *)
(* they hold, whatever fails changes nothing, and only a function level     *)
(* reset clears them - through the pages of PRPs, the segments that         *)
(* get_data_segments finds and the slices of the mapped files.              *)
THEOREM StoreImplemented == Spec => ImplementsBlockStore
<1>1. Init => Store!StoreInit
  <2> SUFFICES ASSUME Init PROVE Store!StoreInit
    OBVIOUS
  <2>1. mm = ClearFiles
    BY DEF Init
  <2> QED
    BY <2>1, ContentsAreBlocks, ClearBlocks DEF Store!StoreInit
<1>2. IInv /\ [Next]_vars => [Store!StoreNext]_<<BlockContents, reply>>
  <2> SUFFICES ASSUME IInv, [Next]_vars PROVE [Store!StoreNext]_<<BlockContents, reply>>
    OBVIOUS
  <2>1. CASE Handled
    BY <2>1, HandledIsStoreStep
  <2>2. CASE UNCHANGED <<mm, reply>>
    BY <2>2 DEF BlockContents
  <2> QED
    BY <2>1, <2>2, NextHandled
<1>3. IInv /\ [Next]_vars => IInv'
  BY StepInv
<1> QED
  BY InitInv, <1>1, <1>2, <1>3, PTL DEF Spec, ImplementsBlockStore, Store!StoreSpec

=============================================================================

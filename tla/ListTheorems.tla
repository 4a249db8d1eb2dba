---------------------------- MODULE ListTheorems ----------------------------
(***************************************************************************)
(* Facts that the proofs of several modules share: division, induction over *)
(* numbers, and what Keep returns, for every list and every set.  Keep is a *)
(* recursive function: the proofs need that such a function exists, and     *)
(* induction over its argument.  Both are derived here from a theorem about *)
(* finite sets that has no operator for a parameter.                        *)
(***************************************************************************)
EXTENDS Lists, FiniteSetTheorems, SequenceTheorems, TLAPS

(* Division by a positive number, and products.                             *)
LEMMA DivFacts ==
    ASSUME NEW b \in Nat \ {0}, NEW x \in Nat
    PROVE  /\ x \div b \in Nat /\ x % b \in 0 .. b - 1
           /\ x = b * (x \div b) + (x % b)
OBVIOUS

LEMMA DivMul ==
    ASSUME NEW a \in Int, NEW b \in Nat \ {0}
    PROVE  (b * a) \div b = a /\ (a * b) \div b = a
OBVIOUS

LEMMA MulNat ==
    ASSUME NEW a \in Nat, NEW b \in Nat
    PROVE  a * b \in Nat /\ b * a \in Nat
OBVIOUS

LEMMA MulUnique ==
    ASSUME NEW b \in Nat \ {0}, NEW q \in Int, NEW r \in Int,
           NEW s \in 0 .. b - 1, NEW t \in 0 .. b - 1, b * q + s = b * r + t
    PROVE  q = r /\ s = t
<1>1. CASE q < r
  <2>1. r - q - 1 \in Nat /\ b * (r - q - 1) \in Nat
    BY <1>1
  <2>2. b * (r - q) = b * (r - q - 1) + b
    OBVIOUS
  <2> QED
    BY <2>1, <2>2
<1>2. CASE r < q
  <2>1. q - r - 1 \in Nat /\ b * (q - r - 1) \in Nat
    BY <1>2
  <2>2. b * (q - r) = b * (q - r - 1) + b
    OBVIOUS
  <2> QED
    BY <2>1, <2>2
<1> QED
  BY <1>1, <1>2

(* A set of numbers has a least element: among the intervals up to its      *)
(* elements, which are finite sets, there is a minimal one.                 *)
LEMMA LeastNat ==
    ASSUME NEW T, T \subseteq Nat, T # {}
    PROVE  \E x \in T : \A y \in T : x <= y
<1> DEFINE U == {0 .. n : n \in T}
           R == StrictSubsetOrdering(Nat)
<1>1. U \subseteq FiniteSubsetsOf(Nat)
  <2>1. ASSUME NEW n \in T PROVE IsFiniteSet(0 .. n) /\ 0 .. n \subseteq Nat
    BY FS_Interval
  <2> QED
    BY <2>1 DEF FiniteSubsetsOf
<1>2. U # {}
  OBVIOUS
<1>3. IsWellFoundedOn(R, FiniteSubsetsOf(Nat))
  BY FS_StrictSubsetOrderingWellFounded
<1>4. PICK X \in U : \A Y \in U : ~ (<<Y, X>> \in R)
  <2> HIDE DEF U, R
  <2> QED
    BY <1>1, <1>2, <1>3, WFMin
<1>5. PICK x \in T : X = 0 .. x
  OBVIOUS
<1>6. ASSUME NEW y \in T, y < x PROVE FALSE
  <2>1. 0 .. y \subseteq 0 .. x /\ 0 .. y # 0 .. x /\ 0 .. y \subseteq Nat /\ 0 .. x \subseteq Nat
    <3>1. x \in 0 .. x /\ x \notin 0 .. y
      BY <1>6
    <3> QED
      BY <1>6, <3>1
  <2>2. <<0 .. y, X>> \in R
    BY <1>5, <2>1 DEF StrictSubsetOrdering
  <2> QED
    BY <1>4, <2>2
<1> QED
  BY <1>6

(* Induction: a set with 0, and with n + 1 if it has n, has all numbers.    *)
LEMMA SetInduction ==
    ASSUME NEW S, 0 \in S, \A n \in Nat : n \in S => n + 1 \in S
    PROVE  Nat \subseteq S
<1> SUFFICES ASSUME Nat \ S # {} PROVE FALSE
  OBVIOUS
<1> DEFINE T == Nat \ S
<1>0. T \subseteq Nat /\ T # {}
  OBVIOUS
<1>1. PICK x \in T : \A y \in T : x <= y
  <2> HIDE DEF T
  <2> QED BY <1>0, LeastNat
<1>2. x # 0 /\ x - 1 \in Nat /\ ~(x <= x - 1)
  OBVIOUS
<1>3. x - 1 \in S
  BY <1>1, <1>2
<1> QED
  BY <1>2, <1>3

(* f is the function kept of Keep, on the first n places of the list.       *)
Keeps(f, s, T, n) ==
    f = [i \in 0 .. n |->
            IF i = 0 THEN <<>>
            ELSE IF s[i] \in T THEN Append(f[i - 1], s[i]) ELSE f[i - 1]]

(* There is such a function, by induction over n.                           *)
LEMMA KeepsExists ==
    ASSUME NEW s, NEW T, NEW n \in Nat
    PROVE  \E f : Keeps(f, s, T, n)
<1> DEFINE S == {k \in Nat : \E f : Keeps(f, s, T, k)}
<1>1. 0 \in S
  <2> DEFINE f == [i \in 0 .. 0 |-> <<>>]
  <2>1. Keeps(f, s, T, 0)
    BY DEF Keeps
  <2> QED
    BY <2>1
<1>2. ASSUME NEW k \in Nat, k \in S PROVE k + 1 \in S
  <2>1. PICK f : Keeps(f, s, T, k)
    BY <1>2
  <2> DEFINE g == [i \in 0 .. k + 1 |->
                     IF i <= k THEN f[i]
                     ELSE IF s[i] \in T THEN Append(f[i - 1], s[i]) ELSE f[i - 1]]
  <2>2. ASSUME NEW i \in 0 .. k + 1
        PROVE  g[i] = IF i = 0 THEN <<>>
                      ELSE IF s[i] \in T THEN Append(g[i - 1], s[i]) ELSE g[i - 1]
    <3>1. CASE i = 0
      BY <2>1, <3>1 DEF Keeps
    <3>2. CASE i # 0
      <4>1. i - 1 \in 0 .. k /\ g[i - 1] = f[i - 1]
        BY <3>2
      <4>2. CASE i = k + 1
        BY <4>1, <4>2
      <4>3. CASE i # k + 1
        <5>1. i \in 0 .. k /\ g[i] = f[i]
          BY <4>3
        <5> QED
          BY <2>1, <3>2, <4>1, <5>1 DEF Keeps
      <4> QED
        BY <4>2, <4>3
    <3> QED
      BY <3>1, <3>2
  <2>3. Keeps(g, s, T, k + 1)
    BY <2>2 DEF Keeps
  <2> QED
    BY <2>3
<1>3. Nat \subseteq S
  <2> HIDE DEF S
  <2> QED
    BY <1>1, <1>2, SetInduction
<1> QED
  BY <1>3

(* What the recursive definition of Keep chooses is one.                    *)
LEMMA KeepIs ==
    ASSUME NEW s, Len(s) \in Nat, NEW T
    PROVE  \E f : Keeps(f, s, T, Len(s)) /\ Keep(s, T) = f[Len(s)]
<1>1. PICK f : Keeps(f, s, T, Len(s))
  BY KeepsExists
<1> QED
  BY <1>1 DEF Keep, Keeps

(* Its values, from one place to the next.                                  *)
LEMMA KeepsStep ==
    ASSUME NEW s, NEW T, NEW n \in Nat, NEW f, Keeps(f, s, T, n)
    PROVE  /\ f[0] = <<>>
           /\ \A k \in Nat : k + 1 <= n =>
                f[k + 1] = IF s[k + 1] \in T THEN Append(f[k], s[k + 1]) ELSE f[k]
<1>1. f[0] = <<>>
  BY DEF Keeps
<1>2. ASSUME NEW k \in Nat, k + 1 <= n
      PROVE  f[k + 1] = IF s[k + 1] \in T THEN Append(f[k], s[k + 1]) ELSE f[k]
  <2>1. k + 1 \in 0 .. n /\ k + 1 # 0 /\ (k + 1) - 1 = k
    BY <1>2
  <2> QED
    BY <2>1 DEF Keeps
<1> QED
  BY <1>1, <1>2

(* Keep has the elements of the list that are in the set and no others, and *)
(* none twice when the list has none twice.                                 *)
THEOREM KeepElements ==
    ASSUME NEW A, NEW s \in Seq(A), NEW T
    PROVE  /\ Keep(s, T) \in Seq(A \cap T)
           /\ \A i \in 1 .. Len(Keep(s, T)) : \E j \in 1 .. Len(s) : Keep(s, T)[i] = s[j]
           /\ \A j \in 1 .. Len(s) : s[j] \in T =>
                \E i \in 1 .. Len(Keep(s, T)) : Keep(s, T)[i] = s[j]
           /\ (\A i, j \in 1 .. Len(s) : s[i] = s[j] => i = j) =>
                \A i, j \in 1 .. Len(Keep(s, T)) : Keep(s, T)[i] = Keep(s, T)[j] => i = j
<1> DEFINE n == Len(s)
           distinct == \A i, j \in 1 .. Len(s) : s[i] = s[j] => i = j
<1>0. n \in Nat /\ \A i \in 1 .. n : s[i] \in A
  OBVIOUS
<1>1. PICK f : Keeps(f, s, T, n) /\ Keep(s, T) = f[n]
  BY <1>0, KeepIs
<1>2. /\ f[0] = <<>>
      /\ \A k \in Nat : k + 1 <= n =>
           f[k + 1] = IF s[k + 1] \in T THEN Append(f[k], s[k + 1]) ELSE f[k]
  BY <1>0, <1>1, KeepsStep
<1> HIDE DEF n
<1> DEFINE Good(k) ==
             /\ f[k] \in Seq(A \cap T)
             /\ \A i \in 1 .. Len(f[k]) : \E j \in 1 .. k : f[k][i] = s[j]
             /\ \A j \in 1 .. k : s[j] \in T => \E i \in 1 .. Len(f[k]) : f[k][i] = s[j]
             /\ distinct => \A i, j \in 1 .. Len(f[k]) : f[k][i] = f[k][j] => i = j
           S == {k \in Nat : k <= n => Good(k)}
<1>3. Good(0)
  BY <1>2
<1>4. ASSUME NEW k \in Nat, k + 1 <= n, Good(k) PROVE Good(k + 1)
  <2> DEFINE g == f[k]
             h == f[k + 1]
  <2>1. k + 1 \in 1 .. n /\ s[k + 1] \in A /\ n = Len(s)
    BY <1>0, <1>4 DEF n
  <2>2. CASE s[k + 1] \notin T
    <3>1. h = g
      BY <1>2, <1>4, <2>2
    <3>2. \A j \in 1 .. k + 1 : j \in 1 .. k \/ j = k + 1
      OBVIOUS
    <3>3. \A j \in 1 .. k : j \in 1 .. k + 1
      OBVIOUS
    <3> QED
      BY <1>4, <2>2, <3>1, <3>2, <3>3
  <2>3. CASE s[k + 1] \in T
    <3>1. h = Append(g, s[k + 1]) /\ g \in Seq(A \cap T) /\ s[k + 1] \in A \cap T
      BY <1>2, <1>4, <2>1, <2>3
    <3> HIDE DEF g, h
    <3>2. /\ h \in Seq(A \cap T) /\ Len(h) = Len(g) + 1 /\ Len(g) \in Nat
          /\ h[Len(g) + 1] = s[k + 1]
          /\ \A i \in 1 .. Len(g) : h[i] = g[i]
      BY <3>1, AppendProperties
    <3>3. \A i \in 1 .. Len(h) : i \in 1 .. Len(g) \/ i = Len(g) + 1
      BY <3>2
    <3>4. ASSUME NEW i \in 1 .. Len(h) PROVE \E j \in 1 .. k + 1 : h[i] = s[j]
      <4>1. CASE i = Len(g) + 1
        BY <3>2, <4>1
      <4>2. CASE i \in 1 .. Len(g)
        <5>1. PICK j \in 1 .. k : g[i] = s[j]
          BY <1>4, <4>2 DEF g
        <5> QED
          BY <3>2, <4>2, <5>1
      <4> QED
        BY <3>3, <4>1, <4>2
    <3>5. ASSUME NEW j \in 1 .. k + 1, s[j] \in T PROVE \E i \in 1 .. Len(h) : h[i] = s[j]
      <4>1. CASE j = k + 1
        BY <3>2, <4>1
      <4>2. CASE j \in 1 .. k
        <5>1. PICK i \in 1 .. Len(g) : g[i] = s[j]
          BY <1>4, <3>5, <4>2 DEF g
        <5> QED
          BY <3>2, <5>1
      <4> QED
        BY <4>1, <4>2
    <3>6. ASSUME distinct, NEW i \in 1 .. Len(h), NEW j \in 1 .. Len(h), h[i] = h[j]
          PROVE  i = j
      <4>1. ASSUME NEW l \in 1 .. Len(g) PROVE h[l] # h[Len(g) + 1]
        <5>1. PICK m \in 1 .. k : g[l] = s[m]
          BY <1>4, <4>1 DEF g
        <5>2. m \in 1 .. Len(s) /\ k + 1 \in 1 .. Len(s) /\ m # k + 1
          BY <2>1
        <5> QED
          BY <3>2, <3>6, <5>1, <5>2
      <4>2. CASE i \in 1 .. Len(g) /\ j \in 1 .. Len(g)
        BY <1>4, <3>2, <3>6, <4>2 DEF g
      <4> QED
        BY <3>3, <3>6, <4>1, <4>2
    <3> QED
      BY <3>2, <3>4, <3>5, <3>6 DEF h
  <2> QED
    BY <2>2, <2>3
<1>5. Nat \subseteq S
  <2>1. 0 \in S
    BY <1>3
  <2>2. ASSUME NEW k \in Nat, k \in S PROVE k + 1 \in S
    <3> HIDE DEF Good
    <3>1. k + 1 <= n => k <= n
      BY <1>0 DEF n
    <3> QED
      BY <1>4, <2>2, <3>1
  <2> HIDE DEF S
  <2> QED
    BY <2>1, <2>2, SetInduction
<1>6. Good(n)
  <2> HIDE DEF Good
  <2> QED
    BY <1>0, <1>5
<1> QED
  BY <1>1, <1>6 DEF n

(* All but the first are kept: the identifiers of the pairs but the admin   *)
(* pair.                                                                    *)
THEOREM KeepAllButFirst ==
    ASSUME NEW A, NEW s \in Seq(A), s # <<>>, NEW T, s[1] \notin T,
           \A i \in 2 .. Len(s) : s[i] \in T
    PROVE  Keep(s, T) = [i \in 1 .. Len(s) - 1 |-> s[i + 1]]
<1> DEFINE n == Len(s)
           Rest(k) == [i \in 1 .. k - 1 |-> s[i + 1]]
<1>0. n \in Nat \ {0}
  BY EmptySeq
<1>1. PICK f : Keeps(f, s, T, n) /\ Keep(s, T) = f[n]
  BY <1>0, KeepIs
<1>2. /\ f[0] = <<>>
      /\ \A k \in Nat : k + 1 <= n =>
           f[k + 1] = IF s[k + 1] \in T THEN Append(f[k], s[k + 1]) ELSE f[k]
  BY <1>0, <1>1, KeepsStep
<1> DEFINE S == {k \in Nat : k + 1 <= n => f[k + 1] = Rest(k + 1)}
<1>3. 0 \in S
  <2>1. f[0 + 1] = <<>>
    BY <1>0, <1>2
  <2>2. Rest(0 + 1) = <<>>
    OBVIOUS
  <2> QED
    BY <2>1, <2>2
<1>4. ASSUME NEW k \in Nat, k \in S PROVE k + 1 \in S
  <2> SUFFICES ASSUME (k + 1) + 1 <= n PROVE f[(k + 1) + 1] = Rest((k + 1) + 1)
    OBVIOUS
  <2>1. (k + 1) + 1 \in 2 .. Len(s)
    BY <1>0
  <2>2. f[(k + 1) + 1] = Append(f[k + 1], s[(k + 1) + 1])
    <3>1. k + 1 \in Nat /\ (k + 1) + 1 <= n /\ s[(k + 1) + 1] \in T
      BY <2>1
    <3> HIDE DEF n
    <3> QED
      BY <1>2, <3>1
  <2>3. f[k + 1] = Rest(k + 1)
    BY <1>0, <1>4
  <2>4. Rest(k + 1) \in Seq(A) /\ Len(Rest(k + 1)) = k
    <3>1. \A i \in 1 .. k : s[i + 1] \in A
      BY <2>1
    <3>2. (k + 1) - 1 = k
      OBVIOUS
    <3> QED
      BY <3>1, <3>2
  <2>5. Append(Rest(k + 1), s[(k + 1) + 1]) = Rest((k + 1) + 1)
    <3>1. (k + 1) - 1 = k /\ ((k + 1) + 1) - 1 = k + 1
      OBVIOUS
    <3>2. s[(k + 1) + 1] \in A
      BY <2>1
    <3> QED
      BY <2>4, <3>1, <3>2
  <2> QED
    BY <2>2, <2>3, <2>5
<1>5. Nat \subseteq S
  <2> HIDE DEF S
  <2> QED
    BY <1>3, <1>4, SetInduction
<1>6. n - 1 \in S /\ (n - 1) + 1 = n
  BY <1>0, <1>5
<1> QED
  BY <1>1, <1>6

(* Only the first is kept: the pairs after all I/O queues were deleted.     *)
THEOREM KeepOnlyFirst ==
    ASSUME NEW A, NEW s \in Seq(A), s # <<>>, NEW T, s[1] \in T,
           \A i \in 2 .. Len(s) : s[i] \notin T
    PROVE  Keep(s, T) = <<s[1]>>
<1> DEFINE n == Len(s)
<1>0. n \in Nat \ {0}
  BY EmptySeq
<1>1. PICK f : Keeps(f, s, T, n) /\ Keep(s, T) = f[n]
  BY <1>0, KeepIs
<1>2. /\ f[0] = <<>>
      /\ \A k \in Nat : k + 1 <= n =>
           f[k + 1] = IF s[k + 1] \in T THEN Append(f[k], s[k + 1]) ELSE f[k]
  BY <1>0, <1>1, KeepsStep
<1> DEFINE S == {k \in Nat : k + 1 <= n => f[k + 1] = <<s[1]>>}
<1>3. 0 \in S
  <2>1. f[0 + 1] = Append(<<>>, s[1])
    <3>1. 0 \in Nat /\ 0 + 1 <= n /\ 0 + 1 = 1
      BY <1>0
    <3> HIDE DEF n
    <3>2. f[0 + 1] = IF s[0 + 1] \in T THEN Append(f[0], s[0 + 1]) ELSE f[0]
      BY <1>2, <3>1
    <3> QED
      BY <1>2, <3>1, <3>2
  <2>2. Append(<<>>, s[1]) = <<s[1]>>
    OBVIOUS
  <2> QED
    BY <2>1, <2>2
<1>4. ASSUME NEW k \in Nat, k \in S PROVE k + 1 \in S
  <2> SUFFICES ASSUME (k + 1) + 1 <= n PROVE f[(k + 1) + 1] = <<s[1]>>
    OBVIOUS
  <2>1. (k + 1) + 1 \in 2 .. Len(s)
    BY <1>0
  <2>2. f[(k + 1) + 1] = f[k + 1]
    BY <1>2, <2>1
  <2> QED
    BY <1>0, <1>4, <2>2
<1>5. Nat \subseteq S
  <2> HIDE DEF S
  <2> QED
    BY <1>3, <1>4, SetInduction
<1>6. n - 1 \in S /\ (n - 1) + 1 = n
  BY <1>0, <1>5
<1> QED
  BY <1>1, <1>6

(* None is kept: the identifiers after a deletion of all.                   *)
THEOREM KeepNone ==
    ASSUME NEW A, NEW s \in Seq(A), NEW T, \A i \in 1 .. Len(s) : s[i] \notin T
    PROVE  Keep(s, T) = <<>>
<1> DEFINE n == Len(s)
<1>0. n \in Nat
  OBVIOUS
<1>1. PICK f : Keeps(f, s, T, n) /\ Keep(s, T) = f[n]
  BY <1>0, KeepIs
<1>2. /\ f[0] = <<>>
      /\ \A k \in Nat : k + 1 <= n =>
           f[k + 1] = IF s[k + 1] \in T THEN Append(f[k], s[k + 1]) ELSE f[k]
  BY <1>0, <1>1, KeepsStep
<1> DEFINE S == {k \in Nat : k <= n => f[k] = <<>>}
<1>3. 0 \in S
  BY <1>2
<1>4. ASSUME NEW k \in Nat, k \in S PROVE k + 1 \in S
  <2> SUFFICES ASSUME k + 1 <= n PROVE f[k + 1] = <<>>
    OBVIOUS
  <2>1. k + 1 \in 1 .. Len(s) /\ k <= n
    BY <1>0
  <2> QED
    BY <1>2, <1>4, <2>1
<1>5. Nat \subseteq S
  <2> HIDE DEF S
  <2> QED
    BY <1>3, <1>4, SetInduction
<1> QED
  BY <1>0, <1>1, <1>5
=============================================================================

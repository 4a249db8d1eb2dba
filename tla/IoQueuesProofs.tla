--------------------------- MODULE IoQueuesProofs ---------------------------
(***************************************************************************)
(* Proofs about IoQueues for every set of identifiers, every queue size and *)
(* every number of deletions and resets.                                    *)
(***************************************************************************)
EXTENDS IoQueues, ListTheorems

-----------------------------------------------------------------------------
(***************************************************************************)
(* The inductive invariant.                                                *)
(***************************************************************************)

(* A pair whose memory is among the first a queue memories.                 *)
SqAmong(a)   == [mem : 1 .. a, head : 0 .. Entries - 1]
PairAmong(a) == [sqid : Qids \union {0}, cqid : Qids \union {0},
                 sq : SqAmong(a) \union {NoQueue}, cq : (1 .. a) \union {NoQueue}]

IsMgr(m) == m = [pairs |-> m.pairs, sqids |-> m.sqids, index |-> m.index, cqids |-> m.cqids]

TypesInv ==
    /\ allocated \in Nat \ {0}
    /\ IsMgr(host) /\ host.pairs \in Seq(PairAmong(allocated)) /\ host.index \in Nat
    /\ IsMgr(sim) /\ sim.pairs \in Seq(PairAmong(allocated))
    /\ staged \in Seq([qid : Qids, mem : 1 .. allocated])
    /\ tailDb \in [Qids -> 0 .. Entries - 1]
    /\ endings \in 0 .. MaxEndings
    /\ firstLife \in BOOLEAN
    /\ outcome \in {"ok", "no completion", "index error", "attribute error",
                    "assertion error"}

(* The admin pair is the first of the driver's pairs and the only one that  *)
(* is not for I/O, so that the identifier lists are those of all the rest.  *)
WholePairs(pairs) ==
    /\ pairs # <<>>
    /\ pairs[1].sqid = 0 /\ pairs[1].cqid = 0
    /\ \A i \in 2 .. Len(pairs) : IsIo(pairs[i])
    /\ \A i \in 1 .. Len(pairs) : HasSq(pairs[i]) /\ HasCq(pairs[i])
    /\ \A i, j \in 1 .. Len(pairs) :
         pairs[i].sqid = pairs[j].sqid \/ pairs[i].cqid = pairs[j].cqid => i = j

IdsOf(pairs, ids, cqids) ==
    /\ ids = [i \in 1 .. Len(pairs) - 1 |-> pairs[i + 1].sqid]
    /\ cqids = [i \in 1 .. Len(pairs) - 1 |-> pairs[i + 1].cqid]

DirectoryInv == WholePairs(host.pairs) /\ IdsOf(host.pairs, host.sqids, host.cqids)

(* In the first life both directories are the same list, nothing is pending *)
(* and no list entry is staged for a queue that is not there: until the     *)
(* deletion, which ends all I/O, every completion queue has a pair, and a   *)
(* doorbell has moved only where there is a submission queue.               *)
FirstLifeInv ==
    firstLife =>
        /\ host.pairs = sim.pairs
        /\ Drained(sim)
        /\ endings = 0 => \A i \in 1 .. Len(staged) :
                            \E j \in 1 .. Len(host.pairs) : staged[i].qid = host.pairs[j].cqid
        /\ endings = 0 => \A q \in Qids :
                            tailDb[q] = 0 \/ \E j \in 1 .. Len(host.pairs) : host.pairs[j].sqid = q
        /\ endings = 0 => host.index = 0 \/ host.index + 1 < Len(host.pairs)
        /\ endings # 0 => Len(host.pairs) = 1
        /\ Len(host.pairs) > 1 => outcome = "ok"

Inv == TypesInv /\ DirectoryInv /\ FirstLifeInv /\ SubmissionsReachSimulator

-----------------------------------------------------------------------------
(***************************************************************************)
(* What the operations do to a pair.                                       *)
(***************************************************************************)

(* What catching up with the doorbell does to a pair.                       *)
LEMMA HeadFollowsPair ==
    ASSUME NEW a \in Nat, NEW e \in PairAmong(a), NEW db \in [Qids -> 0 .. Entries - 1]
    PROVE  /\ HeadFollows(e, db) \in PairAmong(a)
           /\ SameKey(HeadFollows(e, db), e)
           /\ HeadFollows(e, db).cq = e.cq
           /\ HasSq(HeadFollows(e, db)) <=> HasSq(e)
           /\ HasSq(e) => HeadFollows(e, db).sq.mem = e.sq.mem
           /\ IsIo(e) /\ HasSq(e) => HeadFollows(e, db).sq.head = db[e.sqid]
           /\ IsIo(e) /\ HasSq(e) /\ e.sq.head = db[e.sqid] => HeadFollows(e, db) = e
<1>1. CASE ~(IsIo(e) /\ HasSq(e))
  BY <1>1 DEF HeadFollows, SameKey
<1>2. CASE IsIo(e) /\ HasSq(e)
  <2> DEFINE q == [e.sq EXCEPT !.head = db[e.sqid]]
             f == [e EXCEPT !.sq = q]
  <2>1. HeadFollows(e, db) = f
    BY <1>2 DEF HeadFollows
  <2>2. e.sqid \in Qids /\ db[e.sqid] \in 0 .. Entries - 1 /\ e.sq \in SqAmong(a)
    BY <1>2 DEF PairAmong, IsIo, HasSq
  <2>3. q \in SqAmong(a) /\ q.mem = e.sq.mem /\ q.head = db[e.sqid]
        /\ (e.sq.head = db[e.sqid] => q = e.sq)
    BY <2>2 DEF SqAmong
  <2>4. q # NoQueue
    BY <2>3, NoQueueAssumption, EntriesAssumption DEF SqAmong
  <2> HIDE DEF q
  <2>5. /\ f \in PairAmong(a) /\ f.sqid = e.sqid /\ f.cqid = e.cqid
        /\ f.cq = e.cq /\ f.sq = q /\ (q = e.sq => f = e)
    BY <2>3 DEF PairAmong
  <2> QED
    BY <1>2, <2>1, <2>3, <2>4, <2>5 DEF SameKey, HasSq
<1> QED
  BY <1>1, <1>2

(* What taking its submission queue does to a pair.                         *)
LEMMA SqTakenPair ==
    ASSUME NEW a \in Nat, NEW e \in PairAmong(a), NEW Q
    PROVE  /\ SqTaken(e, Q) \in PairAmong(a)
           /\ SameKey(SqTaken(e, Q), e)
           /\ SqTaken(e, Q).cq = e.cq
           /\ e.sqid \in Q => ~HasSq(SqTaken(e, Q))
           /\ e.sqid \notin Q => SqTaken(e, Q) = e
BY DEF SqTaken, PairAmong, SameKey, HasSq

(* What taking its completion queue does to a pair.                         *)
LEMMA CqTakenPair ==
    ASSUME NEW a \in Nat, NEW e \in PairAmong(a), NEW Q
    PROVE  /\ CqTaken(e, Q) \in PairAmong(a)
           /\ SameKey(CqTaken(e, Q), e)
           /\ CqTaken(e, Q).sq = e.sq
           /\ e.cqid \in Q => ~HasCq(CqTaken(e, Q))
           /\ e.cqid \notin Q => CqTaken(e, Q) = e
BY DEF CqTaken, PairAmong, SameKey, HasCq

(* More memory makes no pair untyped.                                       *)
LEMMA PairAmongMore ==
    ASSUME NEW a \in Nat, NEW b \in Nat, a <= b
    PROVE  /\ PairAmong(a) \subseteq PairAmong(b)
           /\ Seq(PairAmong(a)) \subseteq Seq(PairAmong(b))
<1>1. 1 .. a \subseteq 1 .. b
  OBVIOUS
<1>2. SqAmong(a) \subseteq SqAmong(b)
  BY <1>1 DEF SqAmong
<1>3. PairAmong(a) \subseteq PairAmong(b)
  BY <1>1, <1>2 DEF PairAmong
<1> QED
  BY <1>3

-----------------------------------------------------------------------------
(***************************************************************************)
(* What they do to a list of pairs.                                        *)
(***************************************************************************)

(* A value assigned to a key is there afterwards, and so are those of the   *)
(* other keys.                                                              *)
LEMMA AssignList ==
    ASSUME NEW S, NEW pairs \in Seq(S), NEW e \in S
    PROVE  /\ Assign(pairs, e) \in Seq(S)
           /\ (\A i \in 1 .. Len(pairs) : ~SameKey(pairs[i], e)) => Assign(pairs, e) = Append(pairs, e)
           /\ \A i \in 1 .. Len(pairs) : ~SameKey(pairs[i], e) =>
                \E j \in 1 .. Len(Assign(pairs, e)) : Assign(pairs, e)[j] = pairs[i]
           /\ \E j \in 1 .. Len(Assign(pairs, e)) : Assign(pairs, e)[j] = e
<1>1. CASE \E i \in 1 .. Len(pairs) : SameKey(pairs[i], e)
  <2> DEFINE r == [i \in 1 .. Len(pairs) |-> IF SameKey(pairs[i], e) THEN e ELSE pairs[i]]
  <2>1. Assign(pairs, e) = r
    BY <1>1 DEF Assign
  <2>2. r \in Seq(S) /\ Len(r) = Len(pairs)
    OBVIOUS
  <2>3. \A i \in 1 .. Len(pairs) : r[i] = IF SameKey(pairs[i], e) THEN e ELSE pairs[i]
    OBVIOUS
  <2> HIDE DEF r
  <2> QED
    BY <1>1, <2>1, <2>2, <2>3
<1>2. CASE \A i \in 1 .. Len(pairs) : ~SameKey(pairs[i], e)
  <2> DEFINE r == Append(pairs, e)
  <2>1. Assign(pairs, e) = r
    BY <1>2 DEF Assign
  <2>2. /\ r \in Seq(S) /\ Len(r) = Len(pairs) + 1 /\ Len(pairs) \in Nat
        /\ \A i \in 1 .. Len(pairs) : r[i] = pairs[i]
        /\ r[Len(pairs) + 1] = e
    BY AppendProperties
  <2>3. Len(pairs) + 1 \in 1 .. Len(r) /\ \A i \in 1 .. Len(pairs) : i \in 1 .. Len(r)
    BY <2>2
  <2> QED
    BY <2>1, <2>2, <2>3
<1> QED
  BY <1>1, <1>2

(* The fields of a manager after add.                                       *)
LEMMA AddMgr ==
    ASSUME NEW m, NEW e
    PROVE  /\ IsMgr(Add(m, e))
           /\ Add(m, e).pairs = Assign(m.pairs, e)
           /\ Add(m, e).index = m.index
           /\ Add(m, e).sqids = Sqids(IoPairs(Assign(m.pairs, e)))
           /\ Add(m, e).cqids = Cqids(IoPairs(Assign(m.pairs, e)))
BY DEF Add, IsMgr

(* In a whole directory the pairs for I/O are all but the first.            *)
LEMMA WholeIo ==
    ASSUME NEW S, NEW pairs \in Seq(S), WholePairs(pairs)
    PROVE  /\ IoPairs(pairs) = [i \in 1 .. Len(pairs) - 1 |-> pairs[i + 1]]
           /\ Sqids(IoPairs(pairs)) = [i \in 1 .. Len(pairs) - 1 |-> pairs[i + 1].sqid]
           /\ Cqids(IoPairs(pairs)) = [i \in 1 .. Len(pairs) - 1 |-> pairs[i + 1].cqid]
<1> DEFINE n == Len(pairs)
           rest == [i \in 1 .. n - 1 |-> pairs[i + 1]]
<1>0. n \in Nat \ {0} /\ \A i \in 1 .. n : pairs[i] \in Range(pairs)
  BY EmptySeq DEF WholePairs, Range
<1>1. pairs[1] \notin IoSet(pairs) /\ \A i \in 2 .. n : pairs[i] \in IoSet(pairs)
  BY <1>0 DEF WholePairs, IoSet, IsIo
<1>2. IoPairs(pairs) = rest
  BY <1>1, KeepAllButFirst DEF IoPairs, WholePairs
<1>3. Len(rest) = n - 1 /\ \A i \in 1 .. n - 1 : rest[i] = pairs[i + 1]
  BY <1>0
<1> HIDE DEF rest, n
<1>4. Sqids(rest) = [i \in 1 .. n - 1 |-> pairs[i + 1].sqid]
  BY <1>3 DEF Sqids
<1>5. Cqids(rest) = [i \in 1 .. n - 1 |-> pairs[i + 1].cqid]
  BY <1>3 DEF Cqids
<1> QED
  BY <1>2, <1>4, <1>5 DEF n, rest

(* The fields of a manager after check_commands.                            *)
LEMMA ServedMgr ==
    ASSUME NEW a \in Nat, NEW m, IsMgr(m), m.pairs \in Seq(PairAmong(a)),
           NEW db \in [Qids -> 0 .. Entries - 1]
    PROVE  /\ IsMgr(Served(m, db))
           /\ Served(m, db).pairs = [i \in 1 .. Len(m.pairs) |-> HeadFollows(m.pairs[i], db)]
           /\ Served(m, db).pairs \in Seq(PairAmong(a))
           /\ Len(Served(m, db).pairs) = Len(m.pairs)
           /\ Served(m, db).sqids = m.sqids /\ Served(m, db).cqids = m.cqids
           /\ Served(m, db).index = m.index
<1> DEFINE r == [i \in 1 .. Len(m.pairs) |-> HeadFollows(m.pairs[i], db)]
<1>1. \A i \in 1 .. Len(m.pairs) : HeadFollows(m.pairs[i], db) \in PairAmong(a)
  BY HeadFollowsPair
<1>2. r \in Seq(PairAmong(a)) /\ Len(r) = Len(m.pairs)
  BY <1>1
<1> HIDE DEF r
<1>3. Served(m, db) = [m EXCEPT !.pairs = r]
  BY DEF Served, r
<1>4. /\ IsMgr(Served(m, db)) /\ Served(m, db).pairs = r
      /\ Served(m, db).sqids = m.sqids /\ Served(m, db).cqids = m.cqids
      /\ Served(m, db).index = m.index
  BY <1>3 DEF IsMgr
<1> QED
  BY <1>2, <1>4 DEF r

(* Where nothing is pending, serving changes nothing.                       *)
LEMMA ServedDrained ==
    ASSUME TypesInv, Drained(sim)
    PROVE  Served(sim, tailDb).pairs = sim.pairs
<1>0. /\ allocated \in Nat /\ IsMgr(sim) /\ sim.pairs \in Seq(PairAmong(allocated))
      /\ tailDb \in [Qids -> 0 .. Entries - 1]
  BY DEF TypesInv
<1>1. \A i \in 1 .. Len(sim.pairs) : HeadFollows(sim.pairs[i], tailDb) = sim.pairs[i]
  <2> SUFFICES ASSUME NEW i \in 1 .. Len(sim.pairs)
               PROVE  HeadFollows(sim.pairs[i], tailDb) = sim.pairs[i]
    OBVIOUS
  <2>1. sim.pairs[i] \in PairAmong(allocated)
    BY <1>0
  <2>2. CASE IsIo(sim.pairs[i]) /\ HasSq(sim.pairs[i])
    BY <1>0, <2>1, <2>2, HeadFollowsPair DEF Drained
  <2>3. CASE ~(IsIo(sim.pairs[i]) /\ HasSq(sim.pairs[i]))
    BY <2>3 DEF HeadFollows
  <2> QED
    BY <2>2, <2>3
<1>2. Served(sim, tailDb).pairs = [i \in 1 .. Len(sim.pairs) |-> HeadFollows(sim.pairs[i], tailDb)]
  BY <1>0, ServedMgr
<1>3. sim.pairs = [i \in 1 .. Len(sim.pairs) |-> sim.pairs[i]]
  BY <1>0
<1> QED
  BY <1>1, <1>2, <1>3

(* Submission queues are taken from the pairs of the identifiers in Q.      *)
LEMMA RemoveSqsMgr ==
    ASSUME NEW a \in Nat, NEW m, IsMgr(m), m.pairs \in Seq(PairAmong(a)), NEW Q
    PROVE  /\ IsMgr(RemoveSqs(m, Q))
           /\ RemoveSqs(m, Q).pairs = [i \in 1 .. Len(m.pairs) |-> SqTaken(m.pairs[i], Q)]
           /\ RemoveSqs(m, Q).pairs \in Seq(PairAmong(a))
           /\ Len(RemoveSqs(m, Q).pairs) = Len(m.pairs)
           /\ RemoveSqs(m, Q).sqids = Without(m.sqids, Q)
           /\ RemoveSqs(m, Q).cqids = m.cqids
           /\ RemoveSqs(m, Q).index = m.index
<1> DEFINE r == [i \in 1 .. Len(m.pairs) |-> SqTaken(m.pairs[i], Q)]
           w == Without(m.sqids, Q)
<1>1. \A i \in 1 .. Len(m.pairs) : SqTaken(m.pairs[i], Q) \in PairAmong(a)
  BY SqTakenPair
<1>2. r \in Seq(PairAmong(a)) /\ Len(r) = Len(m.pairs)
  BY <1>1
<1>3. RemoveSqs(m, Q) = [m EXCEPT !.pairs = r, !.sqids = w]
  BY DEF RemoveSqs
<1> HIDE DEF r, w
<1>4. /\ IsMgr(RemoveSqs(m, Q)) /\ RemoveSqs(m, Q).pairs = r
      /\ RemoveSqs(m, Q).sqids = w /\ RemoveSqs(m, Q).cqids = m.cqids
      /\ RemoveSqs(m, Q).index = m.index
  BY <1>3 DEF IsMgr
<1> QED
  BY <1>2, <1>4 DEF r, w

(* Completion queues are taken, and the pairs left with nothing dropped.    *)
CqsTaken(pairs, C) == [i \in 1 .. Len(pairs) |-> CqTaken(pairs[i], C)]
NotEmpty(pairs)    == {e \in Range(pairs) : HasSq(e) \/ HasCq(e)}

LEMMA RemoveCqsMgr ==
    ASSUME NEW a \in Nat, NEW m, IsMgr(m), m.pairs \in Seq(PairAmong(a)), NEW C
    PROVE  /\ IsMgr(RemoveCqs(m, C))
           /\ CqsTaken(m.pairs, C) \in Seq(PairAmong(a))
           /\ RemoveCqs(m, C).pairs = Keep(CqsTaken(m.pairs, C), NotEmpty(CqsTaken(m.pairs, C)))
           /\ RemoveCqs(m, C).pairs \in Seq(PairAmong(a))
           /\ RemoveCqs(m, C).sqids = m.sqids
           /\ RemoveCqs(m, C).cqids = Without(m.cqids, C)
           /\ RemoveCqs(m, C).index = m.index
<1> DEFINE r == CqsTaken(m.pairs, C)
           k == Keep(r, NotEmpty(r))
           w == Without(m.cqids, C)
<1>1. \A i \in 1 .. Len(m.pairs) : CqTaken(m.pairs[i], C) \in PairAmong(a)
  BY CqTakenPair
<1>2. r \in Seq(PairAmong(a))
  BY <1>1 DEF CqsTaken
<1>3. RemoveCqs(m, C) = [m EXCEPT !.pairs = k, !.cqids = w]
  BY DEF RemoveCqs, CqsTaken, NotEmpty
<1> HIDE DEF r
<1>4. k \in Seq(PairAmong(a))
  <2>1. k \in Seq(PairAmong(a) \cap NotEmpty(r))
    BY <1>2, KeepElements
  <2> HIDE DEF k
  <2>2. Seq(PairAmong(a) \cap NotEmpty(r)) \subseteq Seq(PairAmong(a))
    OBVIOUS
  <2> QED
    BY <2>1, <2>2
<1> HIDE DEF k, w
<1>5. /\ IsMgr(RemoveCqs(m, C)) /\ RemoveCqs(m, C).pairs = k
      /\ RemoveCqs(m, C).cqids = w /\ RemoveCqs(m, C).sqids = m.sqids
      /\ RemoveCqs(m, C).index = m.index
  BY <1>3 DEF IsMgr
<1> QED
  BY <1>2, <1>4, <1>5 DEF r, k, w

(* A deletion leaves pairs of other identifiers as they are.                *)
Spared(e, io) ==
    HasSq(e) /\ e.sqid \notin {f.sqid : f \in io} /\ e.cqid \notin {f.cqid : f \in io}

LEMMA DeletionSpares ==
    ASSUME NEW a \in Nat, NEW m, IsMgr(m), m.pairs \in Seq(PairAmong(a)), NEW io
    PROVE  /\ IsMgr(AllDeleted(m, io))
           /\ AllDeleted(m, io).pairs \in Seq(PairAmong(a))
           /\ AllDeleted(m, io).index = m.index
           /\ \A e \in Range(m.pairs) : Spared(e, io) => e \in Range(AllDeleted(m, io).pairs)
<1> DEFINE Q == {e.sqid : e \in io}
           C == {e.cqid : e \in io}
           s == RemoveSqs(m, Q)
           t == CqsTaken(s.pairs, C)
<1>1. AllDeleted(m, io) = RemoveCqs(s, C)
  BY DEF AllDeleted, SqsDeleted
<1> HIDE DEF Q, C
<1>2. /\ IsMgr(s) /\ s.pairs \in Seq(PairAmong(a)) /\ s.index = m.index
      /\ Len(s.pairs) = Len(m.pairs)
      /\ \A i \in 1 .. Len(m.pairs) : s.pairs[i] = SqTaken(m.pairs[i], Q)
  <2>1. /\ IsMgr(s) /\ s.pairs \in Seq(PairAmong(a)) /\ s.index = m.index
        /\ Len(s.pairs) = Len(m.pairs)
        /\ s.pairs = [i \in 1 .. Len(m.pairs) |-> SqTaken(m.pairs[i], Q)]
    BY RemoveSqsMgr
  <2> HIDE DEF s
  <2> QED
    BY <2>1
<1> HIDE DEF s
<1>3. /\ IsMgr(RemoveCqs(s, C)) /\ t \in Seq(PairAmong(a))
      /\ RemoveCqs(s, C).pairs = Keep(t, NotEmpty(t))
      /\ RemoveCqs(s, C).pairs \in Seq(PairAmong(a)) /\ RemoveCqs(s, C).index = s.index
  BY <1>2, RemoveCqsMgr
<1>4. Len(t) = Len(m.pairs) /\ \A i \in 1 .. Len(m.pairs) : t[i] = CqTaken(s.pairs[i], C)
  BY <1>2 DEF CqsTaken
<1> HIDE DEF t
<1>5. ASSUME NEW i \in 1 .. Len(m.pairs), HasSq(m.pairs[i]),
             m.pairs[i].sqid \notin Q, m.pairs[i].cqid \notin C
      PROVE  \E j \in 1 .. Len(RemoveCqs(s, C).pairs) : RemoveCqs(s, C).pairs[j] = m.pairs[i]
  <2>1. m.pairs[i] \in PairAmong(a)
    OBVIOUS
  <2>2. t[i] = m.pairs[i]
    BY <1>2, <1>4, <1>5, <2>1, SqTakenPair, CqTakenPair
  <2>3. t[i] \in NotEmpty(t)
    BY <1>3, <1>4, <1>5, <2>2 DEF NotEmpty, Range
  <2> DEFINE k == Keep(t, NotEmpty(t))
  <2>4. \E j \in 1 .. Len(k) : k[j] = t[i]
    <3> DEFINE N == NotEmpty(t)
    <3>1. i \in 1 .. Len(t) /\ t \in Seq(PairAmong(a)) /\ t[i] \in N
      BY <1>3, <1>4, <2>3
    <3> HIDE DEF N
    <3>2. \A j \in 1 .. Len(t) : t[j] \in N =>
            \E l \in 1 .. Len(Keep(t, N)) : Keep(t, N)[l] = t[j]
      BY <3>1, KeepElements
    <3> QED
      BY <3>1, <3>2 DEF N
  <2> HIDE DEF k
  <2> QED
    BY <1>3, <2>2, <2>4 DEF k
<1>6. ASSUME NEW e \in Range(m.pairs), Spared(e, io)
      PROVE  e \in Range(AllDeleted(m, io).pairs)
  <2>1. PICK i \in 1 .. Len(m.pairs) : e = m.pairs[i]
    BY <1>6 DEF Range
  <2>2. \E j \in 1 .. Len(RemoveCqs(s, C).pairs) : RemoveCqs(s, C).pairs[j] = e
    BY <1>5, <1>6, <2>1 DEF Spared, Q, C
  <2> DEFINE k == RemoveCqs(s, C).pairs
  <2>3. k \in Seq(PairAmong(a))
    BY <1>3
  <2> HIDE DEF k
  <2> QED
    BY <1>1, <2>2, <2>3 DEF Range, k
<1> QED
  BY <1>1, <1>2, <1>3, <1>6

(* A deletion of all pairs for I/O of a whole directory asserts nothing     *)
(* wrong and leaves the admin pair and no identifier.                       *)
LEMMA DeletionOfAll ==
    ASSUME NEW a \in Nat, NEW m, IsMgr(m), m.pairs \in Seq(PairAmong(a)), WholePairs(m.pairs)
    PROVE  /\ AllDeleted(m, IoSet(m.pairs)).pairs = <<m.pairs[1]>>
           /\ IdsOf(m.pairs, m.sqids, m.cqids) =>
                /\ AllDeleted(m, IoSet(m.pairs)).sqids = <<>>
                /\ AllDeleted(m, IoSet(m.pairs)).cqids = <<>>
           /\ MayDelete(m, IoSet(m.pairs))
<1> DEFINE io == IoSet(m.pairs)
           n == Len(m.pairs)
           Q == {e.sqid : e \in io}
           C == {e.cqid : e \in io}
           s == RemoveSqs(m, Q)
           t == CqsTaken(s.pairs, C)
<1>0. n \in Nat \ {0} /\ \A i \in 1 .. n : m.pairs[i] \in PairAmong(a)
  BY EmptySeq DEF WholePairs
<1>1. AllDeleted(m, io) = RemoveCqs(s, C)
  BY DEF AllDeleted, SqsDeleted
<1>2. /\ \A i \in 2 .. n : m.pairs[i] \in io
      /\ \A e \in io : \E i \in 2 .. n : e = m.pairs[i]
  BY <1>0 DEF IoSet, WholePairs, IsIo, Range
<1>3. /\ \A i \in 2 .. n : m.pairs[i].sqid \in Q /\ m.pairs[i].cqid \in C
      /\ m.pairs[1].sqid \notin Q /\ m.pairs[1].cqid \notin C
  <2>1. \A e \in io : IsIo(e)
    BY DEF IoSet
  <2> QED
    BY <1>2, <2>1 DEF WholePairs, IsIo
<1>4. /\ IsMgr(s) /\ s.pairs \in Seq(PairAmong(a)) /\ Len(s.pairs) = n
      /\ \A i \in 1 .. n : s.pairs[i] = SqTaken(m.pairs[i], Q)
      /\ s.sqids = Without(m.sqids, Q) /\ s.cqids = m.cqids
  <2> HIDE DEF Q
  <2>1. /\ IsMgr(s) /\ s.pairs \in Seq(PairAmong(a)) /\ Len(s.pairs) = n
        /\ s.pairs = [i \in 1 .. Len(m.pairs) |-> SqTaken(m.pairs[i], Q)]
        /\ s.sqids = Without(m.sqids, Q) /\ s.cqids = m.cqids
    BY RemoveSqsMgr
  <2> HIDE DEF s
  <2> QED
    BY <2>1
<1>5. MayDelete(m, io)
  <2> SUFFICES ASSUME NEW e \in io, NEW i \in 1 .. n, s.pairs[i].cqid = e.cqid
               PROVE  ~HasSq(s.pairs[i])
    BY <1>4 DEF MayDelete, MayRemoveCq, SqsDeleted
  <2>1. m.pairs[i].cqid = e.cqid
    BY <1>0, <1>4, SqTakenPair DEF SameKey
  <2>2. m.pairs[i].sqid \in Q
    <3>1. PICK j \in 2 .. n : e = m.pairs[j]
      BY <1>2
    <3>2. e.cqid \in C
      BY <1>3, <3>1
    <3>3. i # 1
      BY <1>3, <2>1, <3>2
    <3> HIDE DEF Q, C, s, io, n
    <3>4. i \in 2 .. n
      BY <3>3
    <3> QED
      BY <1>3, <3>4
  <2> QED
    BY <1>0, <1>4, <2>2, SqTakenPair
<1> HIDE DEF s, Q, C, io
<1>6. /\ t \in Seq(PairAmong(a))
      /\ RemoveCqs(s, C).pairs = Keep(t, NotEmpty(t))
      /\ RemoveCqs(s, C).sqids = s.sqids
      /\ RemoveCqs(s, C).cqids = Without(s.cqids, C)
  BY <1>4, RemoveCqsMgr
<1>7. Len(t) = n /\ \A i \in 1 .. n : t[i] = CqTaken(s.pairs[i], C)
  BY <1>4 DEF CqsTaken
<1> HIDE DEF t
<1>8. t[1] = m.pairs[1]
  BY <1>0, <1>3, <1>4, <1>7, SqTakenPair, CqTakenPair
<1>9. t[1] \in NotEmpty(t)
  BY <1>0, <1>6, <1>7, <1>8 DEF NotEmpty, Range, WholePairs
<1>10. \A i \in 2 .. n : t[i] \notin NotEmpty(t)
  <2> SUFFICES ASSUME NEW i \in 2 .. n PROVE ~HasSq(t[i]) /\ ~HasCq(t[i])
    BY DEF NotEmpty
  <2>1. i \in 1 .. n /\ s.pairs[i] = SqTaken(m.pairs[i], Q) /\ t[i] = CqTaken(s.pairs[i], C)
    BY <1>4, <1>7
  <2>2. ~HasSq(s.pairs[i]) /\ s.pairs[i].cqid \in C /\ s.pairs[i] \in PairAmong(a)
    BY <1>0, <1>3, <2>1, SqTakenPair DEF SameKey
  <2> QED
    BY <2>1, <2>2, CqTakenPair DEF HasSq
<1>11. t # <<>>
  BY <1>0, <1>7
<1>12. Keep(t, NotEmpty(t)) = <<m.pairs[1]>>
  BY <1>6, <1>7, <1>8, <1>9, <1>10, <1>11, KeepOnlyFirst
<1>13. ASSUME IdsOf(m.pairs, m.sqids, m.cqids)
       PROVE  Without(m.sqids, Q) = <<>> /\ Without(m.cqids, C) = <<>>
  <2>1. /\ m.sqids \in Seq(Q) /\ Len(m.sqids) = n - 1
        /\ m.cqids \in Seq(C) /\ Len(m.cqids) = n - 1
        /\ \A i \in 1 .. n - 1 : m.sqids[i] \in Q /\ m.cqids[i] \in C
    BY <1>0, <1>3, <1>13 DEF IdsOf
  <2> QED
    BY <2>1, KeepNone DEF Without
<1> QED
  BY <1>1, <1>4, <1>5, <1>6, <1>12, <1>13 DEF io

(* What a new head does to a pair.                                          *)
LEMMA HeadTakenPair ==
    ASSUME NEW a \in Nat, NEW e \in PairAmong(a), HasSq(e), NEW h \in 0 .. Entries - 1
    PROVE  /\ [e EXCEPT !.sq.head = h] \in PairAmong(a)
           /\ SameKey([e EXCEPT !.sq.head = h], e)
           /\ [e EXCEPT !.sq.head = h].cq = e.cq
           /\ HasSq([e EXCEPT !.sq.head = h])
           /\ [e EXCEPT !.sq.head = h].sq.mem = e.sq.mem
<1> DEFINE q == [e.sq EXCEPT !.head = h]
           f == [e EXCEPT !.sq = q]
<1>1. e.sq \in SqAmong(a)
  BY DEF PairAmong, HasSq
<1>2. q \in SqAmong(a) /\ q.mem = e.sq.mem
  BY <1>1 DEF SqAmong
<1>3. q # NoQueue
  BY <1>2, NoQueueAssumption, EntriesAssumption DEF SqAmong
<1> HIDE DEF q
<1>4. f \in PairAmong(a) /\ f.sqid = e.sqid /\ f.cqid = e.cqid /\ f.cq = e.cq /\ f.sq = q
  BY <1>2 DEF PairAmong
<1>5. [e EXCEPT !.sq.head = h] = f
  BY DEF q
<1> QED
  BY <1>2, <1>3, <1>4, <1>5 DEF SameKey, HasSq

(* A pair that is new to a whole directory leaves it whole.                 *)
LEMMA AddWhole ==
    ASSUME NEW a \in Nat, NEW m, m.pairs \in Seq(PairAmong(a)), WholePairs(m.pairs),
           NEW e \in PairAmong(a), IsIo(e), HasSq(e), HasCq(e),
           \A i \in 1 .. Len(m.pairs) : m.pairs[i].sqid # e.sqid /\ m.pairs[i].cqid # e.cqid
    PROVE  /\ Add(m, e).pairs = Append(m.pairs, e)
           /\ WholePairs(Add(m, e).pairs)
           /\ IdsOf(Add(m, e).pairs, Add(m, e).sqids, Add(m, e).cqids)
<1> DEFINE r == Append(m.pairs, e)
<1>1. Assign(m.pairs, e) = r
  <2> DEFINE S == PairAmong(a)
             p == m.pairs
  <2>1. p \in Seq(S) /\ e \in S /\ \A i \in 1 .. Len(p) : ~SameKey(p[i], e)
    BY DEF SameKey
  <2> HIDE DEF S, p
  <2>2. Assign(p, e) = Append(p, e)
    BY ONLY <2>1 DEF Assign
  <2> QED
    BY <2>2 DEF p
<1>2. /\ r \in Seq(PairAmong(a)) /\ Len(r) = Len(m.pairs) + 1 /\ Len(m.pairs) \in Nat \ {0}
      /\ \A i \in 1 .. Len(m.pairs) : r[i] = m.pairs[i]
      /\ r[Len(m.pairs) + 1] = e
  BY AppendProperties, EmptySeq DEF WholePairs
<1> HIDE DEF r
<1>3. \A i \in 1 .. Len(r) : i \in 1 .. Len(m.pairs) \/ i = Len(m.pairs) + 1
  BY <1>2
<1>4. WholePairs(r)
  <2>1. r # <<>> /\ r[1].sqid = 0 /\ r[1].cqid = 0
    BY <1>2 DEF WholePairs
  <2>2. \A i \in 2 .. Len(r) : IsIo(r[i])
    BY <1>2, <1>3 DEF WholePairs
  <2>3. \A i \in 1 .. Len(r) : HasSq(r[i]) /\ HasCq(r[i])
    BY <1>2, <1>3 DEF WholePairs
  <2>4. \A i, j \in 1 .. Len(r) : r[i].sqid = r[j].sqid \/ r[i].cqid = r[j].cqid => i = j
    BY <1>2, <1>3 DEF WholePairs
  <2> QED
    BY <2>1, <2>2, <2>3, <2>4 DEF WholePairs
<1>5. /\ Sqids(IoPairs(r)) = [i \in 1 .. Len(r) - 1 |-> r[i + 1].sqid]
      /\ Cqids(IoPairs(r)) = [i \in 1 .. Len(r) - 1 |-> r[i + 1].cqid]
  BY <1>2, <1>4, WholeIo
<1>6. /\ Add(m, e).pairs = r
      /\ Add(m, e).sqids = Sqids(IoPairs(r)) /\ Add(m, e).cqids = Cqids(IoPairs(r))
  BY <1>1, AddMgr
<1>7. IdsOf(r, Add(m, e).sqids, Add(m, e).cqids)
  BY <1>5, <1>6 DEF IdsOf
<1> QED
  BY <1>4, <1>6, <1>7 DEF r

(* A directory that begins with an admin pair is whole.                     *)
LEMMA AddFirst ==
    ASSUME NEW m, m.pairs = <<>>, NEW e, e.sqid = 0, e.cqid = 0, HasSq(e), HasCq(e)
    PROVE  /\ Add(m, e).pairs = <<e>>
           /\ WholePairs(Add(m, e).pairs)
           /\ IdsOf(Add(m, e).pairs, Add(m, e).sqids, Add(m, e).cqids)
<1>1. Assign(m.pairs, e) = <<e>>
  BY DEF Assign
<1>2. WholePairs(<<e>>)
  BY DEF WholePairs
<1>3. <<e>> \in Seq({e})
  OBVIOUS
<1> DEFINE r == <<e>>
<1>4. /\ Sqids(IoPairs(r)) = [i \in 1 .. Len(r) - 1 |-> r[i + 1].sqid]
      /\ Cqids(IoPairs(r)) = [i \in 1 .. Len(r) - 1 |-> r[i + 1].cqid]
  BY <1>2, <1>3, WholeIo
<1>5. /\ Add(m, e).pairs = r
      /\ Add(m, e).sqids = Sqids(IoPairs(r)) /\ Add(m, e).cqids = Cqids(IoPairs(r))
  BY <1>1, AddMgr
<1> HIDE DEF r
<1>6. IdsOf(r, Add(m, e).sqids, Add(m, e).cqids)
  BY <1>4, <1>5 DEF IdsOf
<1> QED
  BY <1>2, <1>5, <1>6 DEF r

(* The lookup in completion_queues finds a queue of the identifier, and the *)
(* new one if there is no other.                                            *)
LEMMA StagedFound ==
    ASSUME NEW a \in Nat, NEW list \in Seq([qid : Qids, mem : 1 .. a]), NEW q \in Qids,
           NEW l \in 1 .. Len(list), list[l].qid = q
    PROVE  /\ StagedCq(list, q) \in 1 .. a
           /\ (\A i \in 1 .. Len(list) : list[i].qid = q => i = l) => StagedCq(list, q) = list[l].mem
<1> DEFINE T == {i \in 1 .. Len(list) : list[i].qid = q}
           First(i) == list[i].qid = q /\ \A j \in 1 .. i - 1 : list[j].qid # q
           k == CHOOSE i \in 1 .. Len(list) : First(i)
<1>1. PICK x \in T : \A y \in T : x <= y
  <2>1. T \subseteq Nat /\ T # {}
    OBVIOUS
  <2> HIDE DEF T
  <2> QED
    BY <2>1, LeastNat
<1>2. First(x) /\ x \in 1 .. Len(list)
  <2>1. ASSUME NEW j \in 1 .. x - 1, list[j].qid = q PROVE FALSE
    <3>1. j \in T /\ ~(x <= j)
      BY <2>1
    <3> QED
      BY <1>1, <3>1
  <2> QED
    BY <2>1
<1>3. k \in 1 .. Len(list) /\ list[k].qid = q
  BY <1>2
<1>4. StagedCq(list, q) = list[k].mem
  BY DEF StagedCq
<1> HIDE DEF k
<1>5. list[k].mem \in 1 .. a
  <2> DEFINE S == [qid : Qids, mem : 1 .. a]
  <2>1. list \in Seq(S)
    OBVIOUS
  <2> HIDE DEF S
  <2>2. list[k] \in S
    BY <1>3, <2>1
  <2> QED
    BY <2>2 DEF S
<1>6. (\A i \in 1 .. Len(list) : list[i].qid = q => i = l) => k = l
  BY <1>3
<1> QED
  BY <1>4, <1>5, <1>6

(* PairOf finds the pair of the identifier in a whole directory.            *)
LEMMA PairOfWhole ==
    ASSUME NEW m, Len(m.pairs) \in Nat, WholePairs(m.pairs), NEW l \in 1 .. Len(m.pairs)
    PROVE  PairOf(m, m.pairs[l].sqid) = m.pairs[l]
<1> DEFINE First(i) == /\ m.pairs[i].sqid = m.pairs[l].sqid
                       /\ \A j \in 1 .. i - 1 : m.pairs[j].sqid # m.pairs[l].sqid
           k == CHOOSE i \in 1 .. Len(m.pairs) : First(i)
<1>1. First(l)
  <2>1. \A j \in 1 .. l - 1 : j \in 1 .. Len(m.pairs) /\ j # l
    OBVIOUS
  <2> QED
    BY <2>1 DEF WholePairs
<1>2. k \in 1 .. Len(m.pairs) /\ m.pairs[k].sqid = m.pairs[l].sqid
  BY <1>1
<1>3. PairOf(m, m.pairs[l].sqid) = m.pairs[k]
  BY DEF PairOf
<1> HIDE DEF k
<1> QED
  BY <1>2, <1>3 DEF WholePairs

-----------------------------------------------------------------------------
(***************************************************************************)
(* The invariant holds at first and after every call.                      *)
(***************************************************************************)

(* The admin pair.                                                          *)
LEMMA AdminPairFacts ==
    ASSUME NEW a \in Nat \ {0}
    PROVE  /\ AdminPair(a) \in PairAmong(a)
           /\ AdminPair(a).sqid = 0 /\ AdminPair(a).cqid = 0
           /\ HasSq(AdminPair(a)) /\ HasCq(AdminPair(a))
           /\ AdminPair(a).sq.mem = a
           /\ ~IsIo(AdminPair(a))
BY NoQueueAssumption, EntriesAssumption
DEF AdminPair, Sq, PairAmong, SqAmong, HasSq, HasCq, IsIo

(* The driver's directory after its start or a reset.                       *)
LEMMA FreshDirectory ==
    ASSUME NEW a \in Nat \ {0}
    PROVE  /\ IsMgr(Add(NewMgr, AdminPair(a)))
           /\ Add(NewMgr, AdminPair(a)).pairs = <<AdminPair(a)>>
           /\ Add(NewMgr, AdminPair(a)).index = 0
           /\ WholePairs(Add(NewMgr, AdminPair(a)).pairs)
           /\ IdsOf(Add(NewMgr, AdminPair(a)).pairs, Add(NewMgr, AdminPair(a)).sqids,
                    Add(NewMgr, AdminPair(a)).cqids)
<1>1. NewMgr.pairs = <<>> /\ NewMgr.index = 0
  BY DEF NewMgr
<1> QED
  BY <1>1, AdminPairFacts, AddFirst, AddMgr

(* An enabled device with admin queues.                                     *)
LEMMA InitInv == Init => Inv
<1> SUFFICES ASSUME Init PROVE Inv
  OBVIOUS
<1> DEFINE m == Add(NewMgr, AdminPair(1))
           e == AdminPair(1)
<1>1. /\ host = m /\ sim = m /\ staged = <<>> /\ tailDb = [q \in Qids |-> 0]
      /\ allocated = 1 /\ endings = 0 /\ outcome = "ok" /\ firstLife = TRUE
  BY DEF Init
<1>2. /\ IsMgr(m) /\ m.pairs = <<e>> /\ m.index = 0
      /\ WholePairs(m.pairs) /\ IdsOf(m.pairs, m.sqids, m.cqids)
  BY FreshDirectory
<1>3. /\ e \in PairAmong(1) /\ HasSq(e) /\ ~IsIo(e)
  BY AdminPairFacts
<1> HIDE DEF m, e
<1>4. TypesInv
  <2>1. <<e>> \in Seq(PairAmong(1))
    BY <1>3
  <2>2. tailDb \in [Qids -> 0 .. Entries - 1]
    BY <1>1, EntriesAssumption
  <2>3. endings \in 0 .. MaxEndings
    BY <1>1, MaxEndingsAssumption
  <2> QED
    BY <1>1, <1>2, <2>1, <2>2, <2>3 DEF TypesInv
<1>5. DirectoryInv
  BY <1>1, <1>2 DEF DirectoryInv
<1>6. FirstLifeInv
  <2>1. Drained(sim)
    BY <1>1, <1>2, <1>3 DEF Drained
  <2>2. \A i \in 1 .. Len(staged) : FALSE
    BY <1>1
  <2>3. Len(host.pairs) = 1
    BY <1>1, <1>2
  <2>4. \A q \in Qids : tailDb[q] = 0
    BY <1>1
  <2> QED
    BY <1>1, <1>2, <2>1, <2>2, <2>3, <2>4 DEF FirstLifeInv
<1>7. SubmissionsReachSimulator
  BY <1>1, <1>2, <1>3 DEF SubmissionsReachSimulator, Pairs, SameKey
<1> QED
  BY <1>4, <1>5, <1>6, <1>7 DEF Inv

(* What the submissions reach, index by index.                              *)
Reaches(h, s) ==
    \A i \in 1 .. Len(h) : \E j \in 1 .. Len(s) :
        SameKey(h[i], s[j]) /\ HasSq(s[j]) /\ s[j].sq.mem = h[i].sq.mem

(* SubmissionsReachSimulator in terms of the lists.                         *)
LEMMA ReachesIs == SubmissionsReachSimulator <=> Reaches(host.pairs, sim.pairs)
BY DEF SubmissionsReachSimulator, Reaches, Pairs

(* The same of the next state.                                              *)
LEMMA ReachesIsNext ==
    SubmissionsReachSimulator' <=> Reaches(host'.pairs, sim'.pairs)
BY DEF SubmissionsReachSimulator, Reaches, Pairs

(* The parts of TypesInv.                                                   *)
LEMMA TypesFacts ==
    ASSUME TypesInv
    PROVE  /\ allocated \in Nat \ {0} /\ allocated \in Nat
           /\ IsMgr(host) /\ host.pairs \in Seq(PairAmong(allocated)) /\ host.index \in Nat
           /\ IsMgr(sim) /\ sim.pairs \in Seq(PairAmong(allocated))
           /\ Len(host.pairs) \in Nat /\ Len(sim.pairs) \in Nat
           /\ staged \in Seq([qid : Qids, mem : 1 .. allocated])
           /\ tailDb \in [Qids -> 0 .. Entries - 1]
           /\ endings \in 0 .. MaxEndings
           /\ firstLife \in BOOLEAN
<1> DEFINE S == PairAmong(allocated)
<1>1. /\ allocated \in Nat \ {0}
      /\ IsMgr(host) /\ host.pairs \in Seq(S) /\ host.index \in Nat
      /\ IsMgr(sim) /\ sim.pairs \in Seq(S)
      /\ staged \in Seq([qid : Qids, mem : 1 .. allocated])
      /\ tailDb \in [Qids -> 0 .. Entries - 1]
      /\ endings \in 0 .. MaxEndings
      /\ firstLife \in BOOLEAN
  BY DEF TypesInv
<1> HIDE DEF S
<1>2. Len(host.pairs) \in Nat /\ Len(sim.pairs) \in Nat
  BY <1>1
<1>3. allocated \in Nat
  BY <1>1
<1> QED
  BY <1>1, <1>2, <1>3 DEF S

(* Serving keeps the keys and the memory of the pairs.                      *)
LEMMA ServedReached ==
    ASSUME TypesInv, SubmissionsReachSimulator, NEW db \in [Qids -> 0 .. Entries - 1]
    PROVE  Reaches(host.pairs, Served(sim, db).pairs)
<1> DEFINE r == Served(sim, db).pairs
<1>0. /\ allocated \in Nat /\ IsMgr(sim) /\ sim.pairs \in Seq(PairAmong(allocated))
      /\ Len(sim.pairs) \in Nat
  BY TypesFacts
<1>1. /\ r = [i \in 1 .. Len(sim.pairs) |-> HeadFollows(sim.pairs[i], db)]
      /\ Len(r) = Len(sim.pairs)
  BY <1>0, ServedMgr
<1> HIDE DEF r
<1> SUFFICES ASSUME NEW i \in 1 .. Len(host.pairs)
             PROVE  \E j \in 1 .. Len(r) :
                      SameKey(host.pairs[i], r[j]) /\ HasSq(r[j]) /\ r[j].sq.mem = host.pairs[i].sq.mem
  BY DEF Reaches, r
<1>2. PICK j \in 1 .. Len(sim.pairs) :
        /\ SameKey(host.pairs[i], sim.pairs[j]) /\ HasSq(sim.pairs[j])
        /\ sim.pairs[j].sq.mem = host.pairs[i].sq.mem
  BY ReachesIs DEF Reaches
<1>3. sim.pairs[j] \in PairAmong(allocated)
  BY <1>0
<1>4. /\ SameKey(r[j], sim.pairs[j]) /\ HasSq(r[j])
      /\ r[j].sq.mem = sim.pairs[j].sq.mem
  BY <1>0, <1>1, <1>2, <1>3, HeadFollowsPair
<1> QED
  BY <1>1, <1>2, <1>4 DEF SameKey

(* The simulator's list of completion queues, and the object a new          *)
(* submission queue finds in it.                                            *)
StagedIs(list, c) ==
    /\ list \in Seq([qid : Qids, mem : 1 .. allocated + 2])
    /\ Len(list) = Len(staged) + 1 /\ Len(staged) \in Nat
    /\ \A i \in 1 .. Len(staged) : list[i] = staged[i]
    /\ list[Len(staged) + 1].qid = c
    /\ StagedCq(list, c) \in 1 .. allocated + 2
    /\ (\A i \in 1 .. Len(staged) : staged[i].qid # c) => StagedCq(list, c) = allocated + 1

LEMMA StagedNew ==
    ASSUME TypesInv, NEW c \in Qids, NEW list,
           list = Append(staged, [qid |-> c, mem |-> allocated + 1])
    PROVE  StagedIs(list, c)
<1> DEFINE b == allocated + 2
           S == [qid : Qids, mem : 1 .. b]
           x == [qid |-> c, mem |-> allocated + 1]
           n == Len(staged)
<1>1. staged \in Seq(S)
  <2> DEFINE R == [qid : Qids, mem : 1 .. allocated]
  <2>1. R \subseteq S /\ staged \in Seq(R)
    BY TypesFacts
  <2> HIDE DEF R, S
  <2> QED
    BY <2>1
<1>2. x \in S /\ x.qid = c /\ x.mem = allocated + 1 /\ b \in Nat
  BY TypesFacts
<1>7. list = Append(staged, x)
  OBVIOUS
<1> HIDE DEF S, x
<1>3. /\ list \in Seq(S) /\ Len(list) = n + 1 /\ n \in Nat
      /\ \A i \in 1 .. n : list[i] = staged[i]
      /\ list[n + 1] = x
  BY <1>1, <1>2, <1>7, AppendProperties
<1> HIDE DEF n
<1>4. n + 1 \in 1 .. Len(list) /\ list[n + 1].qid = c /\ list[n + 1].mem = allocated + 1
  BY <1>2, <1>3
<1> HIDE DEF b
<1>5. /\ StagedCq(list, c) \in 1 .. b
      /\ (\A i \in 1 .. Len(list) : list[i].qid = c => i = n + 1)
           => StagedCq(list, c) = list[n + 1].mem
  BY <1>2, <1>3, <1>4, StagedFound DEF S
<1>6. ASSUME \A i \in 1 .. n : staged[i].qid # c
      PROVE  \A i \in 1 .. Len(list) : list[i].qid = c => i = n + 1
  BY <1>3, <1>6
<1> QED
  BY <1>3, <1>4, <1>5, <1>6 DEF b, S, x, n, StagedIs

(* The pair of a new queue.                                                 *)
LEMMA NewPair ==
    ASSUME NEW a \in Nat, NEW s \in Qids, NEW c \in Qids, NEW k \in 1 .. a, NEW l \in 1 .. a,
           NEW e, e = [sqid |-> s, cqid |-> c, sq |-> Sq(k), cq |-> l]
    PROVE  /\ e \in PairAmong(a)
           /\ IsIo(e) /\ HasSq(e) /\ HasCq(e)
           /\ e.sqid = s /\ e.cqid = c /\ e.sq.mem = k /\ e.sq.head = 0
BY NoQueueAssumption, EntriesAssumption, QidsAssumption
DEF Sq, PairAmong, SqAmong, HasSq, HasCq, IsIo

(* A pair added on both sides, under a key the host has not used, leaves the *)
(* pairs of the host reached.                                               *)
LEMMA AddReaches ==
    ASSUME NEW S, NEW h \in Seq(S), NEW s \in Seq(S), Reaches(h, s), NEW e \in S, NEW f \in S,
           SameKey(e, f), HasSq(f), f.sq.mem = e.sq.mem,
           \A i \in 1 .. Len(h) : ~SameKey(h[i], e)
    PROVE  Reaches(Append(h, e), Assign(s, f))
<1> DEFINE g == Append(h, e)
           t == Assign(s, f)
<1>1. /\ Len(g) = Len(h) + 1 /\ Len(h) \in Nat /\ Len(s) \in Nat
      /\ \A i \in 1 .. Len(h) : g[i] = h[i]
      /\ g[Len(h) + 1] = e
  BY AppendProperties
<1>2. /\ \A i \in 1 .. Len(s) : ~SameKey(s[i], f) => \E j \in 1 .. Len(t) : t[j] = s[i]
      /\ \E j \in 1 .. Len(t) : t[j] = f
  <2>1. \E j \in 1 .. Len(Assign(s, f)) : Assign(s, f)[j] = f
    BY AssignList
  <2>2. ASSUME NEW i \in 1 .. Len(s), ~SameKey(s[i], f)
        PROVE  \E j \in 1 .. Len(Assign(s, f)) : Assign(s, f)[j] = s[i]
    BY <2>2, AssignList
  <2> QED
    BY <2>1, <2>2
<1> HIDE DEF g, t
<1>3. ASSUME NEW i \in 1 .. Len(g)
      PROVE  \E j \in 1 .. Len(t) : SameKey(g[i], t[j]) /\ HasSq(t[j]) /\ t[j].sq.mem = g[i].sq.mem
  <2>1. CASE i = Len(h) + 1
    BY <1>1, <1>2, <2>1
  <2>2. CASE i \in 1 .. Len(h)
    <3>1. PICK j \in 1 .. Len(s) : SameKey(h[i], s[j]) /\ HasSq(s[j]) /\ s[j].sq.mem = h[i].sq.mem
      BY <2>2 DEF Reaches
    <3>2. ~SameKey(s[j], f)
      BY <2>2, <3>1 DEF SameKey
    <3> QED
      BY <1>1, <1>2, <2>2, <3>1, <3>2
  <2> QED
    BY <1>1, <2>1, <2>2
<1> QED
  BY <1>3 DEF Reaches, g, t

(* The pairs of the driver and of the simulator after a call, typed.        *)
LEMMA TypesNext ==
    ASSUME TypesInv, NEW b \in Nat \ {0}, allocated' = b,
           IsMgr(host'), host'.pairs \in Seq(PairAmong(b)), host'.index \in Nat,
           IsMgr(sim'), sim'.pairs \in Seq(PairAmong(b)),
           staged' \in Seq([qid : Qids, mem : 1 .. b]),
           tailDb' \in [Qids -> 0 .. Entries - 1],
           endings' \in 0 .. MaxEndings, firstLife' \in BOOLEAN,
           outcome' \in {"ok", "no completion", "index error", "attribute error", "assertion error"}
    PROVE  TypesInv'
BY DEF TypesInv, IsMgr, PairAmong, SqAmong

(* create_io_queue_pair: both directories get the pair, the simulator's     *)
(* with the completion queue it finds in its list.                          *)
LEMMA CreateStep ==
    ASSUME Inv, NEW s \in Qids, NEW c \in Qids, CreatePair(s, c)
    PROVE  Inv'
<1> DEFINE b == allocated + 2
           list == Append(staged, [qid |-> c, mem |-> allocated + 1])
           e == [sqid |-> s, cqid |-> c, sq |-> Sq(allocated + 2), cq |-> allocated + 1]
           f == [sqid |-> s, cqid |-> c, sq |-> Sq(allocated + 2), cq |-> StagedCq(list, c)]
           sv == Served(sim, tailDb)
           n == Len(host.pairs)
<1>1. /\ Drained(sim)
      /\ \A i \in 1 .. n : host.pairs[i].sqid # s /\ host.pairs[i].cqid # c
      /\ allocated' = b /\ staged' = list /\ sim' = Add(sv, f) /\ host' = Add(host, e)
      /\ outcome' = "ok" /\ firstLife' = (firstLife /\ endings = 0)
      /\ tailDb' = tailDb /\ endings' = endings
  BY DEF CreatePair, Followed
<1>2. TypesInv /\ DirectoryInv /\ FirstLifeInv /\ SubmissionsReachSimulator
  BY DEF Inv
<1>3. /\ allocated \in Nat /\ IsMgr(host) /\ host.pairs \in Seq(PairAmong(allocated))
      /\ host.index \in Nat /\ n \in Nat
      /\ IsMgr(sim) /\ sim.pairs \in Seq(PairAmong(allocated))
      /\ tailDb \in [Qids -> 0 .. Entries - 1]
      /\ endings \in 0 .. MaxEndings
  BY <1>2, TypesFacts
<1>4. b \in Nat \ {0} /\ allocated <= b /\ allocated + 1 \in 1 .. b /\ allocated + 2 \in 1 .. b
  BY <1>3
<1>5. /\ list \in Seq([qid : Qids, mem : 1 .. b])
      /\ Len(list) = Len(staged) + 1 /\ Len(staged) \in Nat
      /\ \A i \in 1 .. Len(staged) : list[i] = staged[i]
      /\ list[Len(staged) + 1].qid = c
      /\ StagedCq(list, c) \in 1 .. b
      /\ (\A i \in 1 .. Len(staged) : staged[i].qid # c) => StagedCq(list, c) = allocated + 1
  <2> HIDE DEF list
  <2>1. list = Append(staged, [qid |-> c, mem |-> allocated + 1])
    BY DEF list
  <2>2. TypesInv /\ c \in Qids
    BY <1>2
  <2>3. StagedIs(list, c)
    BY ONLY <2>1, <2>2, StagedNew
  <2> QED
    BY <2>3 DEF StagedIs
<1> HIDE DEF list, b
<1>6. /\ e \in PairAmong(b) /\ IsIo(e) /\ HasSq(e) /\ HasCq(e)
      /\ e.sqid = s /\ e.cqid = c /\ e.sq.mem = allocated + 2 /\ e.sq.head = 0
  <2> HIDE DEF e
  <2>1. e = [sqid |-> s, cqid |-> c, sq |-> Sq(allocated + 2), cq |-> allocated + 1]
    BY DEF e
  <2> QED
    BY <1>4, <2>1, NewPair
<1>7. /\ f \in PairAmong(b) /\ IsIo(f) /\ HasSq(f)
      /\ f.sqid = s /\ f.cqid = c /\ f.sq.mem = allocated + 2 /\ f.sq.head = 0
  <2> HIDE DEF f
  <2>1. f = [sqid |-> s, cqid |-> c, sq |-> Sq(allocated + 2), cq |-> StagedCq(list, c)]
    BY DEF f
  <2> QED
    BY <1>4, <1>5, <2>1, NewPair
<1>8. StagedCq(list, c) = allocated + 1 => f = e
  OBVIOUS
<1> HIDE DEF e, f
<1>9. /\ IsMgr(sv) /\ sv.pairs \in Seq(PairAmong(allocated))
      /\ Reaches(host.pairs, sv.pairs)
      /\ sv.pairs = sim.pairs
  BY <1>1, <1>2, <1>3, ServedMgr, ServedReached, ServedDrained
<1> HIDE DEF sv
<1>10. host.pairs \in Seq(PairAmong(b)) /\ sv.pairs \in Seq(PairAmong(b))
  BY <1>3, <1>4, <1>9, PairAmongMore
<1>11. /\ host'.pairs = Append(host.pairs, e)
       /\ WholePairs(host'.pairs)
       /\ IdsOf(host'.pairs, host'.sqids, host'.cqids)
       /\ IsMgr(host') /\ host'.index = host.index
  <2>1. WholePairs(host.pairs)
    BY <1>2 DEF DirectoryInv
  <2>2. /\ Add(host, e).pairs = Append(host.pairs, e)
        /\ WholePairs(Add(host, e).pairs)
        /\ IdsOf(Add(host, e).pairs, Add(host, e).sqids, Add(host, e).cqids)
    BY <1>1, <1>4, <1>6, <1>10, <2>1, AddWhole
  <2> QED
    BY <1>1, <2>2, AddMgr
<1>12. /\ Len(host'.pairs) = n + 1
       /\ \A i \in 1 .. n : host'.pairs[i] = host.pairs[i]
       /\ host'.pairs[n + 1] = e
       /\ host'.pairs \in Seq(PairAmong(b))
  BY <1>6, <1>10, <1>11, AppendProperties
<1>13. IsMgr(sim') /\ sim'.pairs = Assign(sv.pairs, f) /\ sim'.pairs \in Seq(PairAmong(b))
  <2> DEFINE S == PairAmong(b)
             p == sv.pairs
  <2>1. f \in S /\ p \in Seq(S)
    BY <1>7, <1>10
  <2> HIDE DEF S, p
  <2>2. Assign(p, f) \in Seq(S)
    BY <2>1, AssignList
  <2> QED
    BY <1>1, <2>2, AddMgr DEF S, p
<1>14. TypesInv'
  <2>1. firstLife' \in BOOLEAN /\ host'.index \in Nat /\ outcome' = "ok"
    BY <1>1, <1>3, <1>11
  <2>2. staged' \in Seq([qid : Qids, mem : 1 .. b])
    BY <1>1, <1>5
  <2>3. tailDb' \in [Qids -> 0 .. Entries - 1] /\ endings' \in 0 .. MaxEndings
    BY <1>1, <1>3
  <2> QED
    BY <1>1, <1>2, <1>4, <1>11, <1>12, <1>13, <2>1, <2>2, <2>3, TypesNext
<1>15. DirectoryInv'
  BY <1>11 DEF DirectoryInv
<1>16. SubmissionsReachSimulator'
  <2>1. \A i \in 1 .. n : ~SameKey(host.pairs[i], e)
    BY <1>1, <1>6 DEF SameKey
  <2>2. SameKey(e, f)
    BY <1>6, <1>7 DEF SameKey
  <2>3. Reaches(Append(host.pairs, e), Assign(sv.pairs, f))
    BY <1>6, <1>7, <1>9, <1>10, <2>1, <2>2, AddReaches
  <2> QED
    BY <1>11, <1>13, <2>3, ReachesIsNext
<1>17. FirstLifeInv'
  <2> SUFFICES ASSUME firstLife'
               PROVE  /\ host'.pairs = sim'.pairs
                      /\ Drained(sim)'
                      /\ \A i \in 1 .. Len(staged') :
                           \E j \in 1 .. Len(host'.pairs) : staged'[i].qid = host'.pairs[j].cqid
                      /\ \A q \in Qids : tailDb'[q] = 0
                           \/ \E j \in 1 .. Len(host'.pairs) : host'.pairs[j].sqid = q
                      /\ host'.index = 0 \/ host'.index + 1 < Len(host'.pairs)
                      /\ endings' = 0
    BY <1>1 DEF FirstLifeInv
  <2>1. firstLife /\ endings = 0
    BY <1>1
  <2>2. /\ host.pairs = sim.pairs
        /\ \A i \in 1 .. Len(staged) : \E j \in 1 .. n : staged[i].qid = host.pairs[j].cqid
        /\ \A q \in Qids : tailDb[q] = 0 \/ \E j \in 1 .. n : host.pairs[j].sqid = q
        /\ host.index = 0 \/ host.index + 1 < n
    BY <1>2, <2>1 DEF FirstLifeInv
  <2>3. f = e
    BY <1>1, <1>5, <1>8, <2>2
  <2>4. host'.pairs = sim'.pairs
    <3>1. \A i \in 1 .. n : ~SameKey(host.pairs[i], e)
      BY <1>1, <1>6 DEF SameKey
    <3>2. Assign(host.pairs, e) = Append(host.pairs, e)
      <4> DEFINE S == PairAmong(b)
                 p == host.pairs
      <4>1. e \in S /\ p \in Seq(S) /\ \A i \in 1 .. Len(p) : ~SameKey(p[i], e)
        BY <1>6, <1>10, <3>1
      <4> HIDE DEF S, p
      <4>2. Assign(p, e) = Append(p, e)
        BY ONLY <4>1 DEF Assign
      <4> QED
        BY <4>2 DEF p
    <3> QED
      BY <1>9, <1>11, <1>13, <2>2, <2>3, <3>2
  <2>5. Drained(sim)'
    <3> SUFFICES ASSUME NEW i \in 1 .. Len(host'.pairs),
                        IsIo(host'.pairs[i]), HasSq(host'.pairs[i])
                 PROVE  host'.pairs[i].sq.head = tailDb[host'.pairs[i].sqid]
      BY <1>1, <2>4 DEF Drained
    <3>1. CASE i = n + 1
      <4>1. host'.pairs[i].sq.head = 0 /\ host'.pairs[i].sqid = s
        BY <1>6, <1>12, <3>1
      <4>2. tailDb[s] = 0
        BY <1>1, <2>2
      <4> QED
        BY <4>1, <4>2
    <3>2. CASE i \in 1 .. n
      <4>1. host'.pairs[i] = sim.pairs[i] /\ i \in 1 .. Len(sim.pairs)
        BY <1>12, <2>2, <3>2
      <4> QED
        BY <1>1, <4>1 DEF Drained
    <3> QED
      BY <1>3, <1>12, <3>1, <3>2
  <2>6. ASSUME NEW i \in 1 .. Len(staged')
        PROVE  \E j \in 1 .. Len(host'.pairs) : staged'[i].qid = host'.pairs[j].cqid
    <3>1. CASE i = Len(staged) + 1
      <4>1. staged'[i].qid = c
        BY <1>1, <1>5, <3>1
      <4>2. n + 1 \in 1 .. Len(host'.pairs) /\ host'.pairs[n + 1].cqid = c
        BY <1>3, <1>6, <1>12
      <4> QED
        BY <4>1, <4>2
    <3>2. CASE i \in 1 .. Len(staged)
      <4>1. PICK j \in 1 .. n : staged[i].qid = host.pairs[j].cqid
        BY <2>2, <3>2
      <4> QED
        <5>1. staged'[i] = staged[i]
          BY <1>1, <1>5, <3>2
        <5>2. j \in 1 .. Len(host'.pairs) /\ host'.pairs[j] = host.pairs[j]
          BY <1>3, <1>12
        <5> QED
          BY <4>1, <5>1, <5>2
    <3> QED
      BY <1>1, <1>5, <3>1, <3>2
  <2>7. ASSUME NEW q \in Qids, tailDb'[q] # 0
        PROVE  \E j \in 1 .. Len(host'.pairs) : host'.pairs[j].sqid = q
    <3>1. PICK j \in 1 .. n : host.pairs[j].sqid = q
      BY <1>1, <2>2, <2>7
    <3>2. j \in 1 .. Len(host'.pairs)
      BY <1>3, <1>12
    <3>3. host'.pairs[j].sqid = q
      BY <1>12, <3>1
    <3> QED
      BY <3>2, <3>3
  <2>8. host'.index = 0 \/ host'.index + 1 < Len(host'.pairs)
    BY <1>3, <1>11, <1>12, <2>2
  <2> QED
    BY <1>1, <2>1, <2>4, <2>5, <2>6, <2>7, <2>8
<1> QED
  BY <1>14, <1>15, <1>16, <1>17 DEF Inv

(* The identifiers of the driver's directory.                               *)
LEMMA DirectoryFacts ==
    ASSUME TypesInv, DirectoryInv
    PROVE  /\ Len(host.pairs) \in Nat \ {0}
           /\ Len(host.sqids) = Len(host.pairs) - 1
           /\ \A i \in 1 .. Len(host.pairs) - 1 : host.sqids[i] = host.pairs[i + 1].sqid
           /\ host.sqids # <<>> <=> Len(host.pairs) > 1
<1> DEFINE n == Len(host.pairs)
           S == PairAmong(allocated)
<1>1. host.pairs \in Seq(S) /\ host.pairs # <<>>
  BY TypesFacts DEF DirectoryInv, WholePairs
<1> HIDE DEF S
<1>2. n \in Nat \ {0}
  BY <1>1, EmptySeq
<1>3. host.sqids = [i \in 1 .. n - 1 |-> host.pairs[i + 1].sqid]
  BY DEF DirectoryInv, IdsOf
<1> DEFINE ids == host.sqids
           x(i) == host.pairs[i + 1].sqid
<1>4. ids = [i \in 1 .. n - 1 |-> x(i)]
  BY <1>3
<1> HIDE DEF ids, n, x
<1>5. Len(ids) = n - 1 /\ \A i \in 1 .. n - 1 : ids[i] = x(i)
  BY <1>2, <1>4
<1>6. ids # <<>> <=> n > 1
  BY <1>2, <1>4, <1>5
<1> QED
  BY <1>2, <1>5, <1>6 DEF ids, n, x

(* A call that fails in the driver, or does nothing, keeps the invariant    *)
(* unless it fails where queues are left in the first life.                 *)
LEMMA SameButOutcome ==
    ASSUME Inv, UNCHANGED <<host, sim, staged, tailDb, allocated, endings, firstLife>>,
           outcome' \in {"ok", "no completion", "index error", "attribute error", "assertion error"},
           firstLife /\ Len(host.pairs) > 1 => outcome' = "ok"
    PROVE  Inv'
<1>1. TypesInv'
  BY DEF Inv, TypesInv, IsMgr, PairAmong, SqAmong
<1>2. DirectoryInv'
  BY DEF Inv, DirectoryInv
<1>3. FirstLifeInv'
  BY DEF Inv, FirstLifeInv, Drained
<1>4. SubmissionsReachSimulator'
  BY ReachesIs, ReachesIsNext DEF Inv
<1> QED
  BY <1>1, <1>2, <1>3, <1>4 DEF Inv

(* A new enable: the driver starts with a new directory, the simulator only *)
(* replaces its admin pair.                                                 *)
LEMMA ResetStep ==
    ASSUME Inv, Reset
    PROVE  Inv'
<1> DEFINE b == allocated + 1
           e == AdminPair(b)
           S == PairAmong(b)
<1>1. /\ endings < MaxEndings
      /\ allocated' = b /\ tailDb' = [q \in Qids |-> 0] /\ host' = Add(NewMgr, e)
      /\ sim' = Add(sim, e) /\ endings' = endings + 1 /\ outcome' = "ok"
      /\ firstLife' = FALSE /\ staged' = staged
  BY DEF Reset
<1>2. TypesInv /\ SubmissionsReachSimulator
  BY DEF Inv
<1>3. /\ allocated \in Nat /\ sim.pairs \in Seq(PairAmong(allocated))
      /\ staged \in Seq([qid : Qids, mem : 1 .. allocated])
      /\ endings \in 0 .. MaxEndings
  BY <1>2, TypesFacts
<1>4. b \in Nat \ {0} /\ allocated <= b /\ 1 .. allocated \subseteq 1 .. b
  BY <1>3
<1> HIDE DEF b
<1>5. /\ e \in S /\ HasSq(e) /\ SameKey(e, e)
      /\ IsMgr(host') /\ host'.pairs = <<e>> /\ host'.index = 0
      /\ WholePairs(host'.pairs) /\ IdsOf(host'.pairs, host'.sqids, host'.cqids)
  BY <1>1, <1>4, AdminPairFacts, FreshDirectory DEF SameKey
<1> HIDE DEF e
<1>6. sim.pairs \in Seq(S)
  BY <1>3, <1>4, PairAmongMore
<1> HIDE DEF S
<1>7. /\ Assign(sim.pairs, e) \in Seq(S)
      /\ \E j \in 1 .. Len(Assign(sim.pairs, e)) : Assign(sim.pairs, e)[j] = e
  <2> DEFINE p == sim.pairs
  <2>1. p \in Seq(S) /\ e \in S
    BY <1>5, <1>6
  <2> HIDE DEF p
  <2>2. Assign(p, e) \in Seq(S)
    BY <2>1, AssignList
  <2>3. \E j \in 1 .. Len(Assign(p, e)) : Assign(p, e)[j] = e
    BY <2>1, AssignList
  <2> QED
    BY <2>2, <2>3 DEF p
<1>8. IsMgr(sim') /\ sim'.pairs = Assign(sim.pairs, e)
  BY <1>1, AddMgr
<1>9. TypesInv'
  <2>1. staged' \in Seq([qid : Qids, mem : 1 .. b])
    <3> DEFINE R == [qid : Qids, mem : 1 .. allocated]
               T == [qid : Qids, mem : 1 .. b]
    <3>1. R \subseteq T /\ staged' \in Seq(R)
      BY <1>1, <1>3, <1>4
    <3> HIDE DEF R, T
    <3>2. staged' \in Seq(T)
      BY <3>1
    <3> QED
      BY <3>2 DEF T
  <2>2. tailDb' \in [Qids -> 0 .. Entries - 1]
    BY <1>1, EntriesAssumption
  <2>3. endings' \in 0 .. MaxEndings
    BY <1>1, <1>3, MaxEndingsAssumption
  <2>4. host'.pairs \in Seq(S) /\ host'.index \in Nat
    BY <1>5
  <2>5. firstLife' \in BOOLEAN /\ outcome' = "ok"
    BY <1>1
  <2> QED
    BY <1>1, <1>2, <1>4, <1>5, <1>7, <1>8, <2>1, <2>2, <2>3, <2>4, <2>5, TypesNext DEF S
<1>10. DirectoryInv'
  BY <1>5 DEF DirectoryInv
<1>11. FirstLifeInv'
  BY <1>1 DEF FirstLifeInv
<1>12. SubmissionsReachSimulator'
  <2>1. \A i \in 1 .. Len(host'.pairs) : host'.pairs[i] = e
    BY <1>5
  <2>2. Reaches(host'.pairs, sim'.pairs)
    BY <1>5, <1>7, <1>8, <2>1 DEF Reaches
  <2> QED
    BY <2>2, ReachesIsNext
<1> QED
  BY <1>9, <1>10, <1>11, <1>12 DEF Inv

(* remove_cq does not fail in the first life.                               *)
LEMMA DeleteRaisesStep ==
    ASSUME Inv, DeleteRaises
    PROVE  Inv'
<1>1. /\ ~(MayDelete(host, HostIo) /\ MayDelete(sim, HostIo))
      /\ outcome' = "assertion error"
      /\ UNCHANGED <<host, sim, staged, tailDb, allocated, endings, firstLife>>
  BY DEF DeleteRaises
<1>2. TypesInv /\ WholePairs(host.pairs) /\ FirstLifeInv
  BY DEF Inv, DirectoryInv
<1>3. /\ allocated \in Nat /\ IsMgr(host) /\ host.pairs \in Seq(PairAmong(allocated))
      /\ IsMgr(sim) /\ sim.pairs \in Seq(PairAmong(allocated))
  BY <1>2, TypesFacts
<1>4. MayDelete(host, IoSet(host.pairs))
  BY <1>2, <1>3, DeletionOfAll
<1>5. ~firstLife
  <2> SUFFICES ASSUME firstLife PROVE FALSE
    OBVIOUS
  <2>1. sim.pairs = host.pairs
    BY <1>2 DEF FirstLifeInv
  <2>2. MayDelete(sim, IoSet(sim.pairs))
    BY <1>2, <1>3, <2>1, DeletionOfAll
  <2> QED
    BY <1>1, <1>4, <2>1, <2>2 DEF HostIo
<1> QED
  BY <1>1, <1>5, SameButOutcome

(* next_iosq_id does not read past its list in the first life.              *)
LEMMA PastTheEndStep ==
    ASSUME Inv, SendIoPastTheEnd
    PROVE  Inv'
<1>1. /\ host.sqids # <<>> /\ ~IndexInRange(host)
      /\ outcome' = "index error"
      /\ UNCHANGED <<host, sim, staged, tailDb, allocated, endings, firstLife>>
  BY DEF SendIoPastTheEnd
<1>2. TypesInv /\ DirectoryInv /\ FirstLifeInv
  BY DEF Inv
<1>3. host.index \in Nat /\ endings \in 0 .. MaxEndings
  BY <1>2, TypesFacts
<1>4. Len(host.pairs) \in Nat /\ Len(host.sqids) = Len(host.pairs) - 1 /\ Len(host.pairs) > 1
  BY <1>1, <1>2, DirectoryFacts
<1>5. ~firstLife
  <2> SUFFICES ASSUME firstLife PROVE FALSE
    OBVIOUS
  <2>1. host.index = 0 \/ host.index + 1 < Len(host.pairs)
    <3>1. /\ endings # 0 => Len(host.pairs) = 1
          /\ endings = 0 => host.index = 0 \/ host.index + 1 < Len(host.pairs)
      BY Zenon, <1>2 DEF FirstLifeInv
    <3>2. CASE endings = 0
      BY <3>1, <3>2
    <3>3. CASE endings # 0
      <4> DEFINE n == Len(host.pairs)
      <4>2. n \in Nat /\ n > 1
        BY <1>4
      <4> HIDE DEF n
      <4>3. n # 1
        BY <4>2
      <4>1. Len(host.pairs) # 1
        BY <4>3 DEF n
      <4> QED
        BY <3>1, <3>3, <4>1
    <3> QED
      BY <3>2, <3>3
  <2>2. ~(host.index < Len(host.sqids))
    BY <1>1 DEF IndexInRange
  <2> QED
    BY <1>3, <1>4, <2>1, <2>2
<1> QED
  BY <1>1, <1>5, SameButOutcome

(* An I/O command without an I/O queue.                                     *)
LEMMA WithoutQueueStep ==
    ASSUME Inv, SendIoWithoutQueue
    PROVE  Inv'
<1>1. /\ host.sqids = <<>>
      /\ outcome' = "attribute error"
      /\ UNCHANGED <<host, sim, staged, tailDb, allocated, endings, firstLife>>
  BY DEF SendIoWithoutQueue
<1>2. ~(Len(host.pairs) > 1)
  BY <1>1, DirectoryFacts DEF Inv
<1> QED
  BY <1>1, <1>2, SameButOutcome

(* After a deletion a directory that was whole holds the admin pair alone.  *)
LEMMA DeleteStep ==
    ASSUME Inv, DeleteIoQueues
    PROVE  Inv'
<1> DEFINE sv == Served(sim, tailDb)
           p == host.pairs[1]
           S == PairAmong(allocated)
<1>1. /\ endings < MaxEndings
      /\ host' = AllDeleted(host, HostIo) /\ sim' = AllDeleted(sv, HostIo)
      /\ endings' = endings + 1 /\ outcome' = "ok"
      /\ UNCHANGED <<staged, tailDb, allocated, firstLife>>
      /\ Drained(sim)
  BY DEF DeleteIoQueues, Followed
<1>2. /\ TypesInv /\ WholePairs(host.pairs) /\ IdsOf(host.pairs, host.sqids, host.cqids)
      /\ FirstLifeInv /\ SubmissionsReachSimulator
  BY DEF Inv, DirectoryInv
<1>3. /\ allocated \in Nat \ {0} /\ allocated \in Nat /\ IsMgr(host) /\ host.pairs \in Seq(S)
      /\ host.index \in Nat /\ IsMgr(sim) /\ sim.pairs \in Seq(S)
      /\ staged \in Seq([qid : Qids, mem : 1 .. allocated])
      /\ tailDb \in [Qids -> 0 .. Entries - 1]
      /\ endings \in 0 .. MaxEndings /\ firstLife \in BOOLEAN
      /\ Len(host.pairs) \in Nat
  BY <1>2, TypesFacts
<1>4. /\ IsMgr(sv) /\ sv.pairs \in Seq(S) /\ sv.pairs = sim.pairs
  BY <1>1, <1>2, <1>3, ServedMgr, ServedDrained
<1> HIDE DEF sv
<1>5. /\ host'.pairs = <<p>> /\ host'.sqids = <<>> /\ host'.cqids = <<>>
  BY <1>1, <1>2, <1>3, DeletionOfAll DEF HostIo
<1>6. /\ IsMgr(host') /\ host'.pairs \in Seq(S) /\ host'.index = host.index
      /\ IsMgr(sim') /\ sim'.pairs \in Seq(S)
      /\ \A e \in Range(sv.pairs) : Spared(e, HostIo) => e \in Range(sim'.pairs)
  <2> DEFINE io == HostIo
  <2>1. /\ IsMgr(AllDeleted(host, io)) /\ AllDeleted(host, io).pairs \in Seq(S)
        /\ AllDeleted(host, io).index = host.index
    BY <1>3, DeletionSpares
  <2>2. IsMgr(AllDeleted(sv, io)) /\ AllDeleted(sv, io).pairs \in Seq(S)
    BY <1>3, <1>4, DeletionSpares
  <2>3. \A e \in Range(sv.pairs) : Spared(e, io) => e \in Range(AllDeleted(sv, io).pairs)
    BY <1>3, <1>4, DeletionSpares
  <2> QED
    BY <1>1, <2>1, <2>2, <2>3
<1>7. TypesInv'
  <2>1. endings' \in 0 .. MaxEndings
    BY <1>1, <1>3, MaxEndingsAssumption
  <2> QED
    BY <1>1, <1>2, <1>3, <1>6, <2>1, TypesNext
<1>8. p.sqid = 0 /\ p.cqid = 0 /\ HasSq(p) /\ HasCq(p) /\ 1 \in 1 .. Len(host.pairs)
  BY <1>2, <1>3, EmptySeq DEF WholePairs
<1> HIDE DEF p
<1>9. DirectoryInv'
  <2>1. WholePairs(<<p>>)
    BY <1>8 DEF WholePairs
  <2>2. IdsOf(<<p>>, <<>>, <<>>)
    BY DEF IdsOf
  <2> QED
    BY <1>5, <2>1, <2>2 DEF DirectoryInv
<1>10. FirstLifeInv'
  <2> SUFFICES ASSUME firstLife'
               PROVE  host'.pairs = sim'.pairs /\ Drained(sim)' /\ Len(host'.pairs) = 1 /\ endings' # 0
    BY <1>1 DEF FirstLifeInv
  <2>1. sv.pairs = host.pairs
    BY <1>1, <1>2, <1>4 DEF FirstLifeInv
  <2>2. sim'.pairs = <<p>>
    <3>1. AllDeleted(sv, IoSet(sv.pairs)).pairs = <<sv.pairs[1]>>
      BY <1>2, <1>3, <1>4, <2>1, DeletionOfAll
    <3> QED
      BY <1>1, <2>1, <3>1 DEF HostIo, p
  <2>3. Drained(sim)'
    BY <1>8, <2>2 DEF Drained, IsIo
  <2>4. endings' # 0
    BY <1>1, <1>3
  <2> QED
    BY <1>5, <2>2, <2>3, <2>4
<1>11. SubmissionsReachSimulator'
  <2>1. PICK j \in 1 .. Len(sv.pairs) :
          SameKey(p, sv.pairs[j]) /\ HasSq(sv.pairs[j]) /\ sv.pairs[j].sq.mem = p.sq.mem
    BY <1>2, <1>4, <1>8, ReachesIs DEF Reaches, p
  <2>2. \A e \in HostIo : e.sqid # 0 /\ e.cqid # 0
    BY DEF HostIo, IoSet, IsIo
  <2>3. Spared(sv.pairs[j], HostIo)
    BY <1>8, <2>1, <2>2 DEF SameKey, Spared
  <2>4. PICK l \in 1 .. Len(sim'.pairs) : sim'.pairs[l] = sv.pairs[j]
    BY <1>6, <2>1, <2>3 DEF Range
  <2>5. \A i \in 1 .. Len(host'.pairs) : host'.pairs[i] = p
    BY <1>5
  <2>6. Reaches(host'.pairs, sim'.pairs)
    BY <2>1, <2>4, <2>5 DEF Reaches
  <2> QED
    BY <2>6, ReachesIsNext
<1> QED
  BY <1>7, <1>9, <1>10, <1>11 DEF Inv

(* The host takes the head of the queue it has waited for.                  *)
HeadTaken(e, q, h) == IF e.sqid = q THEN [e EXCEPT !.sq.head = h] ELSE e

LEMMA HeadsTakenMgr ==
    ASSUME NEW a \in Nat, NEW m, IsMgr(m), m.pairs \in Seq(PairAmong(a)), WholePairs(m.pairs),
           NEW q, NEW h \in 0 .. Entries - 1
    PROVE  /\ IsMgr(HeadsTaken(m, q, h))
           /\ HeadsTaken(m, q, h).pairs \in Seq(PairAmong(a))
           /\ Len(HeadsTaken(m, q, h).pairs) = Len(m.pairs)
           /\ \A i \in 1 .. Len(m.pairs) :
                HeadsTaken(m, q, h).pairs[i] = HeadTaken(m.pairs[i], q, h)
           /\ HeadsTaken(m, q, h).sqids = m.sqids /\ HeadsTaken(m, q, h).cqids = m.cqids
           /\ HeadsTaken(m, q, h).index = m.index
<1> DEFINE x(i) == IF m.pairs[i].sqid = q THEN [m.pairs[i] EXCEPT !.sq.head = h] ELSE m.pairs[i]
           r == [i \in 1 .. Len(m.pairs) |-> x(i)]
<1>1. \A i \in 1 .. Len(m.pairs) : x(i) \in PairAmong(a)
  <2> SUFFICES ASSUME NEW i \in 1 .. Len(m.pairs) PROVE x(i) \in PairAmong(a)
    OBVIOUS
  <2>1. m.pairs[i] \in PairAmong(a) /\ HasSq(m.pairs[i])
    BY DEF WholePairs
  <2>2. [m.pairs[i] EXCEPT !.sq.head = h] \in PairAmong(a)
    BY <2>1, HeadTakenPair
  <2> QED
    BY <2>1, <2>2
<1>2. HeadsTaken(m, q, h) = [m EXCEPT !.pairs = r]
  BY DEF HeadsTaken
<1> HIDE DEF x
<1>3. /\ r \in Seq(PairAmong(a)) /\ Len(r) = Len(m.pairs)
      /\ \A i \in 1 .. Len(m.pairs) : r[i] = x(i)
  BY <1>1
<1> HIDE DEF r
<1>4. /\ IsMgr(HeadsTaken(m, q, h)) /\ HeadsTaken(m, q, h).pairs = r
      /\ HeadsTaken(m, q, h).sqids = m.sqids /\ HeadsTaken(m, q, h).cqids = m.cqids
      /\ HeadsTaken(m, q, h).index = m.index
  BY <1>2 DEF IsMgr
<1> QED
  BY <1>3, <1>4 DEF x, HeadTaken

(* Pairs that keep their keys and queues keep a directory whole, and what   *)
(* they reached reached.                                                    *)
LEMMA SameKeysWhole ==
    ASSUME NEW p, NEW r, Len(p) \in Nat, Len(r) = Len(p), WholePairs(p), r # <<>>,
           \A i \in 1 .. Len(p) : SameKey(r[i], p[i]) /\ HasSq(r[i]) /\ HasCq(r[i]),
           NEW ids, NEW cqids, IdsOf(p, ids, cqids)
    PROVE  WholePairs(r) /\ IdsOf(r, ids, cqids)
<1>1. 1 \in 1 .. Len(p)
  BY DEF WholePairs
<1> QED
  BY DEF SameKey, WholePairs, IdsOf, IsIo

LEMMA SameKeysReach ==
    ASSUME NEW p, NEW r, Len(r) = Len(p), NEW s, Reaches(p, s),
           \A i \in 1 .. Len(p) : SameKey(r[i], p[i]) /\ r[i].sq.mem = p[i].sq.mem
    PROVE  Reaches(r, s)
BY DEF Reaches, SameKey

(* The queue whose turn it is, and where its doorbell goes.                 *)
LEMMA TurnFacts ==
    ASSUME TypesInv, DirectoryInv, host.sqids # <<>>, IndexInRange(host)
    PROVE  /\ host.index + 2 \in 2 .. Len(host.pairs)
           /\ NextIosq(host) = host.pairs[host.index + 2].sqid
           /\ NextIosq(host) \in Qids
           /\ PairOf(host, NextIosq(host)) = host.pairs[host.index + 2]
           /\ TailAfter(tailDb[NextIosq(host)]) \in 0 .. Entries - 1
<1> DEFINE n == Len(host.pairs)
           k == host.index + 2
<1>1. host.index \in Nat /\ host.pairs \in Seq(PairAmong(allocated)) /\ WholePairs(host.pairs)
      /\ tailDb \in [Qids -> 0 .. Entries - 1]
  BY TypesFacts DEF DirectoryInv
<1>2. /\ n \in Nat \ {0} /\ Len(host.sqids) = n - 1
      /\ \A i \in 1 .. n - 1 : host.sqids[i] = host.pairs[i + 1].sqid
  BY DirectoryFacts
<1>3. host.index < n - 1
  BY <1>2 DEF IndexInRange
<1> HIDE DEF n
<1>4. k \in 2 .. n /\ host.index + 1 \in 1 .. n - 1 /\ k \in 1 .. n
  BY <1>1, <1>2, <1>3
<1>5. NextIosq(host) = host.pairs[k].sqid
  <2>1. host.sqids[host.index + 1] = host.pairs[(host.index + 1) + 1].sqid
    BY <1>2, <1>4
  <2>2. (host.index + 1) + 1 = k
    BY <1>1
  <2> QED
    BY <2>1, <2>2 DEF NextIosq
<1>6. host.pairs[k].sqid \in Qids
  <2>1. host.pairs[k] \in PairAmong(allocated)
    BY <1>1, <1>4 DEF n
  <2>2. IsIo(host.pairs[k])
    BY <1>1, <1>4 DEF WholePairs, n
  <2> QED
    BY <2>1, <2>2 DEF PairAmong, IsIo
<1> HIDE DEF k
<1>7. PairOf(host, host.pairs[k].sqid) = host.pairs[k]
  BY <1>1, <1>2, <1>4, PairOfWhole DEF n
<1>8. TailAfter(tailDb[host.pairs[k].sqid]) \in 0 .. Entries - 1
  <2> DEFINE tail == tailDb[host.pairs[k].sqid]
  <2>1. tail \in 0 .. Entries - 1
    BY <1>1, <1>6
  <2> HIDE DEF tail
  <2>2. TailAfter(tail) \in 0 .. Entries - 1
    BY <2>1, EntriesAssumption DEF TailAfter
  <2> QED
    BY <2>2 DEF tail
<1> QED
  BY <1>4, <1>5, <1>6, <1>7, <1>8 DEF n, k

(* An I/O command: doorbell, execution by the simulator, the head that      *)
(* comes back, and the index of the round robin.                            *)
LEMMA SendIoStep ==
    ASSUME Inv, SendIo
    PROVE  Inv'
<1> DEFINE q == NextIosq(host)
           db == [tailDb EXCEPT ![q] = TailAfter(tailDb[q])]
           k == host.index + 2
           n == Len(host.pairs)
           S == PairAmong(allocated)
           m == IndexMoved(host)
           p == host.pairs
<1>1. /\ Drained(sim) /\ host.sqids # <<>> /\ IndexInRange(host)
      /\ tailDb' = db /\ sim' = Served(sim, db)
      /\ \/ ServesHost(q) /\ host' = HeadsTaken(m, q, db[q]) /\ outcome' = "ok"
         \/ ~ServesHost(q) /\ host' = m /\ outcome' = "no completion"
      /\ UNCHANGED <<staged, allocated, endings, firstLife>>
  BY DEF SendIo, Followed
<1>2. TypesInv /\ DirectoryInv /\ FirstLifeInv /\ SubmissionsReachSimulator
  BY DEF Inv
<1>3. /\ allocated \in Nat \ {0} /\ allocated \in Nat /\ IsMgr(host) /\ p \in Seq(S)
      /\ host.index \in Nat /\ n \in Nat /\ IsMgr(sim) /\ sim.pairs \in Seq(S)
      /\ staged \in Seq([qid : Qids, mem : 1 .. allocated])
      /\ tailDb \in [Qids -> 0 .. Entries - 1]
      /\ endings \in 0 .. MaxEndings /\ firstLife \in BOOLEAN
      /\ Len(sim.pairs) \in Nat
  BY <1>2, TypesFacts
<1>4. WholePairs(p) /\ IdsOf(p, host.sqids, host.cqids)
  BY <1>2 DEF DirectoryInv
<1>5. /\ k \in 2 .. n /\ q = p[k].sqid /\ q \in Qids
      /\ PairOf(host, q) = p[k]
      /\ TailAfter(tailDb[q]) \in 0 .. Entries - 1
  BY <1>1, <1>2, TurnFacts
<1>6. n > 1 /\ Len(host.sqids) = n - 1
  BY <1>1, <1>2, DirectoryFacts
<1> HIDE DEF q, k
<1>7. /\ db \in [Qids -> 0 .. Entries - 1]
      /\ db[q] \in 0 .. Entries - 1
      /\ \A r \in Qids : r # q => db[r] = tailDb[r]
  BY <1>3, <1>5
<1> HIDE DEF db
<1>8. /\ IsMgr(m) /\ m.pairs = p /\ m.sqids = host.sqids /\ m.cqids = host.cqids
      /\ m.index = IF host.index + 2 > n - 1 THEN 0 ELSE host.index + 1
  <2> DEFINE v == IF host.index + 2 > Len(host.sqids) THEN 0 ELSE host.index + 1
  <2>1. m = [host EXCEPT !.index = v]
    BY DEF IndexMoved
  <2>2. v = IF host.index + 2 > n - 1 THEN 0 ELSE host.index + 1
    BY <1>6
  <2> HIDE DEF v
  <2>3. /\ IsMgr(m) /\ m.pairs = p /\ m.sqids = host.sqids /\ m.cqids = host.cqids
        /\ m.index = v
    BY <1>3, <2>1 DEF IsMgr
  <2> QED
    BY <2>2, <2>3
<1> HIDE DEF m, S
<1>9. /\ IsMgr(host') /\ host'.pairs \in Seq(S) /\ Len(host'.pairs) = n
      /\ host'.sqids = host.sqids /\ host'.cqids = host.cqids /\ host'.index = m.index
      /\ \A i \in 1 .. n : /\ SameKey(host'.pairs[i], p[i])
                           /\ HasSq(host'.pairs[i]) /\ HasCq(host'.pairs[i])
                           /\ host'.pairs[i].sq.mem = p[i].sq.mem
      /\ ServesHost(q) => \A i \in 1 .. n :
           host'.pairs[i] = IF p[i].sqid = q THEN [p[i] EXCEPT !.sq.head = db[q]] ELSE p[i]
  <2>1. CASE ~ServesHost(q)
    <3>1. host' = m
      BY <1>1, <2>1
    <3> QED
      BY <1>3, <1>4, <1>8, <2>1, <3>1 DEF SameKey, WholePairs
  <2>2. CASE ServesHost(q)
    <3> DEFINE r == HeadsTaken(m, q, db[q])
    <3>1. host' = r
      BY <1>1, <2>2
    <3>2. /\ IsMgr(r) /\ r.pairs \in Seq(S) /\ Len(r.pairs) = n
          /\ \A i \in 1 .. n :
               r.pairs[i] = IF p[i].sqid = q THEN [p[i] EXCEPT !.sq.head = db[q]] ELSE p[i]
          /\ r.sqids = m.sqids /\ r.cqids = m.cqids /\ r.index = m.index
      <4> DEFINE h == db[q]
      <4>1. /\ IsMgr(m) /\ m.pairs \in Seq(PairAmong(allocated)) /\ WholePairs(m.pairs)
            /\ h \in 0 .. Entries - 1 /\ allocated \in Nat
        BY <1>3, <1>4, <1>7, <1>8 DEF S
      <4> HIDE DEF h
      <4>2. /\ IsMgr(HeadsTaken(m, q, h))
            /\ HeadsTaken(m, q, h).pairs \in Seq(PairAmong(allocated))
            /\ Len(HeadsTaken(m, q, h).pairs) = Len(m.pairs)
            /\ HeadsTaken(m, q, h).sqids = m.sqids /\ HeadsTaken(m, q, h).cqids = m.cqids
            /\ HeadsTaken(m, q, h).index = m.index
        BY <4>1, HeadsTakenMgr
      <4>4. ASSUME NEW i \in 1 .. Len(m.pairs)
            PROVE  HeadsTaken(m, q, h).pairs[i] = HeadTaken(m.pairs[i], q, h)
        BY <4>1, HeadsTakenMgr
      <4>3. r = HeadsTaken(m, q, h)
        BY DEF h
      <4> HIDE DEF r
      <4> QED
        BY <1>8, <4>2, <4>3, <4>4 DEF S, h, HeadTaken
    <3> HIDE DEF r
    <3>3. ASSUME NEW i \in 1 .. n
          PROVE  /\ SameKey(r.pairs[i], p[i])
                 /\ HasSq(r.pairs[i]) /\ HasCq(r.pairs[i])
                 /\ r.pairs[i].sq.mem = p[i].sq.mem
      <4>1. p[i] \in S /\ HasSq(p[i]) /\ HasCq(p[i])
        BY <1>3, <1>4 DEF WholePairs
      <4>2. CASE p[i].sqid = q
        <5> DEFINE e == [p[i] EXCEPT !.sq.head = db[q]]
        <5>1. r.pairs[i] = e
          BY <3>2, <4>2
        <5>2. SameKey(e, p[i]) /\ HasSq(e) /\ e.cq = p[i].cq /\ e.sq.mem = p[i].sq.mem
          <6> DEFINE x == p[i]
                     h == db[q]
          <6>1. x \in PairAmong(allocated) /\ HasSq(x) /\ h \in 0 .. Entries - 1 /\ allocated \in Nat
            BY <1>3, <1>7, <4>1 DEF S
          <6>2. e = [x EXCEPT !.sq.head = h]
            OBVIOUS
          <6> HIDE DEF x, h, e
          <6>3. SameKey(e, x) /\ HasSq(e) /\ e.cq = x.cq /\ e.sq.mem = x.sq.mem
            BY <6>1, <6>2, HeadTakenPair
          <6> QED
            BY <6>3 DEF x
        <5> HIDE DEF e
        <5> QED
          BY <4>1, <5>1, <5>2 DEF HasCq
      <4>3. CASE p[i].sqid # q
        BY <3>2, <4>1, <4>3 DEF SameKey
      <4> QED
        BY <4>2, <4>3
    <3> QED
      BY <1>8, <3>1, <3>2, <3>3
  <2> QED
    BY <2>1, <2>2
<1>10. /\ IsMgr(sim') /\ sim'.pairs \in Seq(S) /\ Len(sim'.pairs) = Len(sim.pairs)
       /\ sim'.pairs = [i \in 1 .. Len(sim.pairs) |-> HeadFollows(sim.pairs[i], db)]
       /\ Reaches(p, sim'.pairs)
  <2>1. Reaches(p, Served(sim, db).pairs)
    BY <1>2, <1>7, ServedReached
  <2>2. /\ IsMgr(Served(sim, db)) /\ Served(sim, db).pairs \in Seq(S)
        /\ Len(Served(sim, db).pairs) = Len(sim.pairs)
        /\ Served(sim, db).pairs = [i \in 1 .. Len(sim.pairs) |-> HeadFollows(sim.pairs[i], db)]
    <3>1. allocated \in Nat /\ IsMgr(sim) /\ sim.pairs \in Seq(PairAmong(allocated))
      BY <1>3 DEF S
    <3>2. db \in [Qids -> 0 .. Entries - 1]
      BY <1>7
    <3>3. /\ IsMgr(Served(sim, db)) /\ Served(sim, db).pairs \in Seq(PairAmong(allocated))
          /\ Len(Served(sim, db).pairs) = Len(sim.pairs)
      BY <3>1, <3>2, ServedMgr
    <3>4. Served(sim, db).pairs = [i \in 1 .. Len(sim.pairs) |-> HeadFollows(sim.pairs[i], db)]
      BY <3>1, <3>2, ServedMgr
    <3> QED
      BY <3>3, <3>4 DEF S
  <2> QED
    BY <1>1, <2>1, <2>2
<1>11. TypesInv'
  <2>1. host'.index \in Nat
    BY <1>3, <1>8, <1>9
  <2>2. outcome' \in {"ok", "no completion", "index error", "attribute error", "assertion error"}
    BY <1>1
  <2>3. /\ allocated' = allocated /\ staged' = staged /\ endings' = endings
        /\ firstLife' = firstLife /\ tailDb' \in [Qids -> 0 .. Entries - 1]
    BY <1>1, <1>7
  <2> QED
    BY <1>2, <1>3, <1>9, <1>10, <2>1, <2>2, <2>3, TypesNext DEF S
<1>12. DirectoryInv'
  <2> DEFINE r == host'.pairs
  <2>1. /\ Len(r) = Len(p) /\ Len(p) \in Nat /\ r # <<>>
        /\ \A i \in 1 .. Len(p) : SameKey(r[i], p[i]) /\ HasSq(r[i]) /\ HasCq(r[i])
    BY <1>3, <1>6, <1>9
  <2> HIDE DEF r
  <2>2. WholePairs(r) /\ IdsOf(r, host.sqids, host.cqids)
    BY <1>4, <2>1, SameKeysWhole
  <2> QED
    BY <1>9, <2>2 DEF DirectoryInv, r
<1>13. SubmissionsReachSimulator'
  <2> DEFINE r == host'.pairs
             s == sim'.pairs
  <2>2. /\ Len(r) = Len(p) /\ Reaches(p, s)
        /\ \A i \in 1 .. Len(p) : SameKey(r[i], p[i]) /\ r[i].sq.mem = p[i].sq.mem
    BY <1>9, <1>10
  <2> HIDE DEF r, s, p
  <2>3. Reaches(r, s)
    BY <2>2, SameKeysReach
  <2>1. Reaches(host'.pairs, sim'.pairs)
    BY <2>3 DEF r, s
  <2> QED
    BY <2>1, ReachesIsNext
<1>14. FirstLifeInv'
  <2> SUFFICES ASSUME firstLife
               PROVE  FirstLifeInv'
    BY <1>1 DEF FirstLifeInv
  <2>1. /\ p = sim.pairs /\ endings = 0
        /\ \A i \in 1 .. Len(staged) : \E j \in 1 .. n : staged[i].qid = p[j].cqid
        /\ \A r \in Qids : tailDb[r] = 0 \/ \E j \in 1 .. n : p[j].sqid = r
    <3>1. p = sim.pairs /\ (endings # 0 => n = 1)
      BY Zenon, <1>2 DEF FirstLifeInv
    <3>2. endings = 0
      <4> HIDE DEF n
      <4> QED
        BY <1>3, <1>6, <3>1
    <3>3. /\ \A i \in 1 .. Len(staged) : \E j \in 1 .. n : staged[i].qid = p[j].cqid
          /\ \A r \in Qids : tailDb[r] = 0 \/ \E j \in 1 .. n : p[j].sqid = r
      BY Zenon, <1>2, <3>2 DEF FirstLifeInv
    <3> QED
      BY <3>1, <3>2, <3>3
  <2>2. ServesHost(q)
    <3>1. k \in 1 .. Len(sim.pairs) /\ HasSq(p[k]) /\ HasCq(p[k])
      BY <1>3, <1>4, <1>5, <2>1 DEF WholePairs
    <3> QED
      BY <1>5, <2>1, <3>1 DEF ServesHost
  <2>3. outcome' = "ok"
    BY <1>1, <2>2
  <2>4. ASSUME NEW i \in 1 .. n
        PROVE  /\ host'.pairs[i] = sim'.pairs[i]
               /\ IsIo(sim'.pairs[i]) => sim'.pairs[i].sq.head = db[sim'.pairs[i].sqid]
    <3>1. p[i] \in S /\ HasSq(p[i]) /\ sim'.pairs[i] = HeadFollows(p[i], db)
      BY <1>3, <1>4, <1>10, <2>1 DEF WholePairs
    <3>2. CASE ~IsIo(p[i])
      <4>1. p[i].sqid # q
        BY <1>4, <1>5, <3>2 DEF WholePairs
      <4>2. sim'.pairs[i] = p[i]
        BY <3>1, <3>2 DEF HeadFollows
      <4> QED
        BY <1>9, <2>2, <3>2, <4>1, <4>2
    <3>3. CASE IsIo(p[i])
      <4>1. p[i].sq.head = tailDb[p[i].sqid] /\ p[i].sqid \in Qids
        BY <1>1, <2>1, <3>1, <3>3 DEF Drained, IsIo, S, PairAmong
      <4>2. sim'.pairs[i] = [p[i] EXCEPT !.sq.head = db[p[i].sqid]]
        BY <3>1, <3>3 DEF HeadFollows
      <4>6. /\ SameKey(sim'.pairs[i], p[i]) /\ sim'.pairs[i].sq.head = db[p[i].sqid]
            /\ p[i].sq.head = db[p[i].sqid] => sim'.pairs[i] = p[i]
        <5> DEFINE e == p[i]
        <5>1. /\ allocated \in Nat /\ e \in PairAmong(allocated) /\ db \in [Qids -> 0 .. Entries - 1]
              /\ IsIo(e) /\ HasSq(e)
          BY <1>3, <1>7, <3>1, <3>3 DEF S
        <5>2. sim'.pairs[i] = HeadFollows(e, db)
          BY <3>1
        <5> HIDE DEF e
        <5>3. /\ SameKey(HeadFollows(e, db), e) /\ HeadFollows(e, db).sq.head = db[e.sqid]
              /\ e.sq.head = db[e.sqid] => HeadFollows(e, db) = e
          BY ONLY <5>1, HeadFollowsPair
        <5> QED
          BY <5>2, <5>3 DEF e
      <4>3. SameKey(sim'.pairs[i], p[i]) /\ sim'.pairs[i].sq.head = db[p[i].sqid]
        BY <4>6
      <4>4. CASE p[i].sqid = q
        BY <1>9, <2>2, <4>2, <4>3, <4>4 DEF SameKey
      <4>5. CASE p[i].sqid # q
        <5>1. db[p[i].sqid] = tailDb[p[i].sqid]
          BY <1>7, <4>1, <4>5
        <5>2. sim'.pairs[i] = p[i]
          BY <4>1, <4>6, <5>1
        <5> QED
          BY <1>9, <2>2, <4>1, <4>5, <5>1, <5>2
      <4> QED
        BY <4>4, <4>5 DEF SameKey
    <3> QED
      BY <3>2, <3>3
  <2>5. host'.pairs = sim'.pairs
    <3> DEFINE r == host'.pairs
               s == sim'.pairs
    <3>1. /\ r \in Seq(S) /\ s \in Seq(S) /\ Len(r) = n /\ Len(s) = n
          /\ \A i \in 1 .. n : r[i] = s[i]
      BY <1>9, <1>10, <2>1, <2>4
    <3> HIDE DEF r, s, n
    <3>2. r = s
      BY <3>1, SeqEqual
    <3> QED
      BY <3>2 DEF r, s
  <2>6. Drained(sim)'
    BY <1>1, <1>10, <2>1, <2>4 DEF Drained
  <2>7. \A i \in 1 .. Len(staged') :
          \E j \in 1 .. Len(host'.pairs) : staged'[i].qid = host'.pairs[j].cqid
    <3> SUFFICES ASSUME NEW i \in 1 .. Len(staged)
                 PROVE  \E j \in 1 .. Len(host'.pairs) : staged[i].qid = host'.pairs[j].cqid
      BY <1>1
    <3>1. PICK j \in 1 .. n : staged[i].qid = p[j].cqid
      BY <2>1
    <3>2. j \in 1 .. Len(host'.pairs) /\ host'.pairs[j].cqid = p[j].cqid
      BY <1>9 DEF SameKey
    <3> QED
      BY <3>1, <3>2
  <2>8. \A r \in Qids : tailDb'[r] = 0 \/ \E j \in 1 .. Len(host'.pairs) : host'.pairs[j].sqid = r
    <3>1. \A r \in Qids : db[r] = 0 \/ \E j \in 1 .. n : p[j].sqid = r
      BY <1>5, <1>7, <2>1
    <3> QED
      <4>1. Len(host'.pairs) = n /\ \A j \in 1 .. n : host'.pairs[j].sqid = p[j].sqid
        BY <1>9 DEF SameKey
      <4>2. tailDb' = db
        BY <1>1
      <4> QED
        BY <3>1, <4>1, <4>2
  <2>9. host'.index = 0 \/ host'.index + 1 < Len(host'.pairs)
    BY <1>3, <1>8, <1>9
  <2>10. endings' = 0 /\ firstLife'
    BY <1>1, <2>1
  <2> QED
    BY <2>3, <2>5, <2>6, <2>7, <2>8, <2>9, <2>10 DEF FirstLifeInv
<1> QED
  BY <1>11, <1>12, <1>13, <1>14 DEF Inv

(* Nothing happens.                                                         *)
LEMMA SameInv == Inv /\ UNCHANGED vars => Inv'
<1> SUFFICES ASSUME Inv, UNCHANGED vars PROVE Inv'
  OBVIOUS
<1>1. /\ UNCHANGED <<host, sim, staged, tailDb, allocated, endings, firstLife>>
      /\ outcome' = outcome
  BY DEF vars
<1>2. firstLife /\ Len(host.pairs) > 1 => outcome = "ok"
  BY Zenon DEF Inv, FirstLifeInv
<1>3. outcome \in {"ok", "no completion", "index error", "attribute error", "assertion error"}
  BY DEF Inv, TypesInv
<1> QED
  BY <1>1, <1>2, <1>3, SameButOutcome

(* Every step.                                                              *)
LEMMA NextInv == Inv /\ [Next]_vars => Inv'
<1> SUFFICES ASSUME Inv, [Next]_vars PROVE Inv'
  OBVIOUS
<1>1. ASSUME NEW s \in Qids, NEW c \in Qids, CreatePair(s, c) PROVE Inv'
  BY <1>1, CreateStep
<1>2. CASE DeleteIoQueues
  BY <1>2, DeleteStep
<1>3. CASE DeleteRaises
  BY <1>3, DeleteRaisesStep
<1>4. CASE Reset
  BY <1>4, ResetStep
<1>5. CASE SendIo
  BY <1>5, SendIoStep
<1>6. CASE SendIoPastTheEnd
  BY <1>6, PastTheEndStep
<1>7. CASE SendIoWithoutQueue
  BY <1>7, WithoutQueueStep
<1>8. CASE UNCHANGED vars
  BY <1>8, SameInv
<1> QED
  BY <1>1, <1>2, <1>3, <1>4, <1>5, <1>6, <1>7, <1>8 DEF Next

-----------------------------------------------------------------------------
(***************************************************************************)
(* What follows from it.                                                   *)
(***************************************************************************)

(* In every life the invariant holds after every call: driver and simulator *)
(* keep typed directories, the driver's is whole, the simulator reads from  *)
(* the driver's memory, and in the first life both directories are equal.   *)
THEOREM Inductive == Spec => []Inv
BY InitInv, NextInv, PTL DEF Spec

(* The directories and doorbells hold what their types say: a pair is made  *)
(* of queue memories that were handed out, and heads and doorbells stay     *)
(* within the queues.                                                       *)
THEOREM TypesCorrect == Spec => []TypeOK
<1>1. Inv => TypeOK
  <2> SUFFICES ASSUME Inv PROVE TypeOK
    OBVIOUS
  <2>1. /\ host.pairs \in Seq(PairAmong(allocated)) /\ sim.pairs \in Seq(PairAmong(allocated))
        /\ tailDb \in [Qids -> 0 .. Entries - 1]
        /\ endings \in 0 .. MaxEndings /\ firstLife \in BOOLEAN
    BY TypesFacts DEF Inv
  <2>2. PairAmong(allocated) = PairType
    BY DEF PairAmong, PairType, SqAmong, SqObject
  <2>3. Pairs(host) \subseteq PairType /\ Pairs(sim) \subseteq PairType
    BY <2>1, <2>2 DEF Pairs
  <2>4. \A i \in 1 .. Len(staged) : staged[i] \in [qid : Qids, mem : 1 .. allocated]
    <3> DEFINE S == [qid : Qids, mem : 1 .. allocated]
    <3>1. staged \in Seq(S)
      BY TypesFacts DEF Inv
    <3> HIDE DEF S
    <3>2. \A i \in 1 .. Len(staged) : staged[i] \in S
      BY <3>1
    <3> QED
      BY <3>2 DEF S
  <2>5. outcome \in {"ok", "no completion", "index error", "attribute error", "assertion error"}
    BY DEF Inv, TypesInv
  <2> QED
    BY <2>1, <2>3, <2>4, <2>5 DEF TypeOK
<1> QED
  BY <1>1, Inductive, PTL

(* Until a reset, or queues created after a deletion, driver and simulator  *)
(* hold the same pairs and nothing is pending in any queue.                 *)
THEOREM SameDirectoryCorrect == Spec => []SameDirectory
<1>1. Inv => SameDirectory
  BY DEF Inv, FirstLifeInv, SameDirectory, Pairs
<1> QED
  BY <1>1, Inductive, PTL

(* In that time no call fails while there is an I/O queue: next_iosq_id     *)
(* stays within its list and the completion is where the driver looks.      *)
THEOREM CallsCorrect == Spec => []CallsSucceed
<1>1. Inv => CallsSucceed
  <2> SUFFICES ASSUME Inv, firstLife, host.sqids # <<>>
               PROVE  IndexInRange(host) /\ outcome = "ok"
    BY DEF CallsSucceed
  <2> DEFINE n == Len(host.pairs)
             k == Len(host.sqids)
  <2>1. n \in Nat /\ k = n - 1 /\ n > 1
    BY DirectoryFacts DEF Inv
  <2>2. host.index \in Nat
    BY TypesFacts DEF Inv
  <2>3. /\ endings # 0 => n = 1
        /\ endings = 0 => host.index = 0 \/ host.index + 1 < n
        /\ n > 1 => outcome = "ok"
    BY Zenon DEF Inv, FirstLifeInv
  <2> HIDE DEF n, k
  <2>4. host.index < k
    <3>1. CASE endings # 0
      BY <2>1, <2>3, <3>1
    <3>2. CASE endings = 0
      BY <2>1, <2>2, <2>3, <3>2
    <3> QED
      BY <3>1, <3>2
  <2> QED
    BY <2>1, <2>3, <2>4 DEF IndexInRange, k
<1> QED
  BY <1>1, Inductive, PTL

(* Whatever the user creates, deletes and resets, the driver's directory    *)
(* has both queues of every pair, no identifier twice, and the identifier   *)
(* lists of its pairs.                                                      *)
THEOREM DirectoryCorrect == Spec => []HostDirectoryIsWhole
<1>1. Inv => HostDirectoryIsWhole
  <2> SUFFICES ASSUME Inv PROVE HostDirectoryIsWhole
    OBVIOUS
  <2>1. /\ host.pairs \in Seq(PairAmong(allocated)) /\ WholePairs(host.pairs)
        /\ IdsOf(host.pairs, host.sqids, host.cqids)
    BY TypesFacts DEF Inv, DirectoryInv
  <2>2. host.sqids = Sqids(IoPairs(host.pairs)) /\ host.cqids = Cqids(IoPairs(host.pairs))
    BY <2>1, WholeIo DEF IdsOf
  <2>3. \A e \in Pairs(host) : HasSq(e) /\ HasCq(e)
    BY <2>1 DEF WholePairs, Pairs
  <2> QED
    BY <2>1, <2>2, <2>3 DEF HostDirectoryIsWhole, WholePairs
<1> QED
  BY <1>1, Inductive, PTL

(* The simulator fetches every pair's commands from the memory the driver   *)
(* posts them to, whatever it still holds from before a deletion or reset.  *)
THEOREM SubmissionsCorrect == Spec => []SubmissionsReachSimulator
BY Inductive, PTL DEF Inv
=============================================================================

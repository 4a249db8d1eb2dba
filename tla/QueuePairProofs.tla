--------------------------- MODULE QueuePairProofs ---------------------------
(***************************************************************************)
(* Proofs about NVMeRing and QueuePair for every set of commands and units, *)
(* every queue size and every CID range.                                    *)
(***************************************************************************)
EXTENDS QueuePair, FiniteSetTheorems, TLAPS

-----------------------------------------------------------------------------
(* The arithmetic of the rings, for every size.                             *)

(* An advanced index is a slot again: the wrap of NVMeHeadTail.advance.     *)
LEMMA PeekIsSlot ==
    ASSUME NEW N \in Nat \ {0}, NEW a \in Slots(N)
    PROVE  Peek(a, N) \in Slots(N)
BY DEF Peek, Slots

(* A distance is less than the size of the ring, and 0 only on the spot.    *)
LEMMA DistIsSlot ==
    ASSUME NEW N \in Nat \ {0}, NEW a \in Slots(N), NEW b \in Slots(N)
    PROVE  /\ Dist(a, b, N) \in Slots(N)
           /\ Dist(a, b, N) = 0 <=> a = b
BY DEF Dist, Slots

(* Two slots as far from the same place are the same slot.                  *)
LEMMA DistInjective ==
    ASSUME NEW N \in Nat \ {0}, NEW a \in Slots(N), NEW b \in Slots(N), NEW c \in Slots(N),
           Dist(a, b, N) = Dist(a, c, N)
    PROVE  b = c
BY DEF Dist, Slots

(* Advancing the far end adds one, unless it would reach the near end: this *)
(* is is_full.                                                              *)
LEMMA DistAdvanceTail ==
    ASSUME NEW N \in Nat \ {0}, NEW a \in Slots(N), NEW b \in Slots(N),
           ~IsFull(a, b, N)
    PROVE  Dist(a, Peek(b, N), N) = Dist(a, b, N) + 1
BY DEF Dist, Slots, Peek, IsFull

(* Advancing the near end takes one off, unless the ends meet.              *)
LEMMA DistAdvanceHead ==
    ASSUME NEW N \in Nat \ {0}, NEW a \in Slots(N), NEW b \in Slots(N), a # b
    PROVE  Dist(Peek(a, N), b, N) = Dist(a, b, N) - 1
BY DEF Dist, Slots, Peek

(* Moving the near end to a place on the way takes off the way moved.       *)
LEMMA DistMoveHead ==
    ASSUME NEW N \in Nat \ {0}, NEW a \in Slots(N), NEW b \in Slots(N), NEW c \in Slots(N),
           Dist(a, b, N) <= Dist(a, c, N)
    PROVE  Dist(b, c, N) = Dist(a, c, N) - Dist(a, b, N)
BY DEF Dist, Slots

(* num_entries counts the advances from head to tail: its four branches,    *)
(* the full queue and the wrapped one included, agree on one meaning.       *)
THEOREM NumEntriesIsDist ==
    ASSUME NEW N \in Nat \ {0}, NEW head \in Slots(N), NEW tail \in Slots(N)
    PROVE  NumEntries(head, tail, N) = Dist(head, tail, N)
BY DEF NumEntries, Dist, Slots, Peek

(* A queue is full with exactly entries-1 items.                            *)
THEOREM FullMeansAllButOne ==
    ASSUME NEW N \in Nat \ {0}, NEW head \in Slots(N), NEW tail \in Slots(N)
    PROVE  IsFull(head, tail, N) <=> Dist(head, tail, N) = N - 1
BY DEF IsFull, Dist, Slots, Peek

-----------------------------------------------------------------------------

(* The indices of both rings are slots of rings of at least one slot.       *)
LEMMA SlotFacts ==
    ASSUME TypeOK
    PROVE  /\ SQEntries \in Nat \ {0} /\ CQEntries \in Nat \ {0}
           /\ sqHead \in Slots(SQEntries) /\ sqTail \in Slots(SQEntries)
           /\ devSqHead \in Slots(SQEntries)
           /\ cqHead \in Slots(CQEntries) /\ devCqTail \in Slots(CQEntries)
           /\ Peek(sqTail, SQEntries) \in SqSlots
           /\ Peek(devSqHead, SQEntries) \in SqSlots
           /\ Peek(cqHead, CQEntries) \in CqSlots
           /\ Peek(devCqTail, CQEntries) \in CqSlots
BY QueueSizesAssumption, PeekIsSlot DEF TypeOK, SqSlots, CqSlots

(* CidMgr never hands out a value outside its range.                        *)
LEMMA CidAfterInRange == ASSUME NEW k \in Cids PROVE CidAfter(k) \in Cids
BY CidRangeAssumption DEF Cids, CidAfter

LEMMA TypeStep ==
    ASSUME TypeOK, [Next]_vars
    PROVE  TypeOK'
<1> USE DEF TypeOK
<1>0. /\ Peek(sqTail, SQEntries) \in SqSlots
      /\ Peek(devSqHead, SQEntries) \in SqSlots
      /\ Peek(cqHead, CQEntries) \in CqSlots
      /\ Peek(devCqTail, CQEntries) \in CqSlots
  BY SlotFacts
<1>1. ASSUME NEW c \in Commands, StartCmd(c) PROVE TypeOK'
  <2>1. [cid |-> nextCid, cmd |-> c] \in Sqe
    BY DEF Sqe
  <2>2. CidAfter(nextCid) \in Cids
    BY CidAfterInRange
  <2> QED
    BY <1>0, <1>1, <2>1, <2>2 DEF StartCmd, cqVars, devVars
<1>2. ASSUME NEW c \in Commands, StartCmdOnFullQueue(c) PROVE TypeOK'
  BY <1>2, CidAfterInRange DEF StartCmdOnFullQueue, sqVars, cqVars, devVars
<1>3. ASSUME NEW c \in Commands, ReuseCmd(c) PROVE TypeOK'
  BY <1>3 DEF ReuseCmd, sqVars, cqVars, devVars
<1>4. ASSUME GetCompletion PROVE TypeOK'
  <2>1. cqe[cqHead] \in Cqe
    OBVIOUS
  <2>2. cqe[cqHead].sqhd \in SqSlots /\ cqe[cqHead].cmd \in Commands \union {NoCmd}
    BY <2>1 DEF Cqe
  <2>3. PhaseAt(cqHead') \in {0, 1}
    BY DEF PhaseAt
  <2> QED
    BY <1>0, <1>4, <2>2, <2>3 DEF GetCompletion, sqVars, devVars
<1>5. ASSUME NEW u \in Units, FetchCmd(u) PROVE TypeOK'
  BY <1>0, <1>5 DEF FetchCmd, hostVars, sqVars, cqVars
<1>6. ASSUME NEW u \in Units, CompleteCmd(u) PROVE TypeOK'
  <2>1. CqeOf(u) \in Cqe
    BY DEF CqeOf, Cqe, Sqe
  <2>2. Idle \in Sqe
    BY DEF Idle, ZeroSqe, Sqe
  <2> QED
    BY <1>0, <1>6, <2>1, <2>2 DEF CompleteCmd, hostVars, sqVars
<1>7. CASE UNCHANGED vars
  BY <1>7 DEF vars, hostVars, sqVars, cqVars, devVars
<1> QED
  BY <1>1, <1>2, <1>3, <1>4, <1>5, <1>6, <1>7 DEF Next, Device

LEMMA TypeInit == Init => TypeOK
BY QueueSizesAssumption, CidRangeAssumption
DEF Init, TypeOK, Cids, SqSlots, CqSlots, Slots, Sqe, Cqe, ZeroSqe, ZeroCqe, Idle

(* Every variable keeps its type: indices stay in their rings across every  *)
(* wrap and CIDs in the range of CidMgr.                                    *)
THEOREM TypeCorrect == Spec => []TypeOK
<1>1. Init => TypeOK
  BY TypeInit
<1>2. TypeOK /\ [Next]_vars => TypeOK'
  BY TypeStep
<1> QED
  BY <1>1, <1>2, PTL DEF Spec
-----------------------------------------------------------------------------
(***************************************************************************)
(* The inductive invariant.                                                *)
(***************************************************************************)

(* The phase bit of every slot of the completion ring, the ones behind the  *)
(* head included: a pending slot carries the phase its lap is read with, a  *)
(* free one the other.  PhaseTellsPending, which speaks of the slot at the  *)
(* head only, is not inductive: the head moves on to a slot it says nothing *)
(* about.                                                                   *)
LapPhase(i) == IF cqHead <= i THEN cqPhase ELSE 1 - cqPhase
PhaseInv ==
    \A i \in CqSlots : cqe[i].p = IF PendingCq(i) THEN LapPhase(i) ELSE 1 - LapPhase(i)

(* The SQ heads in the pending completions lie between what the host knows  *)
(* and where the controller is, in the order the host will read them.       *)
SqhdInv ==
    /\ \A i \in CqSlots : PendingCq(i) =>
         Dist(sqHead, cqe[i].sqhd, SQEntries) <= Dist(sqHead, devSqHead, SQEntries)
    /\ \A i, j \in CqSlots :
         PendingCq(i) /\ PendingCq(j)
           /\ Dist(cqHead, i, CQEntries) <= Dist(cqHead, j, CQEntries)
         => Dist(sqHead, cqe[i].sqhd, SQEntries) <= Dist(sqHead, cqe[j].sqhd, SQEntries)

RingInv == TypeOK /\ PhaseInv /\ HostHeadIsBehind /\ SqhdInv /\ CompletionAssertionsHold

LEMMA RingInit == Init => RingInv
<1> SUFFICES ASSUME Init PROVE RingInv
  OBVIOUS
<1>1. TypeOK
  BY TypeInit
<1>2. \A i \in CqSlots : ~PendingCq(i)
  BY QueueSizesAssumption DEF Init, PendingCq, Holds, Dist, CqSlots, Slots
<1>3. PhaseInv
  BY <1>2 DEF PhaseInv, LapPhase, Init, CqSlots, Slots, ZeroCqe
<1>4. HostHeadIsBehind
  BY QueueSizesAssumption DEF Init, HostHeadIsBehind, Dist
<1>5. SqhdInv
  BY <1>2 DEF SqhdInv
<1>6. CompletionAssertionsHold
  BY DEF Init, CompletionAssertionsHold
<1> QED
  BY <1>1, <1>3, <1>4, <1>5, <1>6 DEF RingInv

(* The invariant decides the test of get_completion.                        *)
LEMMA PhaseInvGivesTest == RingInv => PhaseTellsPending
<1> SUFFICES ASSUME RingInv PROVE CompletionSeen <=> cqHead # devCqTail
  BY DEF PhaseTellsPending
<1>1. cqHead \in CqSlots /\ devCqTail \in CqSlots /\ cqPhase \in {0, 1}
  BY DEF RingInv, TypeOK
<1>2. PendingCq(cqHead) <=> cqHead # devCqTail
  BY <1>1, QueueSizesAssumption DEF PendingCq, Holds, Dist, CqSlots, Slots
<1>3. cqe[cqHead].p = IF PendingCq(cqHead) THEN cqPhase ELSE 1 - cqPhase
  BY <1>1, QueueSizesAssumption DEF RingInv, PhaseInv, LapPhase, CqSlots, Slots
<1> QED
  BY <1>1, <1>2, <1>3 DEF CompletionSeen

(* What posting a completion does to the set of pending slots.              *)
LEMMA PendingAfterPost ==
    ASSUME TypeOK, NEW u \in Units, CompleteCmd(u)
    PROVE  /\ ~PendingCq(devCqTail)
           /\ \A i \in CqSlots : PendingCq(i)' <=> PendingCq(i) \/ i = devCqTail
           /\ \A i \in CqSlots : PendingCq(i) =>
                Dist(cqHead, i, CQEntries) < Dist(cqHead, devCqTail, CQEntries)
BY SlotFacts DEF CompleteCmd, CqFull, IsFull, PendingCq, Holds, Dist, Peek, CqSlots, Slots

(* What consuming one does.                                                 *)
LEMMA PendingAfterConsume ==
    ASSUME RingInv, GetCompletion
    PROVE  /\ PendingCq(cqHead)
           /\ \A i \in CqSlots : PendingCq(i)' <=> PendingCq(i) /\ i # cqHead
           /\ \A i \in CqSlots : PendingCq(i) /\ i # cqHead =>
                Dist(cqHead', i, CQEntries) = Dist(cqHead, i, CQEntries) - 1
<1>1. cqHead # devCqTail
  BY PhaseInvGivesTest DEF GetCompletion, PhaseTellsPending
<1>2. cqHead' = Peek(cqHead, CQEntries) /\ devCqTail' = devCqTail
  BY DEF GetCompletion, devVars
<1> QED
  BY <1>1, <1>2, SlotFacts
  DEF RingInv, PendingCq, Holds, Dist, Peek, CqSlots, Slots

LEMMA PhaseStep ==
    ASSUME RingInv, [Next]_vars
    PROVE  PhaseInv'
<1>0. TypeOK /\ PhaseInv
  BY DEF RingInv
<1>1. CASE UNCHANGED <<cqe, cqHead, cqPhase, devCqTail>>
  BY <1>0, <1>1 DEF PhaseInv, LapPhase, PendingCq
<1>2. ASSUME GetCompletion PROVE PhaseInv'
  <2>1. cqe' = cqe /\ cqHead' = Peek(cqHead, CQEntries) /\ cqPhase' = PhaseAt(cqHead')
    BY <1>2 DEF GetCompletion
  <2>2. \A i \in CqSlots : PendingCq(i)' <=> PendingCq(i) /\ i # cqHead
    BY <1>2, PendingAfterConsume
  <2>3. cqHead \in CqSlots /\ cqPhase \in {0, 1}
    BY <1>0 DEF TypeOK
  <2>4. PendingCq(cqHead)
    BY <1>2, PendingAfterConsume
  <2>5. ASSUME NEW i \in CqSlots, i # cqHead PROVE LapPhase(i)' = LapPhase(i)
    BY <2>1, <2>3, <2>5, QueueSizesAssumption DEF LapPhase, PhaseAt, Peek, CqSlots, Slots
  <2>6. LapPhase(cqHead) = cqPhase
    BY <2>3, QueueSizesAssumption DEF LapPhase, CqSlots, Slots
  <2>7. ASSUME NEW i \in CqSlots, i = cqHead PROVE LapPhase(i)' = 1 - cqPhase
    BY <2>1, <2>3, <2>7, QueueSizesAssumption DEF LapPhase, PhaseAt, Peek, CqSlots, Slots
  <2> QED
    BY <1>0, <2>1, <2>2, <2>3, <2>4, <2>5, <2>6, <2>7 DEF PhaseInv
<1>3. ASSUME NEW u \in Units, CompleteCmd(u) PROVE PhaseInv'
  <2>1. /\ cqe' = [cqe EXCEPT ![devCqTail] = CqeOf(u)]
        /\ UNCHANGED <<cqHead, cqPhase>>
    BY <1>3 DEF CompleteCmd, hostVars
  <2>2. /\ ~PendingCq(devCqTail)
        /\ \A i \in CqSlots : PendingCq(i)' <=> PendingCq(i) \/ i = devCqTail
    BY <1>0, <1>3, PendingAfterPost
  <2>3. cqe \in [CqSlots -> Cqe] /\ devCqTail \in CqSlots /\ cqPhase \in {0, 1}
    BY <1>0 DEF TypeOK
  <2>4. CqeOf(u).p = 1 - cqe[devCqTail].p
    BY DEF CqeOf
  <2>5. \A i \in CqSlots : LapPhase(i)' = LapPhase(i) /\ LapPhase(i) \in {0, 1}
    BY <2>1, <2>3 DEF LapPhase
  <2>6. ASSUME NEW i \in CqSlots, i = devCqTail
        PROVE  cqe'[i].p = LapPhase(i)
    BY <1>0, <2>1, <2>2, <2>3, <2>4, <2>5, <2>6 DEF PhaseInv
  <2> QED
    BY <1>0, <2>1, <2>2, <2>3, <2>5, <2>6 DEF PhaseInv
<1> QED
  BY <1>1, <1>2, <1>3
  DEF Next, Device, StartCmd, StartCmdOnFullQueue, ReuseCmd, FetchCmd,
      vars, hostVars, sqVars, cqVars, devVars

(* The host learns only heads the controller has really reached.            *)
LEMMA HeadStep ==
    ASSUME RingInv, [Next]_vars
    PROVE  HostHeadIsBehind' /\ SqhdInv'
<1>0. TypeOK /\ HostHeadIsBehind /\ SqhdInv
  BY DEF RingInv
<1>a. \A i \in CqSlots : cqe[i].sqhd \in SqSlots
  BY <1>0 DEF TypeOK, Cqe
<1> USE DEF SqSlots
<1>1. ASSUME NEW c \in Commands, StartCmd(c) PROVE HostHeadIsBehind' /\ SqhdInv'
  <2>1. sqTail' = Peek(sqTail, SQEntries) /\ UNCHANGED <<sqHead, cqe, cqHead, devSqHead, devCqTail>>
    BY <1>1 DEF StartCmd, cqVars, devVars
  <2>2. Dist(sqHead, sqTail', SQEntries) = Dist(sqHead, sqTail, SQEntries) + 1
    BY <1>0, <1>1, <2>1, SlotFacts, DistAdvanceTail DEF StartCmd, SqFull
  <2>3. HostHeadIsBehind'
    BY <1>0, <2>1, <2>2, SlotFacts, DistIsSlot DEF HostHeadIsBehind, Slots
  <2>4. SqhdInv'
    BY <1>0, <2>1 DEF SqhdInv, PendingCq
  <2> QED
    BY <2>3, <2>4
<1>2. ASSUME GetCompletion PROVE HostHeadIsBehind' /\ SqhdInv'
  <2> DEFINE s == cqe[cqHead].sqhd
  <2>1. sqHead' = s /\ UNCHANGED <<sqTail, cqe, devSqHead, devCqTail>>
    BY <1>2 DEF GetCompletion, sqVars, devVars
  <2>2. PendingCq(cqHead) /\ cqHead \in CqSlots /\ s \in Slots(SQEntries)
    BY <1>0, <1>2, <1>a, PendingAfterConsume DEF TypeOK
  <2>3. Dist(sqHead, s, SQEntries) <= Dist(sqHead, devSqHead, SQEntries)
    BY <1>0, <2>2 DEF SqhdInv
  <2>4. ASSUME NEW d \in Slots(SQEntries),
               Dist(sqHead, s, SQEntries) <= Dist(sqHead, d, SQEntries)
        PROVE  Dist(s, d, SQEntries) = Dist(sqHead, d, SQEntries) - Dist(sqHead, s, SQEntries)
    BY <1>0, <2>2, <2>4, SlotFacts, DistMoveHead
  <2>5. /\ Dist(sqHead, s, SQEntries) \in Int
         /\ Dist(sqHead, devSqHead, SQEntries) \in Int
         /\ Dist(sqHead, sqTail, SQEntries) \in Int
    BY <1>0, <2>2, SlotFacts DEF Dist, Slots
  <2>6. Dist(sqHead, s, SQEntries) <= Dist(sqHead, sqTail, SQEntries)
    BY <1>0, <2>3, <2>5 DEF HostHeadIsBehind
  <2>7. HostHeadIsBehind'
    <3>1. Dist(s, devSqHead, SQEntries)
            = Dist(sqHead, devSqHead, SQEntries) - Dist(sqHead, s, SQEntries)
      BY <1>0, <2>3, <2>4, SlotFacts
    <3>2. Dist(s, sqTail, SQEntries)
            = Dist(sqHead, sqTail, SQEntries) - Dist(sqHead, s, SQEntries)
      BY <1>0, <2>4, <2>6, SlotFacts
    <3> QED
      BY <1>0, <2>1, <2>5, <3>1, <3>2 DEF HostHeadIsBehind
  <2>8. /\ \A i \in CqSlots : PendingCq(i)' <=> PendingCq(i) /\ i # cqHead
        /\ \A i \in CqSlots : PendingCq(i) /\ i # cqHead =>
             Dist(cqHead', i, CQEntries) = Dist(cqHead, i, CQEntries) - 1
    BY <1>2, PendingAfterConsume
  <2>9. ASSUME NEW i \in CqSlots, PendingCq(i)
        PROVE  Dist(sqHead, s, SQEntries) <= Dist(sqHead, cqe[i].sqhd, SQEntries)
    <3>1. Dist(cqHead, cqHead, CQEntries) <= Dist(cqHead, i, CQEntries)
      BY <1>0, <2>2, SlotFacts DEF Dist, CqSlots, Slots
    <3> QED
      BY <1>0, <2>2, <2>9, <3>1 DEF SqhdInv
  <2>10. \A i \in CqSlots : Dist(sqHead, cqe[i].sqhd, SQEntries) \in Int
                           /\ Dist(cqHead, i, CQEntries) \in Int
    BY <1>0, <1>a, SlotFacts DEF Dist, CqSlots, Slots
  <2>11. ASSUME NEW i \in CqSlots, PendingCq(i)'
         PROVE  Dist(sqHead', cqe'[i].sqhd, SQEntries) <= Dist(sqHead', devSqHead', SQEntries)
    <3>1. Dist(s, cqe[i].sqhd, SQEntries)
            = Dist(sqHead, cqe[i].sqhd, SQEntries) - Dist(sqHead, s, SQEntries)
      BY <1>a, <2>4, <2>8, <2>9, <2>11
    <3>2. Dist(s, devSqHead, SQEntries)
            = Dist(sqHead, devSqHead, SQEntries) - Dist(sqHead, s, SQEntries)
      BY <1>0, <2>3, <2>4, SlotFacts
    <3>3. Dist(sqHead, cqe[i].sqhd, SQEntries) <= Dist(sqHead, devSqHead, SQEntries)
      BY <1>0, <2>8, <2>11 DEF SqhdInv
    <3> QED
      BY <2>1, <2>10, <2>5, <3>1, <3>2, <3>3
  <2>12. ASSUME NEW i \in CqSlots, NEW j \in CqSlots, PendingCq(i)', PendingCq(j)',
                Dist(cqHead', i, CQEntries) <= Dist(cqHead', j, CQEntries)
         PROVE  Dist(sqHead', cqe'[i].sqhd, SQEntries) <= Dist(sqHead', cqe'[j].sqhd, SQEntries)
    <3>1. Dist(cqHead, i, CQEntries) <= Dist(cqHead, j, CQEntries)
      BY <2>8, <2>10, <2>12
    <3>2. Dist(sqHead, cqe[i].sqhd, SQEntries) <= Dist(sqHead, cqe[j].sqhd, SQEntries)
      BY <1>0, <2>8, <2>12, <3>1 DEF SqhdInv
    <3>3. ASSUME NEW k \in {i, j}
          PROVE  Dist(s, cqe[k].sqhd, SQEntries)
                   = Dist(sqHead, cqe[k].sqhd, SQEntries) - Dist(sqHead, s, SQEntries)
      BY <1>a, <2>4, <2>8, <2>9, <2>12
    <3> QED
      BY <2>1, <2>10, <2>5, <3>2, <3>3
  <2> QED
    BY <2>7, <2>11, <2>12 DEF SqhdInv
<1>3. ASSUME NEW u \in Units, FetchCmd(u) PROVE HostHeadIsBehind' /\ SqhdInv'
  <2>1. devSqHead' = Peek(devSqHead, SQEntries) /\ UNCHANGED <<sqHead, sqTail, cqe, cqHead, devCqTail>>
    BY <1>3 DEF FetchCmd, hostVars, sqVars, cqVars
  <2>2. Dist(devSqHead, sqTail, SQEntries) # 0
    BY <1>0, <1>3, SlotFacts, NumEntriesIsDist DEF FetchCmd, SqPending
  <2>3. Dist(sqHead, devSqHead', SQEntries) = Dist(sqHead, devSqHead, SQEntries) + 1
    <3>1. Dist(sqHead, devSqHead, SQEntries) < Dist(sqHead, sqTail, SQEntries)
      BY <1>0, <2>2, SlotFacts, DistMoveHead, DistIsSlot DEF HostHeadIsBehind, Slots
    <3>2. ~IsFull(sqHead, devSqHead, SQEntries)
      BY <1>0, <3>1, SlotFacts, FullMeansAllButOne, DistIsSlot DEF Slots
    <3> QED
      BY <1>0, <2>1, <3>2, SlotFacts, DistAdvanceTail
  <2>4. Dist(sqHead, devSqHead, SQEntries) < Dist(sqHead, sqTail, SQEntries)
    BY <1>0, <2>2, SlotFacts, DistMoveHead, DistIsSlot DEF HostHeadIsBehind, Slots
  <2>5. HostHeadIsBehind'
    BY <1>0, <2>1, <2>3, <2>4, SlotFacts, DistIsSlot DEF HostHeadIsBehind, Slots
  <2>6. \A i \in CqSlots : Dist(sqHead, cqe[i].sqhd, SQEntries) \in Int
    BY <1>0, <1>a, SlotFacts, DistIsSlot DEF Slots
  <2>7. SqhdInv'
    BY <1>0, <2>1, <2>3, <2>6, SlotFacts, DistIsSlot DEF SqhdInv, PendingCq, Slots
  <2> QED
    BY <2>5, <2>7
<1>4. ASSUME NEW u \in Units, CompleteCmd(u) PROVE HostHeadIsBehind' /\ SqhdInv'
  <2>1. /\ cqe' = [cqe EXCEPT ![devCqTail] = CqeOf(u)]
        /\ UNCHANGED <<sqHead, sqTail, cqHead, devSqHead>>
    BY <1>4 DEF CompleteCmd, hostVars, sqVars
  <2>2. /\ ~PendingCq(devCqTail)
        /\ \A i \in CqSlots : PendingCq(i)' <=> PendingCq(i) \/ i = devCqTail
        /\ \A i \in CqSlots : PendingCq(i) =>
             Dist(cqHead, i, CQEntries) < Dist(cqHead, devCqTail, CQEntries)
    BY <1>0, <1>4, PendingAfterPost
  <2>3. CqeOf(u).sqhd = devSqHead /\ devCqTail \in CqSlots /\ cqe \in [CqSlots -> Cqe]
    BY <1>0 DEF CqeOf, TypeOK
  <2>4. /\ cqe'[devCqTail].sqhd = devSqHead
        /\ \A i \in CqSlots : i # devCqTail => cqe'[i] = cqe[i]
    BY <2>1, <2>3
  <2>5. HostHeadIsBehind'
    BY <1>0, <2>1 DEF HostHeadIsBehind
  <2>6. Dist(sqHead, devSqHead, SQEntries) <= Dist(sqHead, devSqHead, SQEntries)
    BY <1>0, SlotFacts, DistIsSlot DEF Slots
  <2>7. \A i \in CqSlots : PendingCq(i)' =>
          Dist(sqHead', cqe'[i].sqhd, SQEntries) <= Dist(sqHead', devSqHead', SQEntries)
    BY <1>0, <2>1, <2>2, <2>4, <2>6 DEF SqhdInv
  <2>8. ASSUME NEW i \in CqSlots, NEW j \in CqSlots, PendingCq(i)', PendingCq(j)',
               Dist(cqHead', i, CQEntries) <= Dist(cqHead', j, CQEntries)
        PROVE  Dist(sqHead', cqe'[i].sqhd, SQEntries) <= Dist(sqHead', cqe'[j].sqhd, SQEntries)
    <3>1. CASE j = devCqTail
      BY <2>1, <2>4, <2>7, <2>8, <3>1
    <3>2. CASE j # devCqTail
      <4>1. i # devCqTail
        BY <1>0, <2>1, <2>2, <2>8, <3>2, SlotFacts DEF Dist, CqSlots, Slots
      <4> QED
        BY <1>0, <2>1, <2>2, <2>4, <2>8, <3>2, <4>1 DEF SqhdInv
    <3> QED
      BY <3>1, <3>2
  <2> QED
    BY <2>5, <2>7, <2>8 DEF SqhdInv
<1>5. CASE UNCHANGED <<sqHead, sqTail, cqe, cqHead, devSqHead, devCqTail>>
  BY <1>0, <1>5 DEF HostHeadIsBehind, SqhdInv, PendingCq
<1> QED
  BY <1>1, <1>2, <1>3, <1>4, <1>5
  DEF Next, Device, StartCmdOnFullQueue, ReuseCmd, vars, hostVars, sqVars, cqVars, devVars

(* Keys and command objects agree: start_cmd never gives a new CID to a     *)
(* command that is still a value of outstanding_commands.                   *)
LEMMA AssertionsStep ==
    ASSUME RingInv, [Next]_vars
    PROVE  CompletionAssertionsHold'
<1>0. TypeOK /\ CompletionAssertionsHold
  BY DEF RingInv
<1> USE NoCmdAssumption DEF CompletionAssertionsHold, TypeOK
<1>1. ASSUME NEW c \in Commands, StartCmd(c) PROVE CompletionAssertionsHold'
  BY <1>0, <1>1 DEF StartCmd, MayStart
<1>2. ASSUME NEW c \in Commands, StartCmdOnFullQueue(c) PROVE CompletionAssertionsHold'
  BY <1>0, <1>2 DEF StartCmdOnFullQueue, MayStart
<1>3. ASSUME GetCompletion PROVE CompletionAssertionsHold'
  BY <1>0, <1>3 DEF GetCompletion
<1>4. CASE UNCHANGED <<outstanding, posted, cid>>
  BY <1>0, <1>4
<1> QED
  BY <1>1, <1>2, <1>3, <1>4
  DEF Next, Device, ReuseCmd, FetchCmd, CompleteCmd, vars, hostVars

LEMMA RingStep ==
    ASSUME RingInv, [Next]_vars
    PROVE  RingInv'
BY TypeStep, PhaseStep, HeadStep, AssertionsStep DEF RingInv

THEOREM RingCorrect == Spec => []RingInv
<1>1. RingInv /\ [Next]_vars => RingInv'
  BY RingStep
<1> QED
  BY RingInit, <1>1, PTL DEF Spec

(* The phase bit is an exact test for a pending completion, for queues of   *)
(* every size.                                                              *)
THEOREM PhaseCorrect == Spec => []PhaseTellsPending
BY RingCorrect, PhaseInvGivesTest, PTL

(* What the host believes of the submission queue is late, never wrong.     *)
THEOREM HostHeadCorrect == Spec => []HostHeadIsBehind
<1>1. RingInv => HostHeadIsBehind
  BY DEF RingInv
<1> QED
  BY RingCorrect, <1>1, PTL

(* complete_command never fails its assertions.                             *)
THEOREM AssertionsCorrect == Spec => []CompletionAssertionsHold
<1>1. RingInv => CompletionAssertionsHold
  BY DEF RingInv
<1> QED
  BY RingCorrect, <1>1, PTL

(* What starting a command does to the pending submission entries: the host *)
(* tests for room with its late head, which leaves the controller's view    *)
(* of the ring at least as much room.                                       *)
LEMMA PendingAfterStart ==
    ASSUME RingInv, NEW c \in Commands, StartCmd(c)
    PROVE  /\ ~PendingSq(sqTail)
           /\ \A i \in SqSlots : PendingSq(i)' <=> PendingSq(i) \/ i = sqTail
<1>0. TypeOK /\ HostHeadIsBehind
  BY DEF RingInv
<1>1. ~IsFull(devSqHead, sqTail, SQEntries)
  <2>1. Dist(devSqHead, sqTail, SQEntries) <= Dist(sqHead, sqTail, SQEntries)
    BY <1>0, SlotFacts DEF HostHeadIsBehind, Dist, Slots
  <2>2. Dist(sqHead, sqTail, SQEntries) # SQEntries - 1
    BY <1>0, SlotFacts, FullMeansAllButOne DEF StartCmd, SqFull
  <2> QED
    BY <1>0, <2>1, <2>2, SlotFacts, FullMeansAllButOne DEF Dist, Slots
<1>2. sqTail' = Peek(sqTail, SQEntries) /\ devSqHead' = devSqHead
  BY DEF StartCmd, devVars
<1>3. Dist(devSqHead, sqTail', SQEntries) = Dist(devSqHead, sqTail, SQEntries) + 1
  BY <1>0, <1>1, <1>2, SlotFacts, DistAdvanceTail
<1>4. Dist(devSqHead, sqTail, SQEntries) \in Int
  BY <1>0, SlotFacts DEF Dist, Slots
<1>5. ASSUME NEW i \in SqSlots, i = sqTail PROVE ~PendingSq(i) /\ PendingSq(i)'
  BY <1>2, <1>3, <1>4, <1>5 DEF PendingSq, Holds
<1>6. ASSUME NEW i \in SqSlots, i # sqTail PROVE PendingSq(i)' <=> PendingSq(i)
  <2>1. /\ Dist(devSqHead, i, SQEntries) \in Int
        /\ Dist(devSqHead, i, SQEntries) # Dist(devSqHead, sqTail, SQEntries)
    BY <1>0, <1>6, SlotFacts DEF Dist, SqSlots, Slots
  <2> QED
    BY <1>2, <1>3, <1>4, <2>1 DEF PendingSq, Holds
<1> QED
  BY <1>0, <1>5, <1>6, SlotFacts DEF SqSlots

(* What fetching one does.                                                  *)
LEMMA PendingAfterFetch ==
    ASSUME TypeOK, NEW u \in Units, FetchCmd(u)
    PROVE  /\ PendingSq(devSqHead)
           /\ \A i \in SqSlots : PendingSq(i)' <=> PendingSq(i) /\ i # devSqHead
<1>1. devSqHead' = Peek(devSqHead, SQEntries) /\ sqTail' = sqTail
  BY DEF FetchCmd, sqVars
<1>2. devSqHead # sqTail
  BY SlotFacts, NumEntriesIsDist, DistIsSlot DEF FetchCmd, SqPending
<1>3. ASSUME NEW i \in SqSlots, i # devSqHead PROVE PendingSq(i)' <=> PendingSq(i)
  <2>1. /\ Dist(devSqHead', i, SQEntries) = Dist(devSqHead, i, SQEntries) - 1
        /\ Dist(devSqHead', sqTail, SQEntries) = Dist(devSqHead, sqTail, SQEntries) - 1
    BY <1>1, <1>2, <1>3, SlotFacts, DistAdvanceHead DEF SqSlots
  <2>2. Dist(devSqHead, i, SQEntries) \in Int /\ Dist(devSqHead, sqTail, SQEntries) \in Int
    BY SlotFacts DEF Dist, SqSlots, Slots
  <2> QED
    BY <1>1, <2>1, <2>2 DEF PendingSq, Holds
<1>4. PendingSq(devSqHead)
  BY <1>2, SlotFacts DEF PendingSq, Holds, Dist, Slots
<1>5. ASSUME NEW i \in SqSlots, i = devSqHead PROVE ~PendingSq(i)'
  BY <1>1, <1>2, <1>5, SlotFacts DEF PendingSq, Holds, Dist, Peek, SqSlots, Slots
<1> QED
  BY <1>3, <1>4, <1>5

(* Neither ring loses an entry.                                             *)
LEMMA NoLossStep ==
    ASSUME RingInv, [Next]_vars
    PROVE  /\ \A i \in SqSlots : PendingSq(i) => KeptOrFetched(i)
           /\ \A i \in CqSlots : PendingCq(i) => KeptOrConsumed(i)
<1>0. TypeOK
  BY DEF RingInv
<1> DEFINE SqKept == \A i \in SqSlots : PendingSq(i) => KeptOrFetched(i)
           CqKept == \A i \in CqSlots : PendingCq(i) => KeptOrConsumed(i)
<1>1. ASSUME NEW c \in Commands, StartCmd(c) PROVE SqKept
  <2>1. sqe' = [sqe EXCEPT ![sqTail] = [cid |-> nextCid, cmd |-> c]]
    BY <1>1 DEF StartCmd
  <2> QED
    BY <1>0, <1>1, <2>1, PendingAfterStart DEF KeptOrFetched, TypeOK
<1>2. ASSUME NEW u \in Units, FetchCmd(u) PROVE SqKept
  BY <1>0, <1>2, PendingAfterFetch DEF FetchCmd, sqVars, KeptOrFetched
<1>3. ASSUME UNCHANGED <<sqe, sqTail, devSqHead>> PROVE SqKept
  BY <1>3 DEF KeptOrFetched, PendingSq
<1>4. ASSUME GetCompletion PROVE CqKept
  BY <1>4, PendingAfterConsume DEF GetCompletion, KeptOrConsumed
<1>5. ASSUME NEW u \in Units, CompleteCmd(u) PROVE CqKept
  <2>1. cqe' = [cqe EXCEPT ![devCqTail] = CqeOf(u)] /\ cqe \in [CqSlots -> Cqe]
    BY <1>0, <1>5 DEF CompleteCmd, TypeOK
  <2> QED
    BY <1>0, <1>5, <2>1, PendingAfterPost DEF KeptOrConsumed
<1>6. ASSUME UNCHANGED <<cqe, cqHead, devCqTail>> PROVE CqKept
  BY <1>6 DEF KeptOrConsumed, PendingCq
<1>7. SqKept
  BY <1>1, <1>2, <1>3
  DEF Next, Device, StartCmdOnFullQueue, ReuseCmd, GetCompletion, CompleteCmd,
      vars, hostVars, sqVars, cqVars, devVars
<1>8. CqKept
  BY <1>4, <1>5, <1>6
  DEF Next, Device, StartCmd, StartCmdOnFullQueue, ReuseCmd, FetchCmd,
      vars, hostVars, sqVars, cqVars, devVars
<1> QED
  BY <1>7, <1>8

(* No submission entry is overwritten or skipped before it is fetched, no   *)
(* completion entry before it is consumed.                                  *)
THEOREM NoLossCorrect == Spec => NoEntryIsLost
<1>1. RingInv /\ [Next]_vars =>
        [/\ \A i \in SqSlots : PendingSq(i) => KeptOrFetched(i)
         /\ \A i \in CqSlots : PendingCq(i) => KeptOrConsumed(i)]_vars
  BY NoLossStep
<1> QED
  BY RingCorrect, <1>1, PTL DEF Spec, NoEntryIsLost

-----------------------------------------------------------------------------
(***************************************************************************)
(* A user who never lets a CID be reused while it is outstanding.          *)
(***************************************************************************)

LEMMA FreshIsNext == [FreshNext]_vars => [Next]_vars
BY DEF FreshNext, Next

THEOREM FreshRing == FreshSpec => []RingInv
<1>1. RingInv /\ [FreshNext]_vars => RingInv'
  BY RingStep, FreshIsNext
<1> QED
  BY RingInit, <1>1, PTL DEF FreshSpec

(* The host remembers, under the CID an entry carries, the command it was   *)
(* made for.                                                                *)
Claimed(entry) ==
    /\ entry.cid \in Cids
    /\ entry.cmd \in Commands
    /\ outstanding[entry.cid] = entry.cmd

ClaimInv ==
    /\ \A i \in SqSlots : PendingSq(i) => Claimed(sqe[i])
    /\ \A u \in Units : unit[u] # Idle => Claimed(unit[u])
    /\ \A i \in CqSlots : PendingCq(i) => Claimed(cqe[i])

(* No two entries on their way carry the same CID.  Without it, consuming   *)
(* one completion would take the claim of another entry away.               *)
DistinctInv ==
    /\ \A i, j \in SqSlots : PendingSq(i) /\ PendingSq(j) /\ i # j => sqe[i].cid # sqe[j].cid
    /\ \A u, v \in Units : unit[u] # Idle /\ unit[v] # Idle /\ u # v => unit[u].cid # unit[v].cid
    /\ \A i, j \in CqSlots : PendingCq(i) /\ PendingCq(j) /\ i # j => cqe[i].cid # cqe[j].cid
    /\ \A i \in SqSlots, u \in Units : PendingSq(i) /\ unit[u] # Idle => sqe[i].cid # unit[u].cid
    /\ \A i \in SqSlots, j \in CqSlots : PendingSq(i) /\ PendingCq(j) => sqe[i].cid # cqe[j].cid
    /\ \A u \in Units, j \in CqSlots : unit[u] # Idle /\ PendingCq(j) => unit[u].cid # cqe[j].cid

FreshInv == ClaimInv /\ DistinctInv /\ CompleteMeansOwnResult

LEMMA FreshInit == Init => FreshInv
<1> SUFFICES ASSUME Init PROVE FreshInv
  OBVIOUS
<1>1. \A i \in CqSlots : ~PendingCq(i)
  BY QueueSizesAssumption DEF Init, PendingCq, Holds, Dist, CqSlots, Slots
<1>2. \A i \in SqSlots : ~PendingSq(i)
  BY QueueSizesAssumption DEF Init, PendingSq, Holds, Dist, SqSlots, Slots
<1>3. \A u \in Units : unit[u] = Idle
  BY DEF Init
<1>4. CompleteMeansOwnResult
  BY DEF Init, CompleteMeansOwnResult
<1> QED
  BY <1>1, <1>2, <1>3, <1>4 DEF FreshInv, ClaimInv, DistinctInv

(* Starting a command under a free CID adds one entry nobody shares a CID   *)
(* with.                                                                    *)
LEMMA FreshStart ==
    ASSUME RingInv, FreshInv, NEW c \in Commands, CidIsFree, StartCmd(c)
    PROVE  FreshInv'
<1>1. /\ sqe' = [sqe EXCEPT ![sqTail] = [cid |-> nextCid, cmd |-> c]]
      /\ outstanding' = [outstanding EXCEPT ![nextCid] = c]
      /\ UNCHANGED <<complete, result, cqe, cqHead, devCqTail, unit>>
  BY DEF StartCmd, cqVars, devVars
<1>2. nextCid \in Cids /\ sqTail \in SqSlots /\ sqe \in [SqSlots -> Sqe]
      /\ outstanding \in [Cids -> Commands \union {NoCmd}]
  BY DEF RingInv, TypeOK
<1>3. /\ ~PendingSq(sqTail)
      /\ \A i \in SqSlots : PendingSq(i)' <=> PendingSq(i) \/ i = sqTail
  BY PendingAfterStart
<1>4. \A i \in CqSlots : PendingCq(i)' <=> PendingCq(i)
  BY <1>1 DEF PendingCq, Holds
<1>5. /\ sqe'[sqTail] = [cid |-> nextCid, cmd |-> c]
      /\ \A i \in SqSlots : i # sqTail => sqe'[i] = sqe[i]
  BY <1>1, <1>2
<1>6. /\ outstanding'[nextCid] = c
      /\ \A k \in Cids : k # nextCid => outstanding'[k] = outstanding[k]
  BY <1>1, <1>2
<1>7. outstanding[nextCid] \notin Commands
  BY NoCmdAssumption DEF CidIsFree
<1>8. ClaimInv /\ DistinctInv
  BY DEF FreshInv
<1>9. /\ \A i \in SqSlots : PendingSq(i) => sqe[i].cid # nextCid
      /\ \A u \in Units : unit[u] # Idle => unit[u].cid # nextCid
      /\ \A i \in CqSlots : PendingCq(i) => cqe[i].cid # nextCid
  BY <1>7, <1>8 DEF ClaimInv, Claimed
<1>10. ClaimInv'
  <2>1. ASSUME NEW i \in SqSlots, PendingSq(i)' PROVE Claimed(sqe[i])'
    BY <1>2, <1>3, <1>5, <1>6, <1>8, <1>9, <2>1 DEF ClaimInv, Claimed
  <2>2. ASSUME NEW u \in Units, unit'[u] # Idle PROVE Claimed(unit[u])'
    BY <1>1, <1>6, <1>8, <1>9, <2>2 DEF ClaimInv, Claimed
  <2>3. ASSUME NEW i \in CqSlots, PendingCq(i)' PROVE Claimed(cqe[i])'
    BY <1>1, <1>4, <1>6, <1>8, <1>9, <2>3 DEF ClaimInv, Claimed
  <2> QED
    BY <2>1, <2>2, <2>3 DEF ClaimInv
<1>11. DistinctInv'
  BY <1>1, <1>3, <1>4, <1>5, <1>8, <1>9 DEF DistinctInv
<1>12. CompleteMeansOwnResult'
  BY <1>1 DEF FreshInv, CompleteMeansOwnResult
<1> QED
  BY <1>10, <1>11, <1>12 DEF FreshInv

(* Consuming a completion takes one claim away, its own.                    *)
LEMMA FreshGet ==
    ASSUME RingInv, FreshInv, GetCompletion
    PROVE  FreshInv'
<1> DEFINE k == cqe[cqHead].cid
           c == outstanding[k]
<1>1. /\ outstanding' = [outstanding EXCEPT ![k] = NoCmd]
      /\ complete' = [complete EXCEPT ![c] = TRUE]
      /\ result' = [result EXCEPT ![c] = cqe[cqHead].cmd]
      /\ UNCHANGED <<sqe, sqTail, cqe, devSqHead, devCqTail, unit>>
  BY DEF GetCompletion, sqVars, devVars
<1>2. /\ outstanding \in [Cids -> Commands \union {NoCmd}]
      /\ complete \in [Commands -> BOOLEAN]
      /\ result \in [Commands -> Commands \union {NoCmd}]
      /\ cqHead \in CqSlots
  BY DEF RingInv, TypeOK
<1>3. /\ PendingCq(cqHead)
      /\ \A i \in CqSlots : PendingCq(i)' <=> PendingCq(i) /\ i # cqHead
  BY PendingAfterConsume
<1>4. \A i \in SqSlots : PendingSq(i)' <=> PendingSq(i)
  BY <1>1 DEF PendingSq, Holds
<1>5. ClaimInv /\ DistinctInv
  BY DEF FreshInv
<1>6. k \in Cids /\ c \in Commands /\ c = cqe[cqHead].cmd
  BY <1>2, <1>3, <1>5 DEF ClaimInv, Claimed
<1>7. /\ \A i \in SqSlots : PendingSq(i) => sqe[i].cid # k
      /\ \A u \in Units : unit[u] # Idle => unit[u].cid # k
      /\ \A i \in CqSlots : PendingCq(i) /\ i # cqHead => cqe[i].cid # k
  BY <1>2, <1>3, <1>5 DEF DistinctInv
<1>8. \A j \in Cids : j # k => outstanding'[j] = outstanding[j]
  BY <1>1, <1>2
<1>9. ClaimInv'
  <2>1. ASSUME NEW i \in SqSlots, PendingSq(i)' PROVE Claimed(sqe[i])'
    BY <1>1, <1>4, <1>5, <1>7, <1>8, <2>1 DEF ClaimInv, Claimed
  <2>2. ASSUME NEW u \in Units, unit'[u] # Idle PROVE Claimed(unit[u])'
    BY <1>1, <1>5, <1>7, <1>8, <2>2 DEF ClaimInv, Claimed
  <2>3. ASSUME NEW i \in CqSlots, PendingCq(i)' PROVE Claimed(cqe[i])'
    BY <1>1, <1>3, <1>5, <1>7, <1>8, <2>3 DEF ClaimInv, Claimed
  <2> QED
    BY <2>1, <2>2, <2>3 DEF ClaimInv
<1>10. DistinctInv'
  BY <1>1, <1>3, <1>4, <1>5 DEF DistinctInv
<1>11. CompleteMeansOwnResult'
  BY <1>1, <1>2, <1>6 DEF FreshInv, CompleteMeansOwnResult
<1> QED
  BY <1>9, <1>10, <1>11 DEF FreshInv

(* Fetching and completing move one entry, with its CID and its claim.      *)
LEMMA FreshFetch ==
    ASSUME RingInv, FreshInv, NEW u \in Units, FetchCmd(u)
    PROVE  FreshInv'
<1>1. /\ unit[u] = Idle
      /\ unit' = [unit EXCEPT ![u] = sqe[devSqHead]]
      /\ UNCHANGED <<outstanding, complete, result, sqe, cqe, cqHead, devCqTail>>
  BY DEF FetchCmd, hostVars, sqVars, cqVars
<1>2. TypeOK /\ unit \in [Units -> Sqe] /\ devSqHead \in SqSlots
  BY DEF RingInv, TypeOK
<1>3. /\ PendingSq(devSqHead)
      /\ \A i \in SqSlots : PendingSq(i)' <=> PendingSq(i) /\ i # devSqHead
  BY <1>2, PendingAfterFetch
<1>4. \A i \in CqSlots : PendingCq(i)' <=> PendingCq(i)
  BY <1>1 DEF PendingCq, Holds
<1>5. /\ unit'[u] = sqe[devSqHead]
      /\ \A v \in Units : v # u => unit'[v] = unit[v]
  BY <1>1, <1>2
<1>6. ClaimInv /\ DistinctInv
  BY DEF FreshInv
<1>7. ClaimInv'
  BY <1>1, <1>2, <1>3, <1>4, <1>5, <1>6 DEF ClaimInv, Claimed
<1>8. DistinctInv'
  BY <1>1, <1>2, <1>3, <1>4, <1>5, <1>6 DEF DistinctInv
<1>9. CompleteMeansOwnResult'
  BY <1>1 DEF FreshInv, CompleteMeansOwnResult
<1> QED
  BY <1>7, <1>8, <1>9 DEF FreshInv

LEMMA FreshComplete ==
    ASSUME RingInv, FreshInv, NEW u \in Units, CompleteCmd(u)
    PROVE  FreshInv'
<1>1. /\ unit[u] # Idle
      /\ unit' = [unit EXCEPT ![u] = Idle]
      /\ cqe' = [cqe EXCEPT ![devCqTail] = CqeOf(u)]
      /\ UNCHANGED <<outstanding, complete, result, sqe, sqTail, devSqHead>>
  BY DEF CompleteCmd, hostVars, sqVars
<1>2. TypeOK /\ unit \in [Units -> Sqe] /\ cqe \in [CqSlots -> Cqe] /\ devCqTail \in CqSlots
  BY DEF RingInv, TypeOK
<1>3. /\ ~PendingCq(devCqTail)
      /\ \A i \in CqSlots : PendingCq(i)' <=> PendingCq(i) \/ i = devCqTail
  BY <1>2, PendingAfterPost
<1>4. \A i \in SqSlots : PendingSq(i)' <=> PendingSq(i)
  BY <1>1 DEF PendingSq, Holds
<1>5. /\ cqe'[devCqTail].cid = unit[u].cid
      /\ cqe'[devCqTail].cmd = unit[u].cmd
      /\ \A i \in CqSlots : i # devCqTail => cqe'[i] = cqe[i]
      /\ unit'[u] = Idle
      /\ \A v \in Units : v # u => unit'[v] = unit[v]
  BY <1>1, <1>2 DEF CqeOf
<1>6. ClaimInv /\ DistinctInv
  BY DEF FreshInv
<1>7. ClaimInv'
  BY <1>1, <1>2, <1>3, <1>4, <1>5, <1>6 DEF ClaimInv, Claimed
<1>8. DistinctInv'
  BY <1>1, <1>2, <1>3, <1>4, <1>5, <1>6 DEF DistinctInv
<1>9. CompleteMeansOwnResult'
  BY <1>1 DEF FreshInv, CompleteMeansOwnResult
<1> QED
  BY <1>7, <1>8, <1>9 DEF FreshInv

LEMMA FreshStep ==
    ASSUME RingInv, FreshInv, [FreshNext]_vars
    PROVE  FreshInv'
<1>1. ASSUME NEW c \in Commands, ReuseCmd(c) PROVE FreshInv'
  <2>1. UNCHANGED <<result, outstanding, sqVars, cqVars, devVars>>
        /\ complete' = [complete EXCEPT ![c] = FALSE]
    BY <1>1 DEF ReuseCmd
  <2>2. ClaimInv' /\ DistinctInv'
    BY <2>1 DEF FreshInv, ClaimInv, DistinctInv, Claimed, PendingSq, PendingCq, sqVars, cqVars, devVars
  <2>3. CompleteMeansOwnResult'
    BY <2>1 DEF FreshInv, CompleteMeansOwnResult, RingInv, TypeOK
  <2> QED
    BY <2>2, <2>3 DEF FreshInv
<1>2. ASSUME UNCHANGED <<complete, result, outstanding, sqVars, cqVars, devVars>>
      PROVE  FreshInv'
  <2>1. ClaimInv' /\ DistinctInv'
    BY <1>2 DEF FreshInv, ClaimInv, DistinctInv, Claimed, PendingSq, PendingCq, sqVars, cqVars, devVars
  <2>2. CompleteMeansOwnResult'
    BY <1>2 DEF FreshInv, CompleteMeansOwnResult
  <2> QED
    BY <2>1, <2>2 DEF FreshInv
<1>3. ASSUME NEW c \in Commands, StartCmdOnFullQueue(c) PROVE FreshInv'
  BY <1>2, <1>3 DEF StartCmdOnFullQueue
<1> QED
  BY <1>1, <1>2, <1>3, FreshStart, FreshGet, FreshFetch, FreshComplete
  DEF FreshNext, Device, vars, hostVars

THEOREM FreshCorrect == FreshSpec => []FreshInv
<1>1. RingInv /\ FreshInv /\ [FreshNext]_vars => FreshInv'
  BY FreshStep
<1> QED
  BY FreshInit, FreshRing, <1>1, PTL DEF FreshSpec

(* get_completion always finds the command it looks up.                     *)
THEOREM ClaimsCorrect == FreshSpec => []EveryCompletionIsClaimed
<1>1. FreshInv => EveryCompletionIsClaimed
  BY NoCmdAssumption DEF FreshInv, ClaimInv, Claimed, EveryCompletionIsClaimed
<1> QED
  BY FreshCorrect, <1>1, PTL

(* A command that is complete reports its own execution.                    *)
THEOREM OwnResultCorrect == FreshSpec => []CompleteMeansOwnResult
<1>1. FreshInv => CompleteMeansOwnResult
  BY DEF FreshInv
<1> QED
  BY FreshCorrect, <1>1, PTL

-----------------------------------------------------------------------------
(***************************************************************************)
(* The pair implements CommandService.                                     *)
(***************************************************************************)

(* No command is posted and complete at once: start_cmd refuses a complete  *)
(* command, complete_command clears posted.                                 *)
PostedNotComplete == \A c \in Commands : ~(posted[c] /\ complete[c])

THEOREM PostedNotCompleteCorrect == FreshSpec => []PostedNotComplete
<1>1. Init => PostedNotComplete
  BY DEF Init, PostedNotComplete
<1>2. RingInv /\ PostedNotComplete /\ [FreshNext]_vars => PostedNotComplete'
  <2> SUFFICES ASSUME TypeOK, PostedNotComplete, [FreshNext]_vars PROVE PostedNotComplete'
    BY DEF RingInv
  <2>1. ASSUME NEW c \in Commands, StartCmd(c) PROVE PostedNotComplete'
    BY <2>1 DEF StartCmd, MayStart, PostedNotComplete, TypeOK
  <2>2. ASSUME NEW c \in Commands, ReuseCmd(c) PROVE PostedNotComplete'
    BY <2>2 DEF ReuseCmd, PostedNotComplete, TypeOK
  <2>3. ASSUME GetCompletion PROVE PostedNotComplete'
    BY <2>3 DEF GetCompletion, PostedNotComplete, TypeOK
  <2>4. CASE UNCHANGED <<posted, complete>>
    BY <2>4 DEF PostedNotComplete
  <2> QED
    BY <2>1, <2>2, <2>3, <2>4
    DEF FreshNext, Device, StartCmdOnFullQueue, FetchCmd, CompleteCmd, vars, hostVars
<1> QED
  BY <1>1, <1>2, FreshRing, PTL DEF FreshSpec

ServiceInv == RingInv /\ FreshInv /\ PostedNotComplete

(* A pending completion is for a posted command, and a command has at most  *)
(* one entry among the pending completions and the units.                   *)
LEMMA EntryFacts ==
    ASSUME ServiceInv
    PROVE  /\ \A i \in CqSlots : PendingCq(i) =>
                /\ cqe[i].cmd \in Commands
                /\ posted[cqe[i].cmd] /\ ~complete[cqe[i].cmd]
                /\ cid[cqe[i].cmd] = cqe[i].cid
           /\ \A u \in Units : unit[u] # Idle =>
                /\ unit[u].cmd \in Commands
                /\ posted[unit[u].cmd] /\ ~complete[unit[u].cmd]
                /\ ~Executed(unit[u].cmd)
           /\ \A i, j \in CqSlots : PendingCq(i) /\ PendingCq(j) /\ cqe[i].cmd = cqe[j].cmd => i = j
<1>1. ASSUME NEW e, Claimed(e)
      PROVE  e.cmd \in Commands /\ posted[e.cmd] /\ ~complete[e.cmd] /\ cid[e.cmd] = e.cid
  BY <1>1, NoCmdAssumption
  DEF ServiceInv, RingInv, CompletionAssertionsHold, PostedNotComplete, Claimed
<1>2. ClaimInv /\ DistinctInv
  BY DEF ServiceInv, FreshInv
<1>3. \A i \in CqSlots : PendingCq(i) =>
        /\ cqe[i].cmd \in Commands
        /\ posted[cqe[i].cmd] /\ ~complete[cqe[i].cmd]
        /\ cid[cqe[i].cmd] = cqe[i].cid
  BY <1>1, <1>2 DEF ClaimInv
<1>4. ASSUME NEW u \in Units, unit[u] # Idle
      PROVE  /\ unit[u].cmd \in Commands
             /\ posted[unit[u].cmd] /\ ~complete[unit[u].cmd]
             /\ ~Executed(unit[u].cmd)
  <2>1. /\ unit[u].cmd \in Commands
        /\ posted[unit[u].cmd] /\ ~complete[unit[u].cmd]
        /\ cid[unit[u].cmd] = unit[u].cid
    BY <1>1, <1>2, <1>4 DEF ClaimInv
  <2>2. ASSUME NEW i \in CqSlots, PendingCq(i) PROVE cqe[i].cmd # unit[u].cmd
    BY <1>2, <1>3, <1>4, <2>1, <2>2 DEF DistinctInv
  <2> QED
    BY <2>1, <2>2 DEF Executed
<1>5. \A i, j \in CqSlots : PendingCq(i) /\ PendingCq(j) /\ cqe[i].cmd = cqe[j].cmd => i = j
  BY <1>2, <1>3 DEF DistinctInv
<1> QED
  BY <1>3, <1>4, <1>5

LEMMA ServiceStep ==
    ASSUME ServiceInv, [FreshNext]_vars
    PROVE  [Service!ServiceNext]_<<[c \in Commands |-> Stage(c)], result>>
<1> DEFINE stages == [c \in Commands |-> Stage(c)]
<1>0. TypeOK /\ RingInv /\ PostedNotComplete
  BY DEF ServiceInv, RingInv
<1>1. ASSUME NEW c \in Commands, CidIsFree, StartCmd(c) PROVE Service!Start(c)
  <2>1. /\ ~posted[c] /\ ~complete[c]
        /\ posted' = [posted EXCEPT ![c] = TRUE]
        /\ UNCHANGED <<complete, result, cqe, cqHead, devCqTail>>
    BY <1>1 DEF StartCmd, MayStart, cqVars, devVars
  <2>2. \A d \in Commands : Executed(d)' <=> Executed(d)
    BY <2>1 DEF Executed, PendingCq, Holds
  <2>3. ~Executed(c)
    BY <2>1, EntryFacts DEF Executed
  <2>4. Stage(c) = "idle" /\ Stage(c)' = "started"
    BY <1>0, <2>1, <2>2, <2>3 DEF Stage, TypeOK
  <2>5. \A d \in Commands : d # c => Stage(d)' = Stage(d)
    BY <1>0, <2>1, <2>2 DEF Stage, TypeOK
  <2> QED
    BY <2>1, <2>4, <2>5 DEF Service!Start, Service!Move
<1>2. ASSUME GetCompletion PROVE \E c \in Commands : Service!Report(c)
  <2> DEFINE k == cqe[cqHead].cid
             c == outstanding[k]
  <2>1. /\ posted' = [posted EXCEPT ![c] = FALSE]
        /\ complete' = [complete EXCEPT ![c] = TRUE]
        /\ result' = [result EXCEPT ![c] = cqe[cqHead].cmd]
        /\ UNCHANGED <<cqe, devCqTail>>
    BY <1>2 DEF GetCompletion, devVars
  <2>2. /\ PendingCq(cqHead) /\ cqHead \in CqSlots
        /\ \A i \in CqSlots : PendingCq(i)' <=> PendingCq(i) /\ i # cqHead
    BY <1>0, <1>2, PendingAfterConsume DEF TypeOK
  <2>3. c \in Commands /\ cqe[cqHead].cmd = c
    BY <2>2 DEF ServiceInv, FreshInv, ClaimInv, Claimed
  <2>4. posted[c] /\ ~complete[c] /\ Executed(c)
    BY <2>2, <2>3, EntryFacts DEF Executed
  <2>5. Stage(c) = "executed"
    BY <2>4 DEF Stage
  <2>6. complete'[c]
    BY <1>0, <2>1, <2>3 DEF TypeOK
  <2>7. ASSUME NEW d \in Commands, d # c PROVE Stage(d)' = Stage(d)
    <3>1. Executed(d)' <=> Executed(d)
      BY <2>1, <2>2, <2>3, <2>7 DEF Executed
    <3>2. posted'[d] = posted[d] /\ complete'[d] = complete[d]
      BY <1>0, <2>1, <2>7 DEF TypeOK
    <3> QED
      BY <3>1, <3>2 DEF Stage
  <2>8. [stages EXCEPT ![c] = "reported"] = stages'
    BY <2>3, <2>6, <2>7 DEF Stage
  <2> QED
    BY <2>1, <2>3, <2>5, <2>8 DEF Service!Report, Service!Move
<1>3. ASSUME NEW u \in Units, CompleteCmd(u) PROVE \E c \in Commands : Service!Execute(c)
  <2> DEFINE c == unit[u].cmd
  <2>1. /\ unit[u] # Idle
        /\ cqe' = [cqe EXCEPT ![devCqTail] = CqeOf(u)]
        /\ UNCHANGED <<posted, complete, result>>
    BY <1>3 DEF CompleteCmd, hostVars
  <2>2. c \in Commands /\ posted[c] /\ ~complete[c] /\ ~Executed(c)
    BY <2>1, EntryFacts
  <2>3. /\ ~PendingCq(devCqTail) /\ devCqTail \in CqSlots
        /\ \A i \in CqSlots : PendingCq(i)' <=> PendingCq(i) \/ i = devCqTail
    BY <1>0, <1>3, PendingAfterPost DEF TypeOK
  <2>4. /\ cqe'[devCqTail].cmd = c
        /\ \A i \in CqSlots : i # devCqTail => cqe'[i] = cqe[i]
    BY <1>0, <2>1, <2>3 DEF CqeOf, TypeOK
  <2>5. \A d \in Commands : Executed(d)' <=> Executed(d) \/ d = c
    BY <2>2, <2>3, <2>4 DEF Executed
  <2>6. Stage(c) = "started"
    BY <2>2 DEF Stage
  <2>7. \A d \in Commands : Stage(d)' = IF d = c THEN "executed" ELSE Stage(d)
    BY <2>1, <2>2, <2>5 DEF Stage
  <2> QED
    BY <2>1, <2>2, <2>6, <2>7 DEF Service!Execute, Service!Move
<1>4. ASSUME NEW c \in Commands, ReuseCmd(c) PROVE Service!Reuse(c)
  <2>1. /\ complete[c]
        /\ complete' = [complete EXCEPT ![c] = FALSE]
        /\ UNCHANGED <<posted, result, cqe, cqHead, devCqTail>>
    BY <1>4 DEF ReuseCmd, cqVars, devVars
  <2>2. ~posted[c]
    BY <1>0, <2>1 DEF PostedNotComplete
  <2>3. \A d \in Commands : Executed(d)' <=> Executed(d)
    BY <2>1 DEF Executed, PendingCq, Holds
  <2>4. Stage(c) = "reported" /\ Stage(c)' = "idle"
    BY <1>0, <2>1, <2>2 DEF Stage, TypeOK
  <2>5. \A d \in Commands : d # c => Stage(d)' = Stage(d)
    BY <1>0, <2>1, <2>3 DEF Stage, TypeOK
  <2> QED
    BY <2>1, <2>4, <2>5 DEF Service!Reuse, Service!Move
<1>5. ASSUME UNCHANGED <<posted, complete, result, cqe, cqHead, devCqTail>>
      PROVE  UNCHANGED <<stages, result>>
  <2>1. \A d \in Commands : Executed(d)' <=> Executed(d)
    BY <1>5 DEF Executed, PendingCq, Holds
  <2> QED
    BY <1>5, <2>1 DEF Stage
<1> QED
  BY <1>1, <1>2, <1>3, <1>4, <1>5
  DEF FreshNext, Device, StartCmdOnFullQueue, FetchCmd, Service!ServiceNext,
      vars, hostVars, cqVars, devVars

(* Every behaviour of the pair is one of the service: started once,         *)
(* executed once, reported once, and with its own result.                   *)
THEOREM PairImplementsService == FreshSpec => ImplementsService
<1>1. Init => Service!ServiceInit
  BY DEF Init, Service!ServiceInit, Stage
<1>2. ServiceInv /\ [FreshNext]_vars
        => [Service!ServiceNext]_<<[c \in Commands |-> Stage(c)], result>>
  BY ServiceStep
<1>3. FreshSpec => []ServiceInv
  BY FreshRing, FreshCorrect, PostedNotCompleteCorrect, PTL DEF ServiceInv
<1> QED
  BY <1>1, <1>2, <1>3, PTL DEF FreshSpec, ImplementsService, Service!ServiceSpec
-----------------------------------------------------------------------------
(***************************************************************************)
(* A posted command is in exactly one place.                               *)
(***************************************************************************)

(* A posted command is somewhere on its way.  That it is not in two places  *)
(* follows from DistinctInv, since each of its entries carries its CID.     *)
Fetchable(c) == \E i \in SqSlots : PendingSq(i) /\ sqe[i].cmd = c
InUnit(c) == \E u \in Units : unit[u].cmd = c
HomeInv == \A c \in Commands : posted[c] => Fetchable(c) \/ InUnit(c) \/ Executed(c)

(* Only a command that is consumed leaves its way, and it is posted no more. *)
LEMMA HomeStep ==
    ASSUME ServiceInv, HomeInv, [FreshNext]_vars
    PROVE  HomeInv'
<1>0. /\ RingInv /\ TypeOK /\ FreshInv /\ ClaimInv
      /\ sqTail \in SqSlots /\ devSqHead \in SqSlots /\ devCqTail \in CqSlots
      /\ sqe \in [SqSlots -> Sqe] /\ cqe \in [CqSlots -> Cqe] /\ unit \in [Units -> Sqe]
      /\ posted \in [Commands -> BOOLEAN]
  BY DEF ServiceInv, RingInv, FreshInv, TypeOK
<1>1. ASSUME NEW c \in Commands, CidIsFree, StartCmd(c) PROVE HomeInv'
  <2>1. /\ posted' = [posted EXCEPT ![c] = TRUE]
        /\ sqe' = [sqe EXCEPT ![sqTail] = [cid |-> nextCid, cmd |-> c]]
        /\ UNCHANGED <<unit, cqe, cqHead, devCqTail>>
    BY <1>1 DEF StartCmd, cqVars, devVars
  <2>2. /\ ~PendingSq(sqTail)
        /\ \A i \in SqSlots : PendingSq(i)' <=> PendingSq(i) \/ i = sqTail
    BY <1>0, <1>1, PendingAfterStart
  <2>3. Fetchable(c)'
    BY <1>0, <2>1, <2>2 DEF Fetchable
  <2>4. \A d \in Commands : Fetchable(d) => Fetchable(d)'
    BY <1>0, <2>1, <2>2 DEF Fetchable
  <2>5. \A d \in Commands : Executed(d)' <=> Executed(d)
    BY <2>1 DEF Executed, PendingCq, Holds
  <2> QED
    BY <1>0, <2>1, <2>3, <2>4, <2>5 DEF HomeInv, InUnit
<1>2. ASSUME GetCompletion PROVE HomeInv'
  <2> DEFINE c == outstanding[cqe[cqHead].cid]
  <2>1. /\ posted' = [posted EXCEPT ![c] = FALSE]
        /\ UNCHANGED <<sqe, sqTail, cqe, devSqHead, devCqTail, unit>>
    BY <1>2 DEF GetCompletion, sqVars, devVars
  <2>2. /\ PendingCq(cqHead) /\ cqHead \in CqSlots
        /\ \A i \in CqSlots : PendingCq(i)' <=> PendingCq(i) /\ i # cqHead
    BY <1>0, <1>2, PendingAfterConsume DEF TypeOK
  <2>3. cqe[cqHead].cmd = c
    BY <1>0, <2>2 DEF ClaimInv, Claimed
  <2>4. \A d \in Commands : d # c /\ Executed(d) => Executed(d)'
    BY <2>1, <2>2, <2>3 DEF Executed
  <2>5. \A d \in Commands : (Fetchable(d)' <=> Fetchable(d)) /\ (InUnit(d)' <=> InUnit(d))
    BY <2>1 DEF Fetchable, InUnit, PendingSq, Holds
  <2> QED
    BY <1>0, <2>1, <2>4, <2>5 DEF HomeInv
<1>3. ASSUME NEW u \in Units, FetchCmd(u) PROVE HomeInv'
  <2>1. /\ unit[u] = Idle
        /\ unit' = [unit EXCEPT ![u] = sqe[devSqHead]]
        /\ UNCHANGED <<posted, sqe, cqe, cqHead, devCqTail>>
    BY <1>3 DEF FetchCmd, hostVars, sqVars, cqVars
  <2>2. \A i \in SqSlots : PendingSq(i)' <=> PendingSq(i) /\ i # devSqHead
    BY <1>0, <1>3, PendingAfterFetch
  <2>3. \A d \in Commands : Fetchable(d) => Fetchable(d)' \/ InUnit(d)'
    BY <1>0, <2>1, <2>2 DEF Fetchable, InUnit
  <2>4. \A d \in Commands : InUnit(d) => InUnit(d)'
    BY <1>0, <2>1, NoCmdAssumption DEF InUnit, Idle, ZeroSqe
  <2>5. \A d \in Commands : Executed(d)' <=> Executed(d)
    BY <2>1 DEF Executed, PendingCq, Holds
  <2> QED
    BY <2>1, <2>3, <2>4, <2>5 DEF HomeInv
<1>4. ASSUME NEW u \in Units, CompleteCmd(u) PROVE HomeInv'
  <2>1. /\ unit' = [unit EXCEPT ![u] = Idle]
        /\ cqe' = [cqe EXCEPT ![devCqTail] = CqeOf(u)]
        /\ UNCHANGED <<posted, sqe, sqTail, devSqHead>>
    BY <1>4 DEF CompleteCmd, hostVars, sqVars
  <2>2. /\ ~PendingCq(devCqTail)
        /\ \A i \in CqSlots : PendingCq(i)' <=> PendingCq(i) \/ i = devCqTail
    BY <1>0, <1>4, PendingAfterPost
  <2>3. /\ cqe'[devCqTail].cmd = unit[u].cmd
        /\ \A i \in CqSlots : i # devCqTail => cqe'[i] = cqe[i]
    BY <1>0, <2>1 DEF CqeOf
  <2>4. \A d \in Commands : InUnit(d) => InUnit(d)' \/ Executed(d)'
    BY <1>0, <2>1, <2>2, <2>3 DEF InUnit, Executed
  <2>5. \A d \in Commands : Executed(d) => Executed(d)'
    BY <2>2, <2>3 DEF Executed
  <2>6. \A d \in Commands : Fetchable(d)' <=> Fetchable(d)
    BY <2>1 DEF Fetchable, PendingSq, Holds
  <2> QED
    BY <2>1, <2>4, <2>5, <2>6 DEF HomeInv
<1>5. ASSUME UNCHANGED <<posted, sqVars, cqVars, devVars>> PROVE HomeInv'
  BY <1>5
  DEF HomeInv, Fetchable, InUnit, Executed, PendingSq, PendingCq, Holds,
      sqVars, cqVars, devVars
<1> QED
  BY <1>1, <1>2, <1>3, <1>4, <1>5
  DEF FreshNext, Device, StartCmdOnFullQueue, ReuseCmd, vars, hostVars

(* A set none of whose members differ has as many members as it has any.    *)
LEMMA OneOrNone ==
    ASSUME NEW S, \A x, y \in S : x = y
    PROVE  Cardinality(S) = IF \E x \in S : TRUE THEN 1 ELSE 0
<1>1. CASE \E x \in S : TRUE
  <2>1. PICK x \in S : TRUE
    BY <1>1
  <2>2. S = {x}
    BY <2>1
  <2> QED
    BY <1>1, <2>2, FS_Singleton
<1>2. CASE ~\E x \in S : TRUE
  <2>1. S = {}
    BY <1>2
  <2> QED
    BY <1>2, <2>1, FS_EmptySet
<1> QED
  BY <1>1, <1>2

(* Every entry of a command carries its CID, and no CID is carried twice.   *)
LEMMA OneHome ==
    ASSUME ServiceInv, HomeInv
    PROVE  OneHomePerCommand
<1> SUFFICES ASSUME NEW c \in Commands
             PROVE  Cardinality({i \in SqSlots : PendingSq(i) /\ sqe[i].cmd = c})
                      + Cardinality({u \in Units : unit[u].cmd = c})
                      + Cardinality({i \in CqSlots : PendingCq(i) /\ cqe[i].cmd = c})
                    = IF posted[c] THEN 1 ELSE 0
  BY DEF OneHomePerCommand
<1> DEFINE Sq == {i \in SqSlots : PendingSq(i) /\ sqe[i].cmd = c}
           Un == {u \in Units : unit[u].cmd = c}
           Cq == {i \in CqSlots : PendingCq(i) /\ cqe[i].cmd = c}
<1>1. ClaimInv /\ DistinctInv
  BY DEF ServiceInv, FreshInv
<1>2. ASSUME NEW e, Claimed(e), e.cmd = c PROVE posted[c] /\ e.cid = cid[c]
  BY <1>2, NoCmdAssumption DEF ServiceInv, RingInv, CompletionAssertionsHold, Claimed
<1>3. \A i \in Sq : posted[c] /\ sqe[i].cid = cid[c]
  BY <1>1, <1>2 DEF ClaimInv
<1>4. \A u \in Un : unit[u] # Idle
  BY NoCmdAssumption DEF Idle, ZeroSqe
<1>5. \A u \in Un : posted[c] /\ unit[u].cid = cid[c]
  BY <1>1, <1>2, <1>4 DEF ClaimInv
<1>6. \A i \in Cq : posted[c] /\ cqe[i].cid = cid[c]
  BY <1>1, <1>2 DEF ClaimInv
<1>7. \A i, j \in Sq : i = j
  BY <1>1, <1>3 DEF DistinctInv
<1>8. \A u, v \in Un : u = v
  BY <1>1, <1>4, <1>5 DEF DistinctInv
<1>9. \A i, j \in Cq : i = j
  BY <1>1, <1>6 DEF DistinctInv
<1>10. /\ ~((\E i \in Sq : TRUE) /\ (\E u \in Un : TRUE))
       /\ ~((\E i \in Sq : TRUE) /\ (\E j \in Cq : TRUE))
       /\ ~((\E u \in Un : TRUE) /\ (\E j \in Cq : TRUE))
  BY <1>1, <1>3, <1>4, <1>5, <1>6 DEF DistinctInv
<1>11. posted[c] => \/ \E i \in Sq : TRUE
                    \/ \E u \in Un : TRUE
                    \/ \E i \in Cq : TRUE
  BY DEF HomeInv, Fetchable, InUnit, Executed
<1>12. (\E i \in Sq : TRUE) \/ (\E u \in Un : TRUE) \/ (\E i \in Cq : TRUE) => posted[c]
  BY <1>3, <1>5, <1>6
<1>13. /\ Cardinality(Sq) = IF \E i \in Sq : TRUE THEN 1 ELSE 0
       /\ Cardinality(Un) = IF \E u \in Un : TRUE THEN 1 ELSE 0
       /\ Cardinality(Cq) = IF \E i \in Cq : TRUE THEN 1 ELSE 0
  BY <1>7, <1>8, <1>9, OneOrNone
<1> DEFINE inSq == \E i \in Sq : TRUE
           inUn == \E u \in Un : TRUE
           inCq == \E i \in Cq : TRUE
<1>14. /\ inSq \in BOOLEAN /\ inUn \in BOOLEAN /\ inCq \in BOOLEAN
       /\ ~(inSq /\ inUn) /\ ~(inSq /\ inCq) /\ ~(inUn /\ inCq)
       /\ posted[c] <=> inSq \/ inUn \/ inCq
       /\ Cardinality(Sq) = IF inSq THEN 1 ELSE 0
       /\ Cardinality(Un) = IF inUn THEN 1 ELSE 0
       /\ Cardinality(Cq) = IF inCq THEN 1 ELSE 0
  BY <1>10, <1>11, <1>12, <1>13
<1> HIDE DEF Sq, Un, Cq, inSq, inUn, inCq
<1> QED
  <2>1. Cardinality(Sq) + Cardinality(Un) + Cardinality(Cq) = IF posted[c] THEN 1 ELSE 0
    BY <1>14
  <2> QED
    BY <2>1 DEF Sq, Un, Cq

(* No posted command is lost between the rings and the units and none is    *)
(* in two places, so none is executed twice.                                *)
THEOREM OneHomeCorrect == FreshSpec => []OneHomePerCommand
<1>1. Init => HomeInv
  BY DEF Init, HomeInv
<1>2. ServiceInv /\ HomeInv /\ [FreshNext]_vars => HomeInv'
  BY HomeStep
<1>3. FreshSpec => []ServiceInv
  BY FreshRing, FreshCorrect, PostedNotCompleteCorrect, PTL DEF ServiceInv
<1>4. ServiceInv /\ HomeInv => OneHomePerCommand
  BY OneHome
<1> QED
  BY <1>1, <1>2, <1>3, <1>4, PTL DEF FreshSpec
=============================================================================

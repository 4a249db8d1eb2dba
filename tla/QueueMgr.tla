------------------------------ MODULE QueueMgr ------------------------------
(***************************************************************************)
(* QueueMgr of lone/nvme/spec/queues.py: the directory of queue pairs that  *)
(* the driver and the simulated controller each keep.  A manager is a       *)
(* record: the pairs in the order they were added (nvme_queues, a dict),    *)
(* the I/O queue identifiers in that order and the round-robin index.       *)
(***************************************************************************)
EXTENDS Naturals, SequencesExt, Lists

CONSTANT NoQueue   \* Python's None in the place of a queue

ASSUME NoQueueAssumption == NoQueue \notin Nat \union [mem : Nat, head : Nat]

NewMgr == [pairs |-> <<>>, sqids |-> <<>>, index |-> 0, cqids |-> <<>>]

HasSq(e) == e.sq # NoQueue
HasCq(e) == e.cq # NoQueue
IsIo(e)  == e.sqid # 0 /\ e.cqid # 0

(* The pairs of I/O queues, as a set and in the order of the dict.          *)
IoSet(pairs)   == {e \in Range(pairs) : IsIo(e)}
IoPairs(pairs) == Keep(pairs, IoSet(pairs))

Sqids(pairs) == [i \in 1 .. Len(pairs) |-> pairs[i].sqid]
Cqids(pairs) == [i \in 1 .. Len(pairs) |-> pairs[i].cqid]

SameKey(e, f) == e.sqid = f.sqid /\ e.cqid = f.cqid

(* Fault: a key that is there keeps its value.                              *)
AssignOnce(pairs, e) ==
    IF \E i \in 1 .. Len(pairs) : SameKey(pairs[i], e) THEN pairs ELSE Append(pairs, e)

(* Assigning to a key of a dict keeps the place of a key that was there.    *)
Assign(pairs, e) ==
    IF \E i \in 1 .. Len(pairs) : SameKey(pairs[i], e)
    THEN [i \in 1 .. Len(pairs) |-> IF SameKey(pairs[i], e) THEN e ELSE pairs[i]]
    ELSE Append(pairs, e)

(* add: the identifier lists are rebuilt, the round-robin index is kept.    *)
Add(mgr, e) ==
    LET pairs == Assign(mgr.pairs, e)
        io    == IoPairs(pairs)
    IN  [pairs |-> pairs, sqids |-> Sqids(io), index |-> mgr.index, cqids |-> Cqids(io)]

SqTaken(e, Q) == IF e.sqid \in Q THEN [e EXCEPT !.sq = NoQueue] ELSE e
CqTaken(e, Q) == IF e.cqid \in Q THEN [e EXCEPT !.cq = NoQueue] ELSE e

(* list.remove once for each pair of the identifiers; the admin queues are  *)
(* not in the lists.                                                        *)
Without(ids, Q) == Keep(ids, Range(ids) \ Q)

(* Fault: the identifiers stay in the round robin.                          *)
RemoveSqsKeepingIds(mgr, Q) ==
    [mgr EXCEPT !.pairs = [i \in 1 .. Len(mgr.pairs) |-> SqTaken(mgr.pairs[i], Q)]]

(* remove_sq of each identifier of Q: the pairs stay, without their         *)
(* submission queues.                                                       *)
RemoveSqs(mgr, Q) ==
    [mgr EXCEPT !.pairs = [i \in 1 .. Len(mgr.pairs) |-> SqTaken(mgr.pairs[i], Q)],
                !.sqids = Without(mgr.sqids, Q)]

(* What remove_cq asserts.                                                  *)
MayRemoveCq(mgr, q) ==
    \A i \in 1 .. Len(mgr.pairs) : mgr.pairs[i].cqid = q => ~HasSq(mgr.pairs[i])

(* remove_cq of each identifier of Q: pairs left with neither queue are     *)
(* dropped.                                                                 *)
RemoveCqs(mgr, Q) ==
    LET pairs == [i \in 1 .. Len(mgr.pairs) |-> CqTaken(mgr.pairs[i], Q)]
    IN  [mgr EXCEPT !.pairs = Keep(pairs, {e \in Range(pairs) : HasSq(e) \/ HasCq(e)}),
                    !.cqids = Without(mgr.cqids, Q)]

(* next_iosq_id reads the list at the index, which must be in range, and    *)
(* moves the index on.                                                      *)
IndexInRange(mgr) == mgr.sqids # <<>> => mgr.index < Len(mgr.sqids)
NextIosq(mgr)     == mgr.sqids[mgr.index + 1]

(* Fault: the wrap is tested one too late.                                  *)
IndexMovedTooFar(mgr) ==
    [mgr EXCEPT !.index = IF mgr.index + 1 > Len(mgr.sqids) THEN 0 ELSE mgr.index + 1]

IndexMoved(mgr) ==
    [mgr EXCEPT !.index = IF mgr.index + 2 > Len(mgr.sqids) THEN 0 ELSE mgr.index + 1]

(* get(sqid, None): the first pair of the submission queue.                 *)
PairOf(mgr, q) ==
    mgr.pairs[CHOOSE i \in 1 .. Len(mgr.pairs) :
        mgr.pairs[i].sqid = q /\ \A j \in 1 .. i - 1 : mgr.pairs[j].sqid # q]
=============================================================================

------------------------------ MODULE IoQueues ------------------------------
(***************************************************************************)
(* The life of I/O queues: create_io_queue_pair, delete_io_queues, a        *)
(* disable followed by a new enable, and I/O commands sent round robin, in  *)
(* the driver (lone/nvme/device/__init__.py) and in the simulated           *)
(* controller (nvsim/cmd_handlers/admin.py, nvsim/simulators/generic.py).   *)
(* Driver and simulator keep a QueueMgr each, over the same memory and      *)
(* doorbells; the simulator also keeps the list completion_queues.          *)
(*                                                                          *)
(* A call of the user is one step: admin commands and, with the simulated   *)
(* device, I/O commands are executed before the call returns (SimDispatch). *)
(* Every such step runs check_commands, which executes what it finds in any *)
(* I/O submission queue of the simulator.  Abstracted: a queue's memory is  *)
(* its identity; commands have no content and never fail.                   *)
(***************************************************************************)
EXTENDS QueueMgr, FiniteSets

CONSTANTS
    Qids,       \* identifiers of I/O queues, numbers above 0
    Entries,    \* slots of an I/O submission queue
    MaxEndings  \* bound of the model on deletions and resets

ASSUME QidsAssumption == Qids \subseteq Nat \ {0}
ASSUME EntriesAssumption == Entries \in Nat \ {0, 1}
ASSUME MaxEndingsAssumption == MaxEndings \in Nat

VARIABLES
    host,      \* the driver's queue_mgr
    sim,       \* the simulator's queue_mgr
    staged,    \* the simulator's completion_queues
    tailDb,    \* SQ tail doorbells
    allocated, \* queue memories handed out so far, none is ever freed
    endings,   \* how often all queues were deleted or the device was reset
    outcome,   \* how the last call ended
    firstLife  \* no reset, and no queue created after a deletion, so far

vars == <<host, sim, staged, tailDb, allocated, endings, outcome, firstLife>>

(* A submission queue object is its memory and its head, a completion queue *)
(* object is its memory.                                                    *)
Sq(m) == [mem |-> m, head |-> 0]

AdminPair(m) == [sqid |-> 0, cqid |-> 0, sq |-> Sq(m), cq |-> m]

(* An enabled device with admin queues.                                     *)
Init ==
    /\ host = Add(NewMgr, AdminPair(1))
    /\ sim = Add(NewMgr, AdminPair(1))
    /\ staged = <<>>
    /\ tailDb = [q \in Qids |-> 0]
    /\ allocated = 1
    /\ endings = 0
    /\ outcome = "ok"
    /\ firstLife = TRUE

HeadFollows(e, db) == IF IsIo(e) /\ HasSq(e) THEN [e EXCEPT !.sq.head = db[e.sqid]] ELSE e

(* Fault: only the first pair after the admin pair is served.               *)
ServedFirst(mgr, db) ==
    [mgr EXCEPT !.pairs = [i \in 1 .. Len(mgr.pairs) |->
        IF i = 2 THEN HeadFollows(mgr.pairs[i], db) ELSE mgr.pairs[i]]]

(* check_commands on the I/O queues: heads catch up with the doorbells.     *)
Served(mgr, db) ==
    [mgr EXCEPT !.pairs = [i \in 1 .. Len(mgr.pairs) |-> HeadFollows(mgr.pairs[i], db)]]

(* Between the calls, no submission queue has a slot to execute: the        *)
(* simulator's heads, and the host's, are at the doorbells.                 *)
Drained(mgr) ==
    \A i \in 1 .. Len(mgr.pairs) :
        IsIo(mgr.pairs[i]) /\ HasSq(mgr.pairs[i])
            => mgr.pairs[i].sq.head = tailDb[mgr.pairs[i].sqid]

(* The calls are followed until one raises, leaves a command outstanding,   *)
(* or leaves slots to execute that the host did not fill.                   *)
Followed == /\ Drained(sim) /\ Drained(host)
            /\ outcome \notin {"no completion", "assertion error"}

(* Fault: the identifiers are not compared.                                 *)
StagedFirst(list, q) == Head(list).mem

(* The completion queue object NVSimCreateIOSubmissionQueue finds.          *)
StagedCq(list, q) ==
    list[CHOOSE i \in 1 .. Len(list) :
        list[i].qid = q /\ \A j \in 1 .. i - 1 : list[j].qid # q].mem

(* create_io_queue_pair with identifiers that are not in use: memory and a  *)
(* create command for the completion queue, the same for the submission     *)
(* queue, then the pair enters the driver's directory.                      *)
CreatePair(sqid, cqid) ==
    LET cqMem == allocated + 1
        sqMem == allocated + 2
        list  == Append(staged, [qid |-> cqid, mem |-> cqMem])
    IN
    /\ Followed
    /\ \A i \in 1 .. Len(host.pairs) : host.pairs[i].sqid # sqid /\ host.pairs[i].cqid # cqid
    /\ allocated' = allocated + 2
    /\ staged' = list
    /\ sim' = Add(Served(sim, tailDb),
                  [sqid |-> sqid, cqid |-> cqid, sq |-> Sq(sqMem), cq |-> StagedCq(list, cqid)])
    /\ host' = Add(host, [sqid |-> sqid, cqid |-> cqid, sq |-> Sq(sqMem), cq |-> cqMem])
    /\ outcome' = "ok"
    /\ firstLife' = (firstLife /\ endings = 0)
    /\ UNCHANGED <<tailDb, endings>>

(* delete_io_queues on one manager, of the pairs io of the driver: all      *)
(* submission queues, then all completion queues.  The simulator executes   *)
(* the same removals.                                                       *)
SqsDeleted(mgr, io) == RemoveSqs(mgr, {e.sqid : e \in io})
AllDeleted(mgr, io) == RemoveCqs(SqsDeleted(mgr, io), {e.cqid : e \in io})
MayDelete(mgr, io)  == \A e \in io : MayRemoveCq(SqsDeleted(mgr, io), e.cqid)

HostIo == IoSet(host.pairs)

DeleteIoQueues ==
    /\ Followed
    /\ endings < MaxEndings
    /\ MayDelete(host, HostIo) /\ MayDelete(sim, HostIo)
    /\ host' = AllDeleted(host, HostIo)
    /\ sim' = AllDeleted(Served(sim, tailDb), HostIo)
    /\ endings' = endings + 1
    /\ outcome' = "ok"
    /\ UNCHANGED <<staged, tailDb, allocated, firstLife>>

(* An assertion of remove_cq fails, and the call raises in its middle.      *)
DeleteRaises ==
    /\ Followed
    /\ ~(MayDelete(host, HostIo) /\ MayDelete(sim, HostIo))
    /\ outcome' = "assertion error"
    /\ UNCHANGED <<host, sim, staged, tailDb, allocated, endings, firstLife>>

(* init_admin_queues, with the cc_disable it begins with, and cc_enable.    *)
(* disable() of the simulator only clears RDY.                              *)
Reset ==
    /\ Followed
    /\ endings < MaxEndings
    /\ allocated' = allocated + 1
    /\ tailDb' = [q \in Qids |-> 0]
    /\ host' = Add(NewMgr, AdminPair(allocated + 1))
    /\ sim' = Add(sim, AdminPair(allocated + 1))
    /\ endings' = endings + 1
    /\ outcome' = "ok"
    /\ firstLife' = FALSE
    /\ UNCHANGED staged

HeadsTaken(mgr, q, h) ==
    [mgr EXCEPT !.pairs = [i \in 1 .. Len(mgr.pairs) |->
        IF mgr.pairs[i].sqid = q THEN [mgr.pairs[i] EXCEPT !.sq.head = h] ELSE mgr.pairs[i]]]

ServesHost(q) ==
    \E i \in 1 .. Len(sim.pairs) :
        /\ sim.pairs[i].sqid = q
        /\ HasSq(sim.pairs[i]) /\ HasCq(sim.pairs[i])
        /\ sim.pairs[i].sq.mem = PairOf(host, q).sq.mem
        /\ sim.pairs[i].cq = PairOf(host, q).cq

(* Fault: the tail is not wrapped.                                          *)
TailUnwrapped(tail) == tail + 1

TailAfter(tail) == (tail + 1) % Entries

(* sync_cmd of an I/O command for which the user named no queue.  The host  *)
(* finds the completion if the simulator wrote it where the host looks.     *)
SendIo ==
    /\ Followed
    /\ host.sqids # <<>>
    /\ IndexInRange(host)
    /\ LET q  == NextIosq(host)
           db == [tailDb EXCEPT ![q] = TailAfter(tailDb[q])]
       IN  /\ tailDb' = db
           /\ sim' = Served(sim, db)
           /\ IF ServesHost(q)
              THEN host' = HeadsTaken(IndexMoved(host), q, db[q]) /\ outcome' = "ok"
              ELSE host' = IndexMoved(host) /\ outcome' = "no completion"
    /\ UNCHANGED <<staged, allocated, endings, firstLife>>

(* next_iosq_id reads past the end of its list.                             *)
SendIoPastTheEnd ==
    /\ Followed
    /\ host.sqids # <<>>
    /\ ~IndexInRange(host)
    /\ outcome' = "index error"
    /\ UNCHANGED <<host, sim, staged, tailDb, allocated, endings, firstLife>>

(* With no I/O queue next_iosq_id returns None, and get(None, None) returns *)
(* the first key of the directory in the place of two queues.  The          *)
(* assertion of start_cmd accepts it; the first attribute access fails.     *)
SendIoWithoutQueue ==
    /\ Followed
    /\ host.sqids = <<>>
    /\ host.pairs # <<>>
    /\ outcome' = "attribute error"
    /\ UNCHANGED <<host, sim, staged, tailDb, allocated, endings, firstLife>>

-----------------------------------------------------------------------------
Next ==
    \/ \E s, c \in Qids : CreatePair(s, c)
    \/ DeleteIoQueues
    \/ DeleteRaises
    \/ Reset
    \/ SendIo
    \/ SendIoPastTheEnd
    \/ SendIoWithoutQueue

(* Any user; one who goes on sending I/O commands.                          *)
Spec == Init /\ [][Next]_vars
FairSpec == Spec /\ WF_vars(SendIo)
-----------------------------------------------------------------------------
Pairs(mgr) == {mgr.pairs[i] : i \in 1 .. Len(mgr.pairs)}

SqObject  == [mem : 1 .. allocated, head : 0 .. Entries - 1]
PairType  == [sqid : Qids \union {0}, cqid : Qids \union {0},
              sq : SqObject \union {NoQueue}, cq : (1 .. allocated) \union {NoQueue}]

TypeOK ==
    /\ Pairs(host) \subseteq PairType /\ Pairs(sim) \subseteq PairType
    /\ \A i \in 1 .. Len(staged) : staged[i] \in [qid : Qids, mem : 1 .. allocated]
    /\ tailDb \in [Qids -> 0 .. Entries - 1]
    /\ endings \in 0 .. MaxEndings
    /\ firstLife \in BOOLEAN
    /\ outcome \in {"ok", "no completion", "index error", "attribute error",
                   "assertion error"}

-----------------------------------------------------------------------------
(* The first life of the queues: until the user resets the device or        *)
(* creates queues after a deletion.                                         *)

(* Driver and simulator hold the same pairs, over the same memory, with     *)
(* heads that agree, nothing left over from a deletion and nothing pending. *)
(* Each changes its own directory, at another time and by other code.       *)
SameDirectory == firstLife => Pairs(host) = Pairs(sim) /\ Drained(sim)

(* While there is an I/O queue, no call fails: the round-robin index is in  *)
(* range, the completion is where the host looks for it, and queues can be  *)
(* deleted.                                                                 *)
CallsSucceed ==
    firstLife /\ host.sqids # <<>> => IndexInRange(host) /\ outcome = "ok"

(* No queue is passed over for ever by the round robin, whatever is created *)
(* in between.                                                              *)
HasTurn(q) == host.sqids # <<>> /\ IndexInRange(host) /\ NextIosq(host) = q
EveryQueueHasItsTurn ==
    \A q \in Qids :
        firstLife /\ Contains(host.sqids, q) ~> (HasTurn(q) \/ host.sqids = <<>> \/ ~firstLife)

-----------------------------------------------------------------------------
(* Any user, resets and new queues under old identifiers included.          *)

(* A pair of the driver always has both queues, no identifier is in two     *)
(* pairs, and the identifier lists rebuilt by add and thinned by remove are *)
(* those of the pairs.                                                      *)
HostDirectoryIsWhole ==
    /\ \A e \in Pairs(host) : HasSq(e) /\ HasCq(e)
    /\ \A i, j \in 1 .. Len(host.pairs) :
        host.pairs[i].sqid = host.pairs[j].sqid \/ host.pairs[i].cqid = host.pairs[j].cqid => i = j
    /\ host.sqids = Sqids(IoPairs(host.pairs)) /\ host.cqids = Cqids(IoPairs(host.pairs))

(* Under the same identifiers the simulator fetches from the memory the     *)
(* host posts to, whatever old pairs it still holds.                        *)
SubmissionsReachSimulator ==
    \A e \in Pairs(host) :
        \E f \in Pairs(sim) : SameKey(e, f) /\ HasSq(f) /\ f.sq.mem = e.sq.mem

(* GenericNVMeNVSimConfig: completion queues are in the list "until a       *)
(* submission queue uses it".  If so, the queue found is the new one, and   *)
(* its completions are where the host looks.                                *)
CompletionsReachHost == outcome # "no completion"
=============================================================================

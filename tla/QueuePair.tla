------------------------------ MODULE QueuePair ------------------------------
(***************************************************************************)
(* One submission/completion queue pair between the driver (NVMeDeviceCommon, *)
(* lone/nvme/device/__init__.py) and an NVMe controller, with the two rings *)
(* of lone/nvme/spec/queues.py in shared memory and the two doorbells of    *)
(* the pair in registers.                                                   *)
(*                                                                          *)
(* The driver owns nextCid .. cqPhase, the controller owns devSqHead,       *)
(* devCqTail and unit; they share the two rings and the two doorbells.      *)
(* Driver and controller never share a lock: each sees of the other only    *)
(* the memory and the registers, and the host learns of a completion only   *)
(* from the phase bit of the slot its head points at.                       *)
(*                                                                          *)
(* The controller has a set of Units, each executing one command: with one  *)
(* unit it completes commands in the order it fetched them, as nvsim's      *)
(* check_commands loop does; with several it completes them in any order,   *)
(* as the physical controllers the driver is written for may.               *)
(*                                                                          *)
(* Data abstracted: a command's payload is its identity (field cmd of an    *)
(* SQE); a CQE's status and command-specific value are the identity of the  *)
(* command whose execution produced them (field cmd of a CQE).              *)
(***************************************************************************)
EXTENDS NVMeRing, FiniteSets

CONSTANTS
    Commands,   \* the command objects of the user of the driver
    Units,      \* commands the controller can execute at the same time
    SQEntries,  \* slots of the submission queue
    CQEntries,  \* slots of the completion queue
    CidInit,    \* CidMgr.init_value, 0x1000 in the code
    CidMax,     \* CidMgr.max_value, 0xFFFE in the code; never allocated
    NoCmd       \* no command

ASSUME QueueSizesAssumption ==
    /\ SQEntries \in Nat \ {0}
    /\ CQEntries \in Nat \ {0}
ASSUME CidRangeAssumption ==
    /\ CidInit \in Nat \ {0}
    /\ CidMax \in Nat
    /\ CidInit < CidMax
ASSUME NoCmdAssumption == NoCmd \notin Commands

VARIABLES
    nextCid,      \* CidMgr.value
    cid,          \* command.CID
    posted,       \* command.posted
    complete,     \* command.complete
    result,       \* command.cqe: whose execution the copied CQE reports
    outstanding,  \* outstanding_commands, by CID; NoCmd where there is no key
    sqHead,       \* the host's sq.head, private memory
    cqPhase,      \* the host's cq.phase
    sqe,          \* submission queue memory
    sqTail,       \* SQ tail doorbell
    cqe,          \* completion queue memory
    cqHead,       \* CQ head doorbell
    devSqHead,    \* the controller's sq.head
    devCqTail,    \* the controller's cq.tail
    unit          \* what each unit of the controller executes

hostVars == <<nextCid, cid, posted, complete, result, outstanding, sqHead, cqPhase>>
sqVars   == <<sqe, sqTail>>
cqVars   == <<cqe, cqHead>>
devVars  == <<devSqHead, devCqTail, unit>>
vars     == <<hostVars, sqVars, cqVars, devVars>>

Cids    == CidInit .. CidMax - 1
SqSlots == Slots(SQEntries)
CqSlots == Slots(CQEntries)

(* An SQE; one that was never written is all zeroes.                        *)
Sqe   == [cid : Cids \union {0}, cmd : Commands \union {NoCmd}]
ZeroSqe == [cid |-> 0, cmd |-> NoCmd]
Cqe   == [cid : Cids \union {0}, cmd : Commands \union {NoCmd}, sqhd : SqSlots, p : {0, 1}]
ZeroCqe == [cid |-> 0, cmd |-> NoCmd, sqhd |-> 0, p |-> 0]

Idle == ZeroSqe

TypeOK ==
    /\ nextCid \in Cids
    /\ cid \in [Commands -> Cids \union {0}]
    /\ posted \in [Commands -> BOOLEAN]
    /\ complete \in [Commands -> BOOLEAN]
    /\ result \in [Commands -> Commands \union {NoCmd}]
    /\ outstanding \in [Cids -> Commands \union {NoCmd}]
    /\ sqHead \in SqSlots
    /\ cqPhase \in {0, 1}
    /\ sqe \in [SqSlots -> Sqe]
    /\ sqTail \in SqSlots
    /\ cqe \in [CqSlots -> Cqe]
    /\ cqHead \in CqSlots
    /\ devSqHead \in SqSlots
    /\ devCqTail \in CqSlots
    /\ unit \in [Units -> Sqe]

(* A pair just created: queue memory is zeroed (new hugepages are), the     *)
(* doorbells were cleared by cc_disable, every index starts at 0.           *)
Init ==
    /\ nextCid = CidInit
    /\ cid = [c \in Commands |-> 0]
    /\ posted = [c \in Commands |-> FALSE]
    /\ complete = [c \in Commands |-> FALSE]
    /\ result = [c \in Commands |-> NoCmd]
    /\ outstanding = [k \in Cids |-> NoCmd]
    /\ sqHead = 0
    /\ cqPhase = 1
    /\ sqe = [i \in SqSlots |-> ZeroSqe]
    /\ sqTail = 0
    /\ cqe = [i \in CqSlots |-> ZeroCqe]
    /\ cqHead = 0
    /\ devSqHead = 0
    /\ devCqTail = 0
    /\ unit = [u \in Units |-> Idle]

-----------------------------------------------------------------------------
(* The driver.                                                              *)

(* Definitions marked "Fault" are slips a later change of the code could    *)
(* make; no specification uses them.  Each stands before the definition it  *)
(* deforms and shows that a property below notices the difference.          *)

(* Fault: the wrap is tested after the value was handed out.                *)
CidAfterPastTheEnd(k) == IF k >= CidMax THEN CidInit ELSE k + 1
(* Fault: the cycle loses its last value.                                   *)
CidAfterTooEarly(k) == IF k + 2 >= CidMax THEN CidInit ELSE k + 1

(* CidMgr.alloc: the value it leaves for the next call.                     *)
CidAfter(k) == IF k + 1 >= CidMax THEN CidInit ELSE k + 1

(* Fault: of the three assertions only the last is left.                    *)
MayStartPosted(c) == ~complete[c]

(* start_cmd's three assertions.  The first looks at the CID the command    *)
(* object still carries from its last use, not at the one it will be given. *)
MayStart(c) ==
    /\ cid[c] \in Cids => outstanding[cid[c]] = NoCmd
    /\ ~posted[c]
    /\ ~complete[c]

(* Fault: the assertion is compiled out.                                    *)
SqFullUnchecked == FALSE

(* What NVMeSubmissionQueue.post_command asserts before it writes the slot. *)
SqFull == IsFull(sqHead, sqTail, SQEntries)

(* start_cmd and post_command when there is room in the queue.  The key     *)
(* (CID, sqid) is stored without a look at what it held.                    *)
StartCmd(c) ==
    /\ MayStart(c)
    /\ ~SqFull
    /\ nextCid' = CidAfter(nextCid)
    /\ cid' = [cid EXCEPT ![c] = nextCid]
    /\ sqe' = [sqe EXCEPT ![sqTail] = [cid |-> nextCid, cmd |-> c]]
    /\ sqTail' = Peek(sqTail, SQEntries)
    /\ outstanding' = [outstanding EXCEPT ![nextCid] = c]
    /\ posted' = [posted EXCEPT ![c] = TRUE]
    /\ UNCHANGED <<complete, result, sqHead, cqPhase, cqVars, devVars>>

(* The same call on a full queue: the assertion in NVMeSubmissionQueue.     *)
(* post_command raises after the command was given a CID.                   *)
StartCmdOnFullQueue(c) ==
    /\ MayStart(c)
    /\ SqFull
    /\ nextCid' = CidAfter(nextCid)
    /\ cid' = [cid EXCEPT ![c] = nextCid]
    /\ UNCHANGED <<posted, complete, result, outstanding, sqHead, cqPhase>>
    /\ UNCHANGED <<sqVars, cqVars, devVars>>

(* The test of get_completion: the phase bit of the slot at the head.       *)
CompletionSeen == cqe[cqHead].p = cqPhase

(* Fault: the phase is never flipped.                                       *)
PhaseKept(head) == cqPhase

(* consume_completion: the phase to expect when the head has moved to head. *)
PhaseAt(head) == IF head = 0 THEN 1 - cqPhase ELSE cqPhase

(* get_completion and complete_command.  With no outstanding command under  *)
(* the CQE's key the lookup raises KeyError before anything is changed, so  *)
(* there is no step.                                                        *)
GetCompletion ==
    LET entry == cqe[cqHead] IN
    /\ CompletionSeen
    /\ entry.cid \in Cids
    /\ outstanding[entry.cid] # NoCmd
    /\ LET c == outstanding[entry.cid] IN
         /\ posted[c]
         /\ cid[c] = entry.cid
         /\ posted' = [posted EXCEPT ![c] = FALSE]
         /\ complete' = [complete EXCEPT ![c] = TRUE]
         /\ result' = [result EXCEPT ![c] = entry.cmd]
    /\ outstanding' = [outstanding EXCEPT ![entry.cid] = NoCmd]
    /\ cqHead' = Peek(cqHead, CQEntries)
    /\ cqPhase' = PhaseAt(cqHead')
    /\ sqHead' = entry.sqhd
    /\ UNCHANGED <<nextCid, cid, sqVars, cqe, devVars>>

(* The user clears the flag to send the same object again.                  *)
ReuseCmd(c) ==
    /\ complete[c]
    /\ complete' = [complete EXCEPT ![c] = FALSE]
    /\ UNCHANGED <<nextCid, cid, posted, result, outstanding, sqHead, cqPhase>>
    /\ UNCHANGED <<sqVars, cqVars, devVars>>

-----------------------------------------------------------------------------
(* The controller.                                                          *)

SqPending == NumEntries(devSqHead, sqTail, SQEntries) # 0

(* get_command: an idle unit takes the command at the head.                 *)
FetchCmd(u) ==
    /\ unit[u] = Idle
    /\ SqPending
    /\ unit' = [unit EXCEPT ![u] = sqe[devSqHead]]
    /\ devSqHead' = Peek(devSqHead, SQEntries)
    /\ UNCHANGED <<hostVars, sqVars, cqVars, devCqTail>>

(* Fault: the queue is not checked, the TODO of post_completion.            *)
CqFullUnchecked == FALSE

(* What NVMeCompletionQueue.post_completion asserts.                        *)
CqFull == IsFull(cqHead, devCqTail, CQEntries)

(* Fault: the CID is read from the slot at the head, already advanced.      *)
CqeWithNextCid(u) ==
    [cid |-> sqe[devSqHead].cid, cmd |-> unit[u].cmd, sqhd |-> devSqHead,
     p |-> 1 - cqe[devCqTail].p]
(* Fault: the tail is reported instead of the head.                         *)
CqeWithTail(u) ==
    [cid |-> unit[u].cid, cmd |-> unit[u].cmd, sqhd |-> sqTail,
     p |-> 1 - cqe[devCqTail].p]

(* complete and post_completion: the CQE carries the CID of the SQE and the *)
(* current SQ head, and the inverse of the phase bit the slot had.          *)
CqeOf(u) ==
    [cid |-> unit[u].cid, cmd |-> unit[u].cmd, sqhd |-> devSqHead,
     p |-> 1 - cqe[devCqTail].p]

(* A unit posts its completion, and waits while the queue is full.          *)
CompleteCmd(u) ==
    /\ unit[u] # Idle
    /\ ~CqFull
    /\ cqe' = [cqe EXCEPT ![devCqTail] = CqeOf(u)]
    /\ devCqTail' = Peek(devCqTail, CQEntries)
    /\ unit' = [unit EXCEPT ![u] = Idle]
    /\ UNCHANGED <<hostVars, sqVars, cqHead, devSqHead>>

-----------------------------------------------------------------------------
Device == \E u \in Units : FetchCmd(u) \/ CompleteCmd(u)

Next ==
    \/ \E c \in Commands : StartCmd(c)
    \/ \E c \in Commands : StartCmdOnFullQueue(c)
    \/ \E c \in Commands : ReuseCmd(c)
    \/ GetCompletion
    \/ Device

(* Any user of the driver, any pace of the controller.                      *)
Spec == Init /\ [][Next]_vars

(* A user who never lets a command stay outstanding over a whole cycle of   *)
(* CIDs: what CidMgr's docstring leaves to its caller.                      *)
CidIsFree == outstanding[nextCid] = NoCmd

FreshNext ==
    \/ \E c \in Commands : CidIsFree /\ StartCmd(c)
    \/ \E c \in Commands : StartCmdOnFullQueue(c)
    \/ \E c \in Commands : ReuseCmd(c)
    \/ GetCompletion
    \/ Device

FreshSpec == Init /\ [][FreshNext]_vars

(* The user polls, the controller fetches, and every unit finishes.         *)
Fairness ==
    /\ WF_vars(GetCompletion)
    /\ WF_vars(\E u \in Units : FetchCmd(u))
    /\ \A u \in Units : WF_vars(CompleteCmd(u))

FairFreshSpec == FreshSpec /\ Fairness

(* A user who never calls start_cmd on a full queue, so that every CID      *)
(* taken is posted.                                                         *)
PatientNext ==
    \/ \E c \in Commands : StartCmd(c)
    \/ \E c \in Commands : ReuseCmd(c)
    \/ GetCompletion
    \/ Device

PatientSpec == Init /\ [][PatientNext]_vars
-----------------------------------------------------------------------------
(* Properties of every behaviour, whatever the user and the controller do.  *)

PendingSq(i) == Holds(i, devSqHead, sqTail, SQEntries)
PendingCq(i) == Holds(i, cqHead, devCqTail, CQEntries)

(* The host decides that a completion is there from one bit: the phase of   *)
(* the slot at its head equals the phase it expects.  The bit says so       *)
(* exactly when the controller has posted an entry the host has not         *)
(* consumed: get_completion never takes a stale entry of an earlier lap for *)
(* a new one and never misses one, across every wrap of either index.       *)
PhaseTellsPending == CompletionSeen <=> cqHead # devCqTail

(* The host learns how far the controller has fetched only from the SQHD of *)
(* the completions it consumes.  What it believes is late but never ahead:  *)
(* every slot not yet fetched is among the slots is_full counts as taken.   *)
HostHeadIsBehind ==
    Dist(sqHead, devSqHead, SQEntries) <= Dist(sqHead, sqTail, SQEntries)

(* A submission entry stays as it is, and pending, until the controller     *)
(* fetches it; a completion entry until the host consumes it.  Neither side *)
(* overwrites an entry or laps the other's head, which would empty the      *)
(* queue in one step, although the host tests for room with its late head.  *)
KeptOrFetched(i) ==
    \/ sqe'[i] = sqe[i] /\ PendingSq(i)'
    \/ i = devSqHead /\ devSqHead' = Peek(devSqHead, SQEntries)
KeptOrConsumed(i) ==
    \/ cqe'[i] = cqe[i] /\ PendingCq(i)'
    \/ i = cqHead /\ cqHead' = Peek(cqHead, CQEntries)
NoEntryIsLost ==
    [][/\ \A i \in SqSlots : PendingSq(i) => KeptOrFetched(i)
       /\ \A i \in CqSlots : PendingCq(i) => KeptOrConsumed(i)]_vars

(* The assertions of complete_command ("not posted", "cqid mismatch"): a    *)
(* command found under a key is posted and still carries that key's CID,    *)
(* however often CIDs were handed out, wrapped or wasted on a full queue.   *)
CompletionAssertionsHold ==
    \A k \in Cids : outstanding[k] # NoCmd =>
        posted[outstanding[k]] /\ cid[outstanding[k]] = k

-----------------------------------------------------------------------------
(* Properties of a user who never lets a CID be reused while outstanding.   *)

(* Every completion the host has not consumed belongs to a command it still *)
(* remembers, the one that was executed: the lookup of get_completion never *)
(* raises and the queue never gets stuck behind an entry nobody claims.     *)
EveryCompletionIsClaimed ==
    \A i \in CqSlots : PendingCq(i) =>
        /\ cqe[i].cid \in Cids
        /\ cqe[i].cmd # NoCmd
        /\ outstanding[cqe[i].cid] = cqe[i].cmd

(* A command object marked complete holds the completion of its own         *)
(* execution, not of another command's.                                     *)
CompleteMeansOwnResult == \A c \in Commands : complete[c] => result[c] = c

(* A command is in exactly one place while it is posted - a pending slot of *)
(* the submission queue, a unit, a pending slot of the completion queue -   *)
(* and nowhere otherwise: none is executed twice, none is lost.             *)
OneHomePerCommand ==
    \A c \in Commands :
        Cardinality({i \in SqSlots : PendingSq(i) /\ sqe[i].cmd = c})
          + Cardinality({u \in Units : unit[u].cmd = c})
          + Cardinality({i \in CqSlots : PendingCq(i) /\ cqe[i].cmd = c})
        = IF posted[c] THEN 1 ELSE 0

(* A command that was posted is completed eventually, even when the queues  *)
(* fill up in between.                                                      *)
EveryCommandCompletes == \A c \in Commands : posted[c] ~> complete[c]

(* The pair implements the service: stages follow from where the command is. *)
Executed(c) == \E i \in CqSlots : PendingCq(i) /\ cqe[i].cmd = c

Stage(c) == IF complete[c] THEN "reported"
            ELSE IF ~posted[c] THEN "idle"
            ELSE IF Executed(c) THEN "executed" ELSE "started"

Service == INSTANCE CommandService WITH
    report <- result,
    stage <- [c \in Commands |-> Stage(c)]

ImplementsService == Service!ServiceSpec

-----------------------------------------------------------------------------
(* A property of a controller that completes in order (one unit) and a user *)
(* who does not start commands on a full queue.                             *)

(* The CID a command is about to get is not outstanding.  CIDs are handed   *)
(* out in a cycle and come back in the same order, so the window of         *)
(* outstanding CIDs, at most SQEntries - 1 long, cannot meet its own tail.  *)
InOrderNeverReusesCid == ~SqFull => CidIsFree
=============================================================================

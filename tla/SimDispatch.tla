----------------------------- MODULE SimDispatch -----------------------------
(***************************************************************************)
(* check_commands of the simulated controller (GenericNVMeNVSim,            *)
(* nvsim/simulators/generic.py) on one queue pair.  Two threads run it: the *)
(* host's own, from posted_command in the middle of post_command, and the   *)
(* simulator's, from its register handler while CSTS.RDY is set.  They use  *)
(* the same queue objects and take no lock; head.advance and tail.advance   *)
(* load an index and store it in a second step.                             *)
(*                                                                          *)
(* The host's variables, rings and most host actions are those of           *)
(* QueuePair; unit[t] is the local variable "command" of thread t.  A       *)
(* handler that raises ends its thread's call: what the caller of           *)
(* post_command does after an exception is not modelled.                    *)
(***************************************************************************)
EXTENDS QueuePair

CONSTANTS
    MaxPerLoop   \* most I/O commands of one call, 100 in the code

Threads == {"host", "sim"}

ASSUME ThreadsAssumption == Units = Threads
ASSUME MaxPerLoopAssumption == MaxPerLoop \in Nat \ {0}

VARIABLES
    kind,      \* the pair is the admin pair or an I/O pair
    pc,        \* where each thread is in check_commands, "out" if not in it
    loaded,    \* the index each thread's advance has loaded
    budget,    \* nvm_commands_handled of each thread
    starting   \* the command whose post_command has not returned

callVars     == <<kind, pc, loaded, budget, starting>>
dispatchVars == <<vars, callVars>>

DispatchTypeOK ==
    /\ TypeOK
    /\ kind \in {"admin", "io"}
    /\ pc \in [Threads -> {"out", "scan", "test", "read", "load", "store", "handle",
                           "cq load", "cq store", "done", "raised"}]
    /\ loaded \in [Threads -> SqSlots \union CqSlots]
    /\ budget \in [Threads -> 0 .. MaxPerLoop]
    /\ starting \in Commands \union {NoCmd}

DispatchInit ==
    /\ Init
    /\ kind \in {"admin", "io"}
    /\ pc = [t \in Threads |-> "out"]
    /\ loaded = [t \in Threads |-> 0]
    /\ budget = [t \in Threads |-> 0]
    /\ starting = NoCmd

Goes(t, from, to) == pc[t] = from /\ pc' = [pc EXCEPT ![t] = to] /\ UNCHANGED kind
-----------------------------------------------------------------------------
(* The host.                                                                *)

(* post_command up to its call of posted_command: the command is in the     *)
(* ring, but neither outstanding nor marked as posted.                      *)
PostCommand(c) ==
    /\ Goes("host", "out", "scan")
    /\ MayStart(c)
    /\ ~SqFull
    /\ nextCid' = CidAfter(nextCid)
    /\ cid' = [cid EXCEPT ![c] = nextCid]
    /\ sqe' = [sqe EXCEPT ![sqTail] = [cid |-> nextCid, cmd |-> c]]
    /\ sqTail' = Peek(sqTail, SQEntries)
    /\ starting' = c
    /\ UNCHANGED <<posted, complete, result, outstanding, sqHead, cqPhase>>
    /\ UNCHANGED <<cqVars, devVars, loaded, budget>>

(* The rest of post_command and start_cmd.                                  *)
PostReturns ==
    /\ Goes("host", "done", "out")
    /\ outstanding' = [outstanding EXCEPT ![cid[starting]] = starting]
    /\ posted' = [posted EXCEPT ![starting] = TRUE]
    /\ starting' = NoCmd
    /\ UNCHANGED <<nextCid, cid, complete, result, sqHead, cqPhase>>
    /\ UNCHANGED <<sqVars, cqVars, devVars, loaded, budget>>

(* Calls of QueuePair that do not reach check_commands.  The user is the    *)
(* one of PatientSpec.                                                      *)
OtherCall ==
    /\ pc["host"] = "out"
    /\ \/ \E c \in Commands : ReuseCmd(c)
       \/ GetCompletion
    /\ UNCHANGED callVars

-----------------------------------------------------------------------------
(* check_commands, run by thread t.                                         *)

(* The simulator's thread runs its handler and finds RDY set.               *)
SimCalls ==
    /\ Goes("sim", "out", "scan")
    /\ UNCHANGED <<vars, loaded, budget, starting>>

SimReturns ==
    /\ Goes("sim", "done", "out")
    /\ UNCHANGED <<vars, loaded, budget, starting>>

SqCount == NumEntries(devSqHead, sqTail, SQEntries)

(* For an I/O queue the number of commands to handle is fixed first; a      *)
(* queue that is empty is not among the busy ones.                          *)
Scan(t) ==
    /\ budget' = [budget EXCEPT ![t] = IF kind = "admin" THEN 0
                                       ELSE IF SqCount < MaxPerLoop THEN SqCount ELSE MaxPerLoop]
    /\ Goes(t, "scan", IF kind = "io" /\ SqCount = 0 THEN "done" ELSE "test")
    /\ UNCHANGED <<vars, loaded, starting>>

(* Fault: what is returned is not looked at.                                *)
SqEmptyUnchecked == FALSE

(* get_command's test.                                                      *)
SqEmpty == SqCount = 0

(* Fault: the budget is not consulted.                                      *)
LoopGoesOnForever(t) == TRUE
(* Fault: the last command of the budget is left in the queue.              *)
LoopGoesOnTooShort(t) == budget[t] > 1

(* The loop on the admin queue ends when get_command returns None, that on  *)
(* an I/O queue when the budget is used up, and goes on until then.         *)
LoopGoesOn(t) == kind = "admin" \/ budget[t] > 0

Test(t) ==
    /\ Goes(t, "test", IF LoopGoesOn(t) /\ ~SqEmpty THEN "read"
                       ELSE IF LoopGoesOn(t) /\ kind = "io" THEN "test" ELSE "done")
    /\ UNCHANGED <<vars, loaded, budget, starting>>

(* The rest of get_command: the slot at the head, then the head advances.   *)
Read(t) ==
    /\ Goes(t, "read", "load")
    /\ unit' = [unit EXCEPT ![t] = sqe[devSqHead]]
    /\ UNCHANGED <<hostVars, sqVars, cqVars, devSqHead, devCqTail, loaded, budget, starting>>

Load(t) ==
    /\ Goes(t, "load", "store")
    /\ loaded' = [loaded EXCEPT ![t] = devSqHead]
    /\ UNCHANGED <<vars, budget, starting>>

(* Fault: the wrap is missing.                                              *)
SqNextUnwrapped(t) == loaded[t] + 1

(* What advance stores.                                                     *)
SqNext(t) == Peek(loaded[t], SQEntries)

Store(t) ==
    /\ Goes(t, "store", "handle")
    /\ devSqHead' = SqNext(t)
    /\ UNCHANGED <<hostVars, sqVars, cqVars, devCqTail, unit, loaded, budget, starting>>

(* A zeroed admin SQE is OPC 0 with QID 0: NVSimDeleteIOSubmissionQueue     *)
(* asserts that this is not a queue it deletes.                             *)
DeletesAdminQueue(t) == kind = "admin" /\ unit[t] = ZeroSqe

HandlerRaises(t) == DeletesAdminQueue(t) \/ CqFull

(* The handler and complete, up to the new CQE in its slot.                 *)
Handle(t) ==
    /\ Goes(t, "handle", "cq load")
    /\ ~HandlerRaises(t)
    /\ cqe' = [cqe EXCEPT ![devCqTail] = CqeOf(t)]
    /\ unit' = [unit EXCEPT ![t] = Idle]
    /\ UNCHANGED <<hostVars, sqVars, cqHead, devSqHead, devCqTail, loaded, budget, starting>>

Raise(t) ==
    /\ Goes(t, "handle", "raised")
    /\ HandlerRaises(t)
    /\ UNCHANGED <<vars, loaded, budget, starting>>

CqLoad(t) ==
    /\ Goes(t, "cq load", "cq store")
    /\ loaded' = [loaded EXCEPT ![t] = devCqTail]
    /\ UNCHANGED <<vars, budget, starting>>

(* The tail is stored; the I/O loop counts the command.                     *)
CqStore(t) ==
    /\ Goes(t, "cq store", "test")
    /\ devCqTail' = Peek(loaded[t], CQEntries)
    /\ budget' = [budget EXCEPT ![t] = IF kind = "io" THEN budget[t] - 1 ELSE budget[t]]
    /\ UNCHANGED <<hostVars, sqVars, cqVars, devSqHead, unit, loaded, starting>>

CheckCommands(t) ==
    \/ Scan(t) \/ Test(t) \/ Read(t) \/ Load(t) \/ Store(t)
    \/ Handle(t) \/ Raise(t) \/ CqLoad(t) \/ CqStore(t)

-----------------------------------------------------------------------------
DispatchNext ==
    \/ \E c \in Commands : PostCommand(c)
    \/ PostReturns
    \/ OtherCall
    \/ SimCalls
    \/ SimReturns
    \/ \E t \in Threads : CheckCommands(t)

(* Two threads at any pace.                                                 *)
ConcurrentSpec == DispatchInit /\ [][DispatchNext]_dispatchVars

(* The threads are never in check_commands at the same time, as when the    *)
(* host posts only after the simulator's handler has settled: doorbells are *)
(* not written through registers, so posting sets no event.                 *)
Serial == pc["host"] = "out" \/ pc["sim"] = "out"

SerialNext == DispatchNext /\ Serial'

SerialSpec ==
    /\ DispatchInit
    /\ [][SerialNext]_dispatchVars
    /\ \A t \in Threads : WF_dispatchVars(CheckCommands(t) /\ Serial')
    /\ WF_dispatchVars(PostReturns) /\ WF_dispatchVars(SimReturns)
-----------------------------------------------------------------------------
(* While the threads take turns.                                            *)

(* The dispatcher implements QueuePair with one unit: splitting a fetch and *)
(* a completion into loads and stores, and recording a command as           *)
(* outstanding only after it was executed, is not visible to the host.      *)
InHandler(t) == pc[t] = "handle" \/ pc[t] = "raised"
Posting == \E t \in Threads : pc[t] \in {"cq load", "cq store"}

Executing == IF \E t \in Threads : InHandler(t) THEN unit[CHOOSE t \in Threads : InHandler(t)] ELSE Idle
PostedTail == IF Posting THEN Peek(devCqTail, CQEntries) ELSE devCqTail
Recorded == IF starting = NoCmd THEN outstanding ELSE [outstanding EXCEPT ![cid[starting]] = starting]

OneUnit == INSTANCE QueuePair WITH
    Units       <- {"sim"},
    unit        <- [u \in {"sim"} |-> Executing],
    devCqTail   <- PostedTail,
    posted      <- [c \in Commands |-> posted[c] \/ c = starting],
    outstanding <- Recorded

ImplementsQueuePair == OneUnit!PatientSpec

(* When start_cmd returns, the completion is already in the queue: with the *)
(* simulated device one look at the queue is enough.                        *)
CompletedOnReturn ==
    \A k \in Cids : outstanding[k] # NoCmd /\ cid[outstanding[k]] = k =>
        \E i \in CqSlots : PendingCq(i) /\ cqe[i].cid = k /\ cqe[i].cmd = outstanding[k]

(* A handler raises in check_commands only when the host has more commands  *)
(* on their way than the completion queue has room for; with a queue as     *)
(* large as the submission queue that cannot be.                            *)
OnTheirWay == {c \in Commands : posted[c] \/ c = starting}
RaisesOnlyWhenFull == (\E t \in Threads : pc[t] = "raised") => Cardinality(OnTheirWay) >= CQEntries

(* The simulator never meets a reused CID.                                  *)
SimulatorNeverReusesCid == pc["host"] = "out" => OneUnit!InOrderNeverReusesCid

(* A call of check_commands ends, the counting loop on I/O queues included. *)
CallsEnd == \A t \in Threads : pc[t] # "out" ~> pc[t] \in {"out", "raised"}

-----------------------------------------------------------------------------
(* NVSimDeleteIOSubmissionQueue asserts that no command asks it to delete   *)
(* the admin queue.  No user of this module sends a delete command at all.  *)
NobodyDeletesAdminQueue == \A t \in Threads : pc[t] = "handle" => ~DeletesAdminQueue(t)
=============================================================================

----------------------------- MODULE Completions -----------------------------
(***************************************************************************)
(* Waiting for a device that answers in its own time: start_cmd, sync_cmd,  *)
(* process_completions by polling and by MSI-X, create_io_queue_pair and    *)
(* cc_disable of lone/nvme/device/__init__.py, and the event descriptors of *)
(* lone/system/linux/vfio.py.  The admin queue pair is 0, there is one I/O  *)
(* queue pair, 1.                                                           *)
(*                                                                          *)
(* A call that waits is a pass over queues, one get_completion or one read  *)
(* of an event count a step, repeated until it found enough or its time is  *)
(* over; when that is is left open, and so is CFS, which ends a call in the *)
(* same way.  Rings, identifiers and phases are the subject of QueuePair:   *)
(* here a completion queue is a sequence and a command its own identifier.  *)
(***************************************************************************)
EXTENDS Naturals, Sequences, FiniteSets, SequencesExt

CONSTANTS
    Bulky,      \* of the user's commands, those with two pages of data, whose copying
                \* raises (DeviceMemory)
    Vectors,    \* interrupt vectors of the drive, 0 .. n
    MaxStarts,  \* bounds of the model: on commands, and on commands, set-ups of
    MaxCalls    \* MSI-X and disables together

(* Command objects of the user, in the order he starts them, and those of   *)
(* create_io_queue_pair.                                                    *)
Cmds == 1 .. MaxStarts
CreateCq == MaxStarts + 1
CreateSq == MaxStarts + 2
CreateCmds == {CreateCq, CreateSq}
Objects == Cmds \union CreateCmds
NoCmd == 0

ASSUME BulkyAssumption == Bulky \subseteq Cmds
ASSUME VectorsAssumption == IsFiniteSet(Vectors) /\ Vectors # {} /\ Vectors = 0 .. Cardinality(Vectors) - 1
ASSUME BoundsAssumption == MaxStarts \in Nat /\ MaxCalls \in Nat

VARIABLES
    irq,          \* msix: int_type; num: num_msix_vectors; fds: len(eventfds);
                  \* trigger: the kernel's descriptor for each vector, from 1, or 0
    signalled,    \* descriptors with a count
    flying,       \* interrupts on their way
    queue,        \* the pairs: there; vec (int_vector); iv (the controller's); cqes
    state,        \* of each command object: new, posted or complete
    at,           \* queue of each command object
    device,       \* commands the device has not answered
    outstanding,  \* outstanding_commands
    call,         \* the user's call
    result,       \* how the last call ended, and what it was up against
    orderly,      \* one MSI-X set-up, in time, and a vector of its own for each queue
    starts,       \* commands started so far
    calls         \* set-ups of MSI-X and disables so far

devVars == <<irq, signalled, flying, queue, state, at, device, outstanding, call, result, orderly, starts, calls>>

Queues == 0 .. 1
NoPair == [there |-> FALSE, vec |-> 0, iv |-> 0, cqes |-> <<>>]
NewPair(vec, iv) == [there |-> TRUE, vec |-> vec, iv |-> iv, cqes |-> <<>>]
EnabledQueues == [q \in Queues |-> IF q = 0 THEN NewPair(0, 0) ELSE NoPair]

(* get_cqs, as identifiers; the admin pair is always there.                 *)
GetCqs == IF queue[1].there THEN <<0, 1>> ELSE <<0>>

Idle == [fn |-> "none"]
NoResult == [out |-> "ok", others |-> FALSE, inTime |-> FALSE]

(* An open, enabled device that is polled.                                  *)
DevInit ==
    /\ irq = [msix |-> FALSE, num |-> 0, fds |-> 0, trigger |-> [v \in Vectors |-> 0]]
    /\ signalled = {} /\ flying = {}
    /\ queue = EnabledQueues
    /\ state = [c \in Objects |-> "new"] /\ at = [c \in Objects |-> 0]
    /\ device = {} /\ outstanding = {}
    /\ call = Idle
    /\ result = NoResult
    /\ orderly = TRUE
    /\ starts = 0 /\ calls = 0

InQueue(c) == queue[at[c]].there /\ Contains(queue[at[c]].cqes, c)

-----------------------------------------------------------------------------
(* The device answers in any order, and interrupts once vfio enabled it; an *)
(* interrupt for a vector without a descriptor is lost.                     *)
DeviceAnswers(c) ==
    /\ c \in device
    /\ device' = device \ {c}
    /\ queue' = [queue EXCEPT ![at[c]].cqes = Append(@, c)]
    /\ flying' = IF irq.msix THEN flying \union {queue[at[c]].iv} ELSE flying
    /\ UNCHANGED <<irq, signalled, state, at, outstanding, call, result, orderly, starts, calls>>

Deliver(v) ==
    /\ v \in flying
    /\ flying' = flying \ {v}
    /\ signalled' = IF irq.trigger[v] = 0 THEN signalled ELSE signalled \union {irq.trigger[v]}
    /\ UNCHANGED <<irq, queue, state, at, device, outstanding, call, result, orderly, starts, calls>>

-----------------------------------------------------------------------------
(* start_cmd.  An object that is or was with a device is refused.           *)
MayStart(c) == state[c] = "new"

Submit(c, q) ==
    /\ state' = [state EXCEPT ![c] = "posted"]
    /\ at' = [at EXCEPT ![c] = q]
    /\ device' = device \union {c}
    /\ outstanding' = outstanding \union {c}

Others(q) == \E o \in outstanding : at[o] = q

(* A call that waits: for command c, or for any of the queues qs.           *)
Wait(fn, c, qs, max, iv) ==
    [fn |-> fn, c |-> c, qs |-> qs, todo |-> qs, found |-> 0, max |-> max, drain |-> FALSE,
     iv |-> iv, others |-> c # NoCmd /\ Others(Head(qs)), inTime |-> FALSE]

EndCall(out) ==
    /\ call' = Idle
    /\ result' = [out |-> out, others |-> call.others, inTime |-> call.inTime]

Refuse ==
    /\ result' = [NoResult EXCEPT !.out = "refused"]
    /\ UNCHANGED <<irq, signalled, flying, queue, state, at, device, outstanding, call, orderly>>

UserCalls == call = Idle

Start(q, fn) ==
    LET c == starts + 1
    IN  /\ UserCalls /\ c \in Cmds /\ c + calls <= MaxCalls /\ queue[q].there
        /\ starts' = c
        /\ Submit(c, q)
        /\ call' = IF fn = "sync_cmd" THEN Wait(fn, c, <<q>>, 1, 0) ELSE Idle
        /\ orderly' = (orderly /\ c \notin Bulky)
        /\ result' = NoResult
        /\ UNCHANGED <<irq, signalled, flying, queue, calls>>

(* An object that is with the device, completed, or was with the device     *)
(* when it was disabled.                                                    *)
StartAgain(c) ==
    /\ UserCalls /\ ~MayStart(c)
    /\ Refuse
    /\ UNCHANGED <<starts, calls>>

(* process_completions over one queue, or over all.                         *)
Process(qs, max) ==
    /\ UserCalls
    /\ call' = Wait("process_completions", NoCmd, qs, max, 0)
    /\ result' = NoResult
    /\ UNCHANGED <<irq, signalled, flying, queue, state, at, device, outstanding, orderly, starts, calls>>

ProcessAll == Process(GetCqs, 1)

(* init_msix_interrupts.  Descriptors are appended; the kernel replaces the *)
(* triggers of the vectors.  More vectors than it set up at first may be    *)
(* refused, after all but int_type has changed.                             *)
InitMsix(num, start, refused) ==
    /\ UserCalls /\ starts + calls < MaxCalls
    /\ start + num - 1 \in Vectors
    /\ refused => irq.msix /\ start + num > irq.num
    /\ calls' = calls + 1
    /\ irq' = [msix |-> TRUE, num |-> start + num, fds |-> irq.fds + num,
               trigger |-> [v \in Vectors |->
                   IF ~refused /\ v \in start .. start + num - 1 THEN irq.fds + v - start + 1
                   ELSE irq.trigger[v]]]
    /\ orderly' = (orderly /\ ~irq.msix /\ start = 0 /\ outstanding = {} /\ ~queue[1].there)
    /\ UNCHANGED <<signalled, flying, queue, state, at, device, outstanding, call, result, starts>>

(* create_io_queue_pair, until it waits for the first of its commands.      *)
(* While polling any vector is taken, and none is told to the controller.   *)
CreatePair(iv) ==
    /\ UserCalls /\ ~queue[1].there /\ state[CreateCq] = "new"
    /\ IF irq.msix /\ iv > irq.num
       THEN Refuse
       ELSE /\ Submit(CreateCq, 0)
            /\ call' = Wait("create_io_queue_pair", CreateCq, <<0>>, 1, iv)
            /\ orderly' = (orderly /\ (irq.msix => iv \in 1 .. irq.num - 1))
            /\ result' = NoResult
            /\ UNCHANGED <<irq, signalled, flying, queue>>
    /\ UNCHANGED <<starts, calls>>

(* cc_disable, init_admin_queues, cc_enable.  Commands of the user stay     *)
(* marked as posted.                                                        *)
Disable ==
    /\ UserCalls /\ starts + calls < MaxCalls
    /\ calls' = calls + 1
    /\ queue' = EnabledQueues
    /\ device' = {} /\ outstanding' = {}
    /\ state' = [c \in Objects |-> IF c \in CreateCmds THEN "new" ELSE state[c]]
    /\ UNCHANGED <<irq, signalled, flying, at, call, result, orderly, starts>>

-----------------------------------------------------------------------------
(* Fault: one completion an interrupt.                                      *)
AfterTakeMovesOn == [call EXCEPT !.found = @ + 1, !.todo = Tail(@), !.drain = FALSE]

(* Polling takes one completion of a queue and goes on to the next, MSI-X   *)
(* all there are.                                                           *)
AfterTake ==
    IF irq.msix THEN [call EXCEPT !.found = @ + 1]
    ELSE [call EXCEPT !.found = @ + 1, !.todo = Tail(@)]

(* Fault: the command stays in outstanding_commands.                        *)
KeptOutstanding(c) == outstanding

NoMoreOutstanding(c) == outstanding \ {c}

(* get_completion where there is one, and complete_command.  If copying the *)
(* data raises the command is no longer outstanding, but the completion     *)
(* stays; the next look at it finds no command.                             *)
Take(q) ==
    LET c == Head(queue[q].cqes)
    IN  /\ IF c \notin outstanding
           THEN EndCall("raised") /\ UNCHANGED <<queue, state, outstanding>>
           ELSE /\ state' = [state EXCEPT ![c] = "complete"]
                /\ outstanding' = NoMoreOutstanding(c)
                /\ IF c \in Bulky
                   THEN EndCall("raised") /\ UNCHANGED queue
                   ELSE /\ queue' = [queue EXCEPT ![q].cqes = Tail(@)]
                        /\ call' = AfterTake
                        /\ UNCHANGED result
        /\ UNCHANGED <<irq, signalled, flying, at, device, orderly, starts, calls>>

Waiting == call # Idle
Goes(c) == call' = c /\ UNCHANGED <<irq, flying, queue, state, at, device, outstanding, result, orderly, starts, calls>>
NextQueue == [call EXCEPT !.todo = Tail(@), !.drain = FALSE]

(* poll_cq_completions.                                                     *)
Look ==
    /\ Waiting /\ ~irq.msix /\ call.todo # <<>>
    /\ IF queue[Head(call.todo)].cqes # <<>> THEN Take(Head(call.todo))
       ELSE Goes(NextQueue) /\ UNCHANGED signalled

(* get_msix_completions: reading the count of the queue's vector clears it. *)
ReadCount ==
    /\ Waiting /\ irq.msix /\ call.todo # <<>> /\ ~call.drain
    /\ LET fd == queue[Head(call.todo)].vec + 1
       IN  \/ /\ fd > irq.fds   \* IndexError
              /\ EndCall("raised")
              /\ UNCHANGED <<irq, signalled, flying, queue, state, at, device, outstanding, orderly, starts, calls>>
           \/ /\ fd \in signalled
              /\ signalled' = signalled \ {fd}
              /\ Goes([call EXCEPT !.drain = TRUE])
           \/ /\ fd <= irq.fds /\ fd \notin signalled
              /\ Goes(NextQueue) /\ UNCHANGED signalled

Drain ==
    /\ Waiting /\ irq.msix /\ call.todo # <<>> /\ call.drain
    /\ IF queue[Head(call.todo)].cqes # <<>> THEN Take(Head(call.todo))
       ELSE Goes(NextQueue) /\ UNCHANGED signalled

(* What can be found in a pass that begins now.                             *)
Visible(c) ==
    /\ c # NoCmd /\ InQueue(c)
    /\ irq.msix => queue[at[c]].iv \notin flying

PassAgain ==
    /\ Waiting /\ call.todo = <<>> /\ call.found < call.max
    /\ Goes([call EXCEPT !.todo = call.qs, !.inTime = Visible(call.c)])
    /\ UNCHANGED signalled

(* Enough was found, or time is over.  What comes after the wait: the       *)
(* assertion of sync_cmd, and the second half of create_io_queue_pair.      *)
Completed == call.c \in Objects => state[call.c] = "complete"

PassReturns ==
    /\ Waiting /\ call.todo = <<>>
    /\ \/ /\ ~Completed
          /\ EndCall("not complete")
          /\ UNCHANGED <<queue, state, at, device, outstanding>>
       \/ /\ Completed /\ call.c = CreateCq
          /\ Submit(CreateSq, 0)
          /\ call' = Wait(call.fn, CreateSq, <<0>>, 1, call.iv)
          /\ UNCHANGED <<queue, result>>
       \/ /\ Completed /\ call.c # CreateCq
          /\ queue' = IF call.c = CreateSq
                      THEN [queue EXCEPT ![1] = NewPair(call.iv, IF irq.msix THEN call.iv ELSE 0)]
                      ELSE queue
          /\ EndCall("ok")
          /\ UNCHANGED <<state, at, device, outstanding>>
    /\ UNCHANGED <<irq, signalled, flying, orderly, starts, calls>>

WaitStep == Look \/ ReadCount \/ Drain \/ PassAgain \/ PassReturns

-----------------------------------------------------------------------------
UserStep ==
    \/ \E q \in Queues, fn \in {"start_cmd", "sync_cmd"} : Start(q, fn)
    \/ \E c \in Cmds : StartAgain(c)
    \/ ProcessAll
    \/ \E q \in Queues : queue[q].there /\ Process(<<q>>, 1)
    \/ \E num \in 1 .. Cardinality(Vectors), start \in {0, 1}, refused \in BOOLEAN : InitMsix(num, start, refused)
    \/ \E iv \in Vectors : CreatePair(iv)
    \/ Disable
    \/ WaitStep

DevNext ==
    \/ UserStep
    \/ \E c \in Objects : DeviceAnswers(c)
    \/ \E v \in Vectors : Deliver(v)

-----------------------------------------------------------------------------
(* With the types: what the device has is in outstanding_commands, and what  *)
(* is there was posted by start_cmd on a queue that exists.                   *)
DevTypeOK ==
    /\ irq.msix \in BOOLEAN /\ irq.num \in Nat /\ irq.trigger \in [Vectors -> 0 .. irq.fds]
    /\ signalled \subseteq 1 .. irq.fds /\ flying \subseteq Vectors
    /\ \A q \in Queues : queue[q].cqes \in Seq(Objects) /\ queue[q].vec \in Vectors
    /\ state \in [Objects -> {"new", "posted", "complete"}] /\ at \in [Objects -> Queues]
    /\ device \subseteq outstanding
    /\ \A c \in outstanding : state[c] = "posted" /\ queue[at[c]].there
    /\ Waiting => \A i \in 1 .. Len(call.todo) : queue[call.todo[i]].there
    /\ starts + calls <= MaxCalls
    /\ result.out \in {"ok", "refused", "not complete", "raised"}
    /\ orderly \in BOOLEAN

(* Where MSI-X is not used, or was set up once, before all commands and I/O *)
(* queues and with a vector for each queue: no call fails in the middle,    *)
(* and sync_cmd and create_io_queue_pair give up only on a completion that   *)
(* is late, or because there were other commands on the queue.              *)
GivesUpOnlyWhenLate ==
    orderly => /\ result.out # "raised"
               /\ result.out = "not complete" => result.others \/ ~result.inTime

(* Then process_completions, polling or by MSI-X, takes every completion out *)
(* of its queue, whatever order device, interrupts and timeouts come in.      *)
CompletionsAreCollected ==
    \A c \in Cmds : (orderly /\ InQueue(c)) ~> (~InQueue(c) \/ ~orderly)
=============================================================================

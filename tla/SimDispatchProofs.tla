--------------------------- MODULE SimDispatchProofs ---------------------------
(***************************************************************************)
(* Proofs about SimDispatch while its two threads take turns: for every     *)
(* set of commands, every size of both queues, every CID range and every    *)
(* number of commands of one call.                                          *)
(***************************************************************************)
EXTENDS SimDispatch, QueuePairProofs, FiniteSetTheorems

(***************************************************************************)
(* Where the command of a call of post_command is.                          *)
(***************************************************************************)

(* The entry post_command wrote for the command being started.              *)
Entry == [cid |-> cid[starting], cmd |-> starting]

(* The submission queue holds a command only while the host's thread has    *)
(* not fetched it.  The simulator's thread comes after that and always      *)
(* finds the queue empty: its thread never gets to a handler.               *)
InQueue == devSqHead # sqTail

ControlInv ==
    /\ pc["host"] = "out" \/ pc["sim"] = "out"
    /\ pc["sim"] \in {"out", "scan", "test", "done"}
    /\ pc["sim"] = "test" => kind = "admin"
    /\ starting = NoCmd <=> pc["host"] = "out"
    /\ starting # NoCmd => cid[starting] \in Cids
    /\ pc["host"] \in {"scan", "read", "load", "store"} => InQueue
    /\ InQueue => /\ pc["host"] \in {"scan", "test", "read", "load", "store"}
                  /\ Peek(devSqHead, SQEntries) = sqTail
                  /\ sqe[devSqHead] = Entry
    /\ kind = "io" /\ pc["host"] \in {"read", "load", "store", "handle", "raised", "cq load", "cq store"}
         => budget["host"] = 1
    /\ kind = "io" /\ pc["host"] = "test" => budget["host"] = IF InQueue THEN 1 ELSE 0
    /\ unit["sim"] = Idle
    /\ unit["host"] = IF pc["host"] \in {"load", "store", "handle", "raised"} THEN Entry ELSE Idle
    /\ pc["host"] = "store" => loaded["host"] = devSqHead
    /\ pc["host"] = "cq store" => loaded["host"] = devCqTail
    /\ pc["host"] = "raised" => CqFull
    /\ pc["host"] \in {"cq load", "cq store"} => ~CqFull

(***************************************************************************)
(* The completions the host has not consumed, the one being posted included, *)
(* are in the order in which their commands were started and were handed    *)
(* their CIDs.                                                              *)
(***************************************************************************)
Answered(i) == Holds(i, cqHead, PostedTail, CQEntries)

(* Commands the host counts as being in the submission queue.               *)
Window == Dist(sqHead, sqTail, SQEntries)

(* How many CIDs were handed out since k was, k included, if next is next.  *)
AgeAt(k, next) == IF k < next THEN next - k ELSE next - k + (CidMax - CidInit)

PhasesInv ==
    \A i \in CqSlots : cqe[i].p = IF Answered(i) THEN LapPhase(i) ELSE 1 - LapPhase(i)

PlacesInv ==
    /\ Dist(sqHead, devSqHead, SQEntries)
         = Dist(cqHead, PostedTail, CQEntries) + IF InHandler("host") THEN 1 ELSE 0
    /\ \A i \in CqSlots : Answered(i) =>
         Dist(sqHead, cqe[i].sqhd, SQEntries) = Dist(cqHead, i, CQEntries) + 1

(* Keys of outstanding_commands, command objects and completions match, in  *)
(* both directions.                                                         *)
KeysInv ==
    /\ \A k \in Cids : Recorded[k] # NoCmd =>
         /\ cid[Recorded[k]] = k
         /\ posted[Recorded[k]] \/ Recorded[k] = starting
         /\ Recorded[k] # starting => \E i \in CqSlots : PendingCq(i) /\ cqe[i].cid = k
    /\ starting # NoCmd => outstanding[cid[starting]] = NoCmd
    /\ \A c \in Commands : posted[c] => cid[c] \in Cids /\ Recorded[cid[c]] = c
    /\ \A i \in CqSlots : Answered(i) =>
         cqe[i].cid \in Cids /\ cqe[i].cmd \in Commands /\ Recorded[cqe[i].cid] = cqe[i].cmd

AgesInv ==
    /\ \A k \in Cids : Recorded[k] # NoCmd => AgeAt(k, nextCid) <= Window
    /\ \A i \in CqSlots : Answered(i) => AgeAt(cqe[i].cid, nextCid) + Dist(cqHead, i, CQEntries) = Window
    /\ starting # NoCmd => AgeAt(cid[starting], nextCid) = 1

AnswersInv == PhasesInv /\ PlacesInv /\ KeysInv /\ AgesInv
SerialInv == DispatchTypeOK /\ ControlInv /\ AnswersInv
-----------------------------------------------------------------------------
(* What num_entries of the submission queue is, by the ring arithmetic.     *)
LEMMA CountFacts ==
    ASSUME DispatchTypeOK, ControlInv
    PROVE  /\ SqCount = IF InQueue THEN 1 ELSE 0
           /\ SqEmpty <=> ~InQueue
<1>1. /\ SQEntries \in Nat \ {0} /\ devSqHead \in Slots(SQEntries) /\ sqTail \in Slots(SQEntries)
  BY SlotFacts DEF DispatchTypeOK
<1>2. SqCount = Dist(devSqHead, sqTail, SQEntries)
  BY <1>1, NumEntriesIsDist DEF SqCount
<1>3. CASE InQueue
  <2>1. Peek(devSqHead, SQEntries) = sqTail /\ devSqHead # sqTail
    BY <1>3 DEF ControlInv, InQueue
  <2>2. Dist(devSqHead, sqTail, SQEntries) = 1
    BY <1>1, <2>1 DEF Dist, Peek, Slots
  <2> QED
    BY <1>2, <1>3, <2>2 DEF SqEmpty
<1>4. CASE ~InQueue
  BY <1>1, <1>2, <1>4 DEF InQueue, Dist, Slots, SqEmpty
<1> QED
  BY <1>3, <1>4

(* What the mapping of OneUnit sees of the two threads.                     *)
LEMMA ControlFacts ==
    ASSUME ControlInv
    PROVE  /\ Posting <=> pc["host"] \in {"cq load", "cq store"}
           /\ PostedTail = IF pc["host"] \in {"cq load", "cq store"} THEN Peek(devCqTail, CQEntries) ELSE devCqTail
           /\ Executing = IF InHandler("host") THEN Entry ELSE Idle
<1>1. Posting <=> pc["host"] \in {"cq load", "cq store"}
  BY DEF ControlInv, Posting, Threads
<1>2. \A t \in Threads : InHandler(t) <=> t = "host" /\ InHandler("host")
  BY DEF ControlInv, InHandler, Threads
<1>3. ASSUME InHandler("host") PROVE (CHOOSE t \in Threads : InHandler(t)) = "host"
  <2>1. "host" \in Threads
    BY DEF Threads
  <2> QED
    BY <1>2, <1>3, <2>1
<1>4. Executing = IF InHandler("host") THEN Entry ELSE Idle
  BY <1>2, <1>3 DEF Executing, ControlInv, InHandler, Threads
<1> QED
  BY <1>1, <1>4 DEF PostedTail

(* A handler of the host's thread raises on a full queue only: the command  *)
(* is never the zeroed one.                                                 *)
LEMMA RaiseFacts ==
    ASSUME ControlInv, pc["host"] \in {"handle", "raised"}
    PROVE  /\ HandlerRaises("host") <=> CqFull
           /\ unit["host"] = Entry /\ Entry # Idle
<1>1. unit["host"] = Entry /\ starting # NoCmd
  BY DEF ControlInv
<1>2. Entry # ZeroSqe
  BY <1>1 DEF Entry, ZeroSqe
<1> QED
  BY <1>1, <1>2 DEF HandlerRaises, DeletesAdminQueue, Idle

(* The simulator's thread comes and goes, and changes nothing.              *)
SimThread == CheckCommands("sim") \/ SimCalls \/ SimReturns

LEMMA SimStep ==
    ASSUME DispatchTypeOK, ControlInv, SimThread, Serial'
    PROVE  /\ UNCHANGED <<vars, loaded, starting, kind>>
           /\ pc["host"] = "out"
           /\ \E to \in {"out", "scan", "test", "done"} : pc' = [pc EXCEPT !["sim"] = to] /\ (to = "test" => kind = "admin")
           /\ budget' \in [Threads -> 0 .. MaxPerLoop]
<1>0. pc \in [Threads -> {"out", "scan", "test", "read", "load", "store", "handle",
                           "cq load", "cq store", "done", "raised"}]
  BY DEF DispatchTypeOK
<1>1. pc["host"] = "out"
  <2>1. CASE pc["sim"] # "out"
    BY <2>1 DEF ControlInv
  <2>2. CASE pc["sim"] = "out"
    <3>1. pc' = [pc EXCEPT !["sim"] = "scan"]
      BY <2>2 DEF SimThread, CheckCommands, SimCalls, SimReturns, Scan, Test, Read, Load, Store,
             Handle, Raise, CqLoad, CqStore, Goes
    <3> QED
      BY <1>0, <3>1 DEF Serial, Threads
  <2> QED
    BY <2>1, <2>2
<1>2. ~(Read("sim") \/ Load("sim") \/ Store("sim") \/ Handle("sim") \/ Raise("sim")
          \/ CqLoad("sim") \/ CqStore("sim"))
  BY DEF ControlInv, Read, Load, Store, Handle, Raise, CqLoad, CqStore, Goes
<1>3. ~InQueue
  BY <1>1 DEF ControlInv
<1>4. CASE SimCalls \/ SimReturns
  BY <1>1, <1>4 DEF SimCalls, SimReturns, DispatchTypeOK, Goes
<1>5. CASE Scan("sim")
  <2>1. SqCount = 0
    BY <1>3, CountFacts
  <2>2. budget' \in [Threads -> 0 .. MaxPerLoop]
    <3>1. (IF kind = "admin" THEN 0 ELSE IF SqCount < MaxPerLoop THEN SqCount ELSE MaxPerLoop)
            \in 0 .. MaxPerLoop
      BY <2>1, MaxPerLoopAssumption
    <3>2. budget \in [Threads -> 0 .. MaxPerLoop]
      BY DEF DispatchTypeOK
    <3> QED
      BY <1>5, <3>1, <3>2 DEF Scan
  <2> QED
    BY <1>1, <1>5, <2>1, <2>2 DEF Scan, DispatchTypeOK, Goes
<1>6. CASE Test("sim")
  BY <1>1, <1>3, <1>6, CountFacts DEF Test, DispatchTypeOK, Goes, ControlInv
<1> QED
  BY <1>2, <1>4, <1>5, <1>6 DEF SimThread, CheckCommands
-----------------------------------------------------------------------------
(* The host's thread, one step of check_commands at a time: types and       *)
(* control.                                                                 *)
LEMMA HostThreadControl ==
    ASSUME DispatchTypeOK, ControlInv, CheckCommands("host"), Serial'
    PROVE  DispatchTypeOK' /\ ControlInv'
<1>0. /\ TypeOK /\ "host" \in Threads
      /\ Peek(devSqHead, SQEntries) \in SqSlots /\ Peek(devCqTail, CQEntries) \in CqSlots
  BY SlotFacts DEF DispatchTypeOK, Threads
<1>1. pc["sim"] = "out" /\ pc["host"] # "out" /\ starting # NoCmd /\ starting \in Commands
  BY DEF ControlInv, CheckCommands, Scan, Test, Read, Load, Store, Handle, Raise,
         CqLoad, CqStore, Goes, DispatchTypeOK
<1> USE DEF Goes
<1>2. CASE Scan("host")
  <2>1. SqCount = 1 /\ InQueue /\ pc["host"] = "scan"
    BY <1>2, CountFacts DEF Scan, ControlInv
  <2>2. /\ pc' = [pc EXCEPT !["host"] = "test"]
        /\ budget' = [budget EXCEPT !["host"] = IF kind = "admin" THEN 0 ELSE 1]
        /\ UNCHANGED <<vars, kind, loaded, starting>>
    <3>1. (IF SqCount < MaxPerLoop THEN SqCount ELSE MaxPerLoop) = 1
      BY <2>1, MaxPerLoopAssumption
    <3>2. ~(kind = "io" /\ SqCount = 0)
      BY <2>1
    <3> QED
      BY <1>2, <3>1, <3>2, Zenon DEF Scan
  <2>3. (IF kind = "admin" THEN 0 ELSE 1) \in 0 .. MaxPerLoop
    BY MaxPerLoopAssumption
  <2>4. DispatchTypeOK'
    BY <2>2, <2>3 DEF DispatchTypeOK, TypeOK, vars, hostVars, sqVars, cqVars, devVars
  <2>5. pc'["host"] = "test" /\ pc'["sim"] = "out" /\ budget'["host"] = IF kind = "admin" THEN 0 ELSE 1
    BY <1>0, <1>1, <2>2 DEF DispatchTypeOK, Threads
  <2>6. ControlInv'
    BY <1>1, <2>1, <2>2, <2>5
    DEF ControlInv, InQueue, Entry, CqFull, vars, hostVars, sqVars, cqVars, devVars
  <2> QED
    BY <2>4, <2>6
<1>3. CASE Test("host")
  <2>1. pc["host"] = "test" /\ UNCHANGED <<vars, kind, loaded, budget, starting>>
    BY <1>3 DEF Test
  <2>2. pc' = [pc EXCEPT !["host"] = IF InQueue THEN "read" ELSE "done"]
    <3>1. SqEmpty <=> ~InQueue
      BY CountFacts
    <3>2. InQueue => LoopGoesOn("host")
      <4> SUFFICES ASSUME InQueue, kind # "admin" PROVE budget["host"] > 0
        BY DEF LoopGoesOn
      <4>1. kind = "io"
        BY DEF DispatchTypeOK
      <4>2. budget["host"] = 1
        BY <2>1, <4>1 DEF ControlInv
      <4> QED
        BY <4>2
    <3>3. ASSUME ~InQueue, kind = "io" PROVE ~LoopGoesOn("host")
      <4>1. budget["host"] = 0
        BY <2>1, <3>3 DEF ControlInv
      <4> QED
        BY <3>3, <4>1 DEF LoopGoesOn
    <3> DEFINE to == IF LoopGoesOn("host") /\ ~SqEmpty THEN "read"
                     ELSE IF LoopGoesOn("host") /\ kind = "io" THEN "test" ELSE "done"
    <3>4. to = IF InQueue THEN "read" ELSE "done"
      BY <3>1, <3>2, <3>3
    <3>5. pc' = [pc EXCEPT !["host"] = to]
      BY <1>3 DEF Test
    <3> HIDE DEF to
    <3> QED
      BY <3>4, <3>5
  <2>3. DispatchTypeOK'
    BY <2>1, <2>2 DEF DispatchTypeOK, TypeOK, vars, hostVars, sqVars, cqVars, devVars
  <2>4. pc'["host"] = (IF InQueue THEN "read" ELSE "done") /\ pc'["sim"] = "out"
    BY <1>0, <1>1, <2>2 DEF DispatchTypeOK, Threads
  <2>5. ControlInv'
    BY <1>1, <2>1, <2>4 DEF ControlInv, InQueue, Entry, CqFull, vars, hostVars, sqVars, cqVars, devVars
  <2> QED
    BY <2>3, <2>5
<1>4. CASE Read("host")
  <2>1. /\ pc["host"] = "read" /\ pc' = [pc EXCEPT !["host"] = "load"]
        /\ unit' = [unit EXCEPT !["host"] = Entry]
        /\ UNCHANGED <<hostVars, sqVars, cqVars, devSqHead, devCqTail, kind, loaded, budget, starting>>
    BY <1>4 DEF Read, ControlInv
  <2>2. sqe[devSqHead] \in Sqe /\ sqe[devSqHead] = Entry
    BY <2>1 DEF ControlInv, DispatchTypeOK, TypeOK
  <2>3. DispatchTypeOK'
    BY <2>1, <2>2 DEF DispatchTypeOK, TypeOK, hostVars, sqVars, cqVars
  <2>4. pc'["host"] = "load" /\ pc'["sim"] = "out" /\ unit'["host"] = Entry /\ unit'["sim"] = unit["sim"]
    BY <1>0, <1>1, <2>1, ThreadsAssumption DEF DispatchTypeOK, TypeOK, Threads
  <2>5. ControlInv'
    BY <1>1, <2>1, <2>4 DEF ControlInv, InQueue, Entry, CqFull, hostVars, sqVars, cqVars
  <2> QED
    BY <2>3, <2>5
<1>5. CASE Load("host")
  <2>1. DispatchTypeOK'
    BY <1>0, <1>1, <1>5, CountFacts, MaxPerLoopAssumption
    DEF Load, Goes, DispatchTypeOK, TypeOK, vars, hostVars, sqVars, cqVars, devVars
  <2>2. ControlInv'
    BY <1>0, <1>1, <1>5, CountFacts, RaiseFacts, MaxPerLoopAssumption
    DEF Load, Goes, ControlInv, InQueue, Entry, CqFull, vars, hostVars, sqVars, cqVars, devVars, DispatchTypeOK, TypeOK, Threads
  <2> QED
    BY <2>1, <2>2
<1>6. CASE Store("host")
  <2>1. /\ pc["host"] = "store" /\ pc' = [pc EXCEPT !["host"] = "handle"]
        /\ devSqHead' = Peek(devSqHead, SQEntries)
        /\ UNCHANGED <<hostVars, sqVars, cqVars, devCqTail, unit, kind, loaded, budget, starting>>
    BY <1>6 DEF Store, SqNext, ControlInv
  <2>2. InQueue /\ Peek(devSqHead, SQEntries) = sqTail
    BY <2>1 DEF ControlInv
  <2>3. DispatchTypeOK'
    BY <1>0, <2>1 DEF DispatchTypeOK, TypeOK, hostVars, sqVars, cqVars
  <2>4. pc'["host"] = "handle" /\ pc'["sim"] = "out" /\ ~InQueue'
    BY <1>0, <1>1, <2>1, <2>2 DEF DispatchTypeOK, Threads, InQueue, sqVars
  <2>5. ControlInv'
    BY <1>1, <2>1, <2>4 DEF ControlInv, Entry, CqFull, hostVars, sqVars, cqVars
  <2> QED
    BY <2>3, <2>5
<1>7. CASE Handle("host")
  <2>1. /\ pc["host"] = "handle" /\ pc' = [pc EXCEPT !["host"] = "cq load"]
        /\ ~HandlerRaises("host")
        /\ cqe' = [cqe EXCEPT ![devCqTail] = CqeOf("host")]
        /\ unit' = [unit EXCEPT !["host"] = Idle]
        /\ UNCHANGED <<hostVars, sqVars, cqHead, devSqHead, devCqTail, kind, loaded, budget, starting>>
    BY <1>7 DEF Handle
  <2>2. CqeOf("host") \in Cqe /\ Idle \in Sqe
    BY <1>0, ThreadsAssumption DEF CqeOf, Cqe, Sqe, TypeOK, Idle, ZeroSqe
  <2>3. DispatchTypeOK'
    BY <2>1, <2>2 DEF DispatchTypeOK, TypeOK, hostVars, sqVars
  <2>4. /\ pc'["host"] = "cq load" /\ pc'["sim"] = "out"
        /\ unit'["host"] = Idle /\ unit'["sim"] = unit["sim"]
    BY <1>0, <1>1, <2>1, ThreadsAssumption DEF DispatchTypeOK, TypeOK, Threads
  <2>5. ~CqFull
    BY <2>1, RaiseFacts
  <2>6. ControlInv'
    BY <1>1, <2>1, <2>4, <2>5 DEF ControlInv, InQueue, Entry, CqFull, hostVars, sqVars
  <2> QED
    BY <2>3, <2>6
<1>8. CASE Raise("host")
  <2>1. DispatchTypeOK'
    BY <1>0, <1>1, <1>8, CountFacts, MaxPerLoopAssumption
    DEF Raise, Goes, DispatchTypeOK, TypeOK, vars, hostVars, sqVars, cqVars, devVars
  <2>2. ControlInv'
    BY <1>0, <1>1, <1>8, CountFacts, RaiseFacts, MaxPerLoopAssumption
    DEF Raise, Goes, ControlInv, InQueue, Entry, CqFull, vars, hostVars, sqVars, cqVars, devVars, DispatchTypeOK, TypeOK, Threads
  <2> QED
    BY <2>1, <2>2
<1>9. CASE CqLoad("host")
  <2>1. DispatchTypeOK'
    BY <1>0, <1>1, <1>9, CountFacts, MaxPerLoopAssumption
    DEF CqLoad, Goes, DispatchTypeOK, TypeOK, vars, hostVars, sqVars, cqVars, devVars
  <2>2. ControlInv'
    BY <1>0, <1>1, <1>9, CountFacts, RaiseFacts, MaxPerLoopAssumption
    DEF CqLoad, Goes, ControlInv, InQueue, Entry, CqFull, vars, hostVars, sqVars, cqVars, devVars, DispatchTypeOK, TypeOK, Threads
  <2> QED
    BY <2>1, <2>2
<1>10. CASE CqStore("host")
  <2>1. /\ pc["host"] = "cq store" /\ pc' = [pc EXCEPT !["host"] = "test"]
        /\ devCqTail' = Peek(devCqTail, CQEntries)
        /\ budget' = [budget EXCEPT !["host"] = IF kind = "io" THEN 0 ELSE budget["host"]]
        /\ UNCHANGED <<hostVars, sqVars, cqVars, devSqHead, unit, kind, loaded, starting>>
    <3>1. pc["host"] = "cq store" /\ (kind = "io" => budget["host"] = 1) /\ loaded["host"] = devCqTail
      BY <1>10 DEF CqStore, ControlInv
    <3>2. CASE kind = "io"
      <4>0. budget["host"] = 1
        BY <3>1, <3>2
      <4>1. budget["host"] - 1 = 0
        BY <4>0
      <4>2. budget' = [budget EXCEPT !["host"] = budget["host"] - 1]
        BY <1>10, <3>2 DEF CqStore
      <4> QED
        BY <1>10, <3>1, <3>2, <4>1, <4>2 DEF CqStore
    <3>3. CASE kind # "io"
      BY <1>10, <3>1, <3>3 DEF CqStore
    <3> QED
      BY <3>2, <3>3
  <2>2. 0 \in 0 .. MaxPerLoop
    BY MaxPerLoopAssumption
  <2>3. DispatchTypeOK'
    BY <1>0, <2>1, <2>2 DEF DispatchTypeOK, TypeOK, hostVars, sqVars, cqVars
  <2>4. /\ pc'["host"] = "test" /\ pc'["sim"] = "out"
        /\ kind = "io" => budget'["host"] = 0
    BY <1>0, <1>1, <2>1 DEF DispatchTypeOK, Threads
  <2>5. ~InQueue
    BY <2>1 DEF ControlInv
  <2>6. ControlInv'
    BY <1>1, <2>1, <2>4, <2>5 DEF ControlInv, InQueue, Entry, hostVars, sqVars, cqVars
  <2> QED
    BY <2>3, <2>6
<1> QED
  BY <1>2, <1>3, <1>4, <1>5, <1>6, <1>7, <1>8, <1>9, <1>10 DEF CheckCommands

(* The host's own steps.                                                    *)
LEMMA PostCommandControl ==
    ASSUME DispatchTypeOK, ControlInv, NEW c \in Commands, PostCommand(c), Serial'
    PROVE  DispatchTypeOK' /\ ControlInv' /\ c # NoCmd /\ starting = NoCmd /\ pc'["host"] = "scan"
<1>1. /\ pc["host"] = "out" /\ pc' = [pc EXCEPT !["host"] = "scan"]
      /\ ~SqFull
      /\ nextCid' = CidAfter(nextCid)
      /\ cid' = [cid EXCEPT ![c] = nextCid]
      /\ sqe' = [sqe EXCEPT ![sqTail] = [cid |-> nextCid, cmd |-> c]]
      /\ sqTail' = Peek(sqTail, SQEntries)
      /\ starting' = c
      /\ UNCHANGED <<posted, complete, result, outstanding, sqHead, cqPhase>>
      /\ UNCHANGED <<cqVars, devVars, kind, loaded, budget>>
  BY DEF PostCommand, Goes
<1>2. TypeOK /\ "host" \in Threads /\ c # NoCmd /\ starting = NoCmd
  BY <1>1, NoCmdAssumption DEF DispatchTypeOK, Threads, ControlInv
<1>3. [cid |-> nextCid, cmd |-> c] \in Sqe /\ CidAfter(nextCid) \in Cids
      /\ Peek(sqTail, SQEntries) \in SqSlots
  BY <1>2, CidAfterInRange, SlotFacts DEF TypeOK, Sqe
<1>4. DispatchTypeOK'
  BY <1>1, <1>3 DEF DispatchTypeOK, TypeOK, cqVars, devVars
<1>5. pc'["host"] = "scan" /\ pc'["sim"] = "out"
  BY <1>1 DEF DispatchTypeOK, Threads, Serial
<1>6. devSqHead = sqTail /\ devSqHead' = sqTail
  BY <1>1 DEF ControlInv, InQueue, devVars
<1>7. InQueue'
  BY <1>1, <1>2, <1>6, SlotFacts DEF InQueue, SqFull, IsFull, Peek, Slots
<1>8. sqe'[devSqHead'] = Entry'
  BY <1>1, <1>2, <1>6 DEF Entry, TypeOK
<1>9. cid'[c] \in Cids
  BY <1>1, <1>2 DEF TypeOK
<1>10. ControlInv'
  BY <1>1, <1>2, <1>5, <1>6, <1>7, <1>8, <1>9 DEF ControlInv, devVars, cqVars
<1> QED
  BY <1>2, <1>4, <1>5, <1>10

LEMMA PostReturnsControl ==
    ASSUME DispatchTypeOK, ControlInv, PostReturns
    PROVE  DispatchTypeOK' /\ ControlInv' /\ starting \in Commands /\ pc["host"] = "done"
           /\ pc'["host"] = "out"
<1>1. /\ pc["host"] = "done" /\ pc' = [pc EXCEPT !["host"] = "out"]
      /\ outstanding' = [outstanding EXCEPT ![cid[starting]] = starting]
      /\ posted' = [posted EXCEPT ![starting] = TRUE]
      /\ starting' = NoCmd
      /\ UNCHANGED <<nextCid, cid, complete, result, sqHead, cqPhase>>
      /\ UNCHANGED <<sqVars, cqVars, devVars, kind, loaded, budget>>
  BY DEF PostReturns, Goes
<1>2. TypeOK /\ "host" \in Threads /\ starting \in Commands /\ ~InQueue /\ pc["sim"] = "out"
  BY <1>1 DEF DispatchTypeOK, Threads, ControlInv
<1>3. DispatchTypeOK'
  BY <1>1, <1>2 DEF DispatchTypeOK, TypeOK, sqVars, cqVars, devVars
<1>4. pc'["host"] = "out" /\ pc'["sim"] = "out"
  BY <1>1, <1>2 DEF DispatchTypeOK, Threads
<1>5. ControlInv'
  BY <1>1, <1>2, <1>4 DEF ControlInv, InQueue, sqVars, cqVars, devVars
<1> QED
  BY <1>1, <1>2, <1>3, <1>4, <1>5

LEMMA OtherCallControl ==
    ASSUME DispatchTypeOK, ControlInv, OtherCall
    PROVE  DispatchTypeOK' /\ ControlInv'
<1>1. TypeOK'
  BY TypeStep DEF OtherCall, Next, DispatchTypeOK
<1>2. /\ pc["host"] = "out" /\ UNCHANGED callVars
      /\ UNCHANGED <<nextCid, cid, sqe, sqTail, devSqHead, unit>>
  BY DEF OtherCall, ReuseCmd, GetCompletion, sqVars, cqVars, devVars
<1>3. DispatchTypeOK'
  BY <1>1, <1>2 DEF DispatchTypeOK, callVars
<1>4. ControlInv'
  BY <1>2 DEF ControlInv, InQueue, callVars
<1> QED
  BY <1>3, <1>4

LEMMA ControlStep ==
    ASSUME DispatchTypeOK, ControlInv, [SerialNext]_dispatchVars
    PROVE  DispatchTypeOK' /\ ControlInv'
<1>1. CASE UNCHANGED dispatchVars
  <2>1. DispatchTypeOK'
    BY <1>1 DEF DispatchTypeOK, TypeOK, dispatchVars, vars, hostVars, sqVars, cqVars, devVars, callVars
  <2>2. ControlInv'
    BY <1>1 DEF ControlInv, InQueue, Entry, CqFull, dispatchVars, vars, hostVars, sqVars, cqVars, devVars, callVars
  <2> QED
    BY <2>1, <2>2
<1>2. ASSUME SimThread, Serial' PROVE DispatchTypeOK' /\ ControlInv'
  <2>1. PICK to \in {"out", "scan", "test", "done"} :
          pc' = [pc EXCEPT !["sim"] = to] /\ (to = "test" => kind = "admin")
    BY <1>2, SimStep
  <2>2. /\ UNCHANGED <<vars, loaded, starting, kind>> /\ pc["host"] = "out"
        /\ budget' \in [Threads -> 0 .. MaxPerLoop]
    BY <1>2, SimStep
  <2>3. DispatchTypeOK'
    BY <2>1, <2>2 DEF DispatchTypeOK, TypeOK, vars, hostVars, sqVars, cqVars, devVars
  <2>4. pc'["host"] = "out" /\ pc'["sim"] = to
    BY <2>1, <2>2 DEF DispatchTypeOK, Threads
  <2>5. ControlInv'
    BY <2>1, <2>2, <2>4 DEF ControlInv, InQueue, vars, hostVars, sqVars, cqVars, devVars
  <2> QED
    BY <2>3, <2>5
<1> QED
  BY <1>1, <1>2, HostThreadControl, PostCommandControl, PostReturnsControl, OtherCallControl
  DEF SerialNext, DispatchNext, SimThread, Threads

LEMMA ControlInit == DispatchInit => DispatchTypeOK /\ ControlInv
<1> SUFFICES ASSUME DispatchInit PROVE DispatchTypeOK /\ ControlInv
  OBVIOUS
<1>1. TypeOK
  BY TypeInit DEF DispatchInit
<1>2. 0 \in SqSlots /\ 0 \in 0 .. MaxPerLoop
  BY QueueSizesAssumption, MaxPerLoopAssumption DEF SqSlots, Slots
<1>3. DispatchTypeOK
  BY <1>1, <1>2 DEF DispatchInit, DispatchTypeOK
<1>4. ControlInv
  BY ThreadsAssumption DEF DispatchInit, Init, ControlInv, InQueue, Threads
<1> QED
  BY <1>3, <1>4

(* Every command is fetched and answered within its own post_command, by    *)
(* the host's thread; the simulator's thread always finds an empty queue.   *)
THEOREM ControlCorrect == SerialSpec => [](DispatchTypeOK /\ ControlInv)
<1>1. DispatchTypeOK /\ ControlInv /\ [SerialNext]_dispatchVars => (DispatchTypeOK /\ ControlInv)'
  BY ControlStep
<1> QED
  BY ControlInit, <1>1, PTL DEF SerialSpec
-----------------------------------------------------------------------------
(* Ages of CIDs lie between 1 and the length of a cycle; handing out a CID  *)
(* makes every other one older, and the one handed out was the oldest.      *)
LEMMA AgeFacts ==
    ASSUME NEW next \in Cids
    PROVE  /\ \A k \in Cids : AgeAt(k, next) \in 1 .. CidMax - CidInit
           /\ \A k, l \in Cids : AgeAt(k, next) = AgeAt(l, next) => k = l
           /\ AgeAt(next, next) = CidMax - CidInit
BY CidRangeAssumption DEF AgeAt, Cids

LEMMA AgeStep ==
    ASSUME NEW next \in Cids, NEW k \in Cids
    PROVE  AgeAt(k, CidAfter(next)) = IF k = next THEN 1 ELSE AgeAt(k, next) + 1
BY CidRangeAssumption DEF AgeAt, Cids, CidAfter

(* Steps the completions and the keys do not notice.                        *)
LEMMA AnswersKept ==
    ASSUME AnswersInv,
           UNCHANGED <<nextCid, cid, posted, outstanding, sqHead, cqPhase, sqTail, cqe, cqHead, devSqHead, starting>>,
           PostedTail' = PostedTail, InHandler("host")' <=> InHandler("host"),
           \A i \in CqSlots : PendingCq(i) => PendingCq(i)'
    PROVE  AnswersInv'
<1>1. /\ \A i : Answered(i)' <=> Answered(i)
      /\ Recorded' = Recorded /\ Window' = Window
  BY DEF Answered, Recorded, Window
<1>2. PhasesInv' /\ PlacesInv'
  BY <1>1 DEF AnswersInv, PhasesInv, PlacesInv, LapPhase
<1>3. KeysInv'
  BY <1>1 DEF AnswersInv, KeysInv
<1>4. AgesInv'
  BY <1>1 DEF AnswersInv, AgesInv
<1> QED
  BY <1>2, <1>3, <1>4 DEF AnswersInv

(* The handler's completion: the slot at the tail was free, and is the last *)
(* of the answered ones from now on.                                        *)
LEMMA SlotAtTail ==
    ASSUME TypeOK, ~CqFull
    PROVE  /\ devCqTail \in CqSlots /\ ~PendingCq(devCqTail)
           /\ \A i \in CqSlots : Holds(i, cqHead, Peek(devCqTail, CQEntries), CQEntries)
                                  <=> PendingCq(i) \/ i = devCqTail
           /\ Dist(cqHead, Peek(devCqTail, CQEntries), CQEntries) = Dist(cqHead, devCqTail, CQEntries) + 1
           /\ Dist(cqHead, devCqTail, CQEntries) \in Nat
<1>1. /\ CQEntries \in Nat \ {0} /\ cqHead \in Slots(CQEntries) /\ devCqTail \in Slots(CQEntries)
      /\ CqSlots = Slots(CQEntries)
  BY SlotFacts DEF CqSlots
<1>2. /\ Dist(cqHead, Peek(devCqTail, CQEntries), CQEntries) = Dist(cqHead, devCqTail, CQEntries) + 1
      /\ Dist(cqHead, devCqTail, CQEntries) \in Nat
  BY <1>1, DistAdvanceTail, DistIsSlot DEF CqFull, Slots
<1>3. ASSUME NEW i \in CqSlots
      PROVE  /\ Dist(cqHead, i, CQEntries) \in Nat
             /\ i # devCqTail => Dist(cqHead, i, CQEntries) # Dist(cqHead, devCqTail, CQEntries)
  BY <1>1, DistInjective, DistIsSlot DEF Slots
<1> QED
  BY <1>1, <1>2, <1>3 DEF PendingCq, Holds

LEMMA HandleAnswers ==
    ASSUME SerialInv, Handle("host"), ControlInv'
    PROVE  AnswersInv'
<1>0. /\ pc["host"] = "handle" /\ pc' = [pc EXCEPT !["host"] = "cq load"]
      /\ ~HandlerRaises("host")
  BY DEF Handle, Goes
<1>1. /\ cqe' = [cqe EXCEPT ![devCqTail] = CqeOf("host")]
      /\ UNCHANGED <<hostVars, sqVars, cqHead, devSqHead, devCqTail, starting>>
  BY DEF Handle, Goes
<1>2. /\ TypeOK /\ ControlInv /\ DispatchTypeOK /\ PhasesInv /\ PlacesInv /\ KeysInv /\ AgesInv
      /\ devSqHead = sqTail
      /\ starting # NoCmd /\ starting \in Commands /\ cid[starting] \in Cids
  BY <1>0 DEF SerialInv, AnswersInv, DispatchTypeOK, ControlInv, InQueue
<1>3. ~CqFull /\ unit["host"] = Entry
  BY <1>0, <1>2, RaiseFacts
<1>4. /\ PostedTail = devCqTail /\ PostedTail' = Peek(devCqTail, CQEntries)
      /\ InHandler("host") /\ ~InHandler("host")'
  <2>1. pc'["host"] = "cq load"
    BY <1>0 DEF SerialInv, DispatchTypeOK, Threads
  <2> QED
    BY <1>0, <1>1, <1>2, <2>1, ControlFacts DEF InHandler, PostedTail, Posting, Threads
<1>5. /\ \A i \in CqSlots : Answered(i) <=> PendingCq(i)
      /\ \A i \in CqSlots : Answered(i)' <=> Answered(i) \/ i = devCqTail
      /\ devCqTail \in CqSlots /\ ~Answered(devCqTail)
      /\ \A i \in CqSlots : PendingCq(i)' <=> PendingCq(i)
  BY <1>1, <1>2, <1>3, <1>4, SlotAtTail DEF Answered, PendingCq
<1>6. /\ cqe'[devCqTail] = [cid |-> cid[starting], cmd |-> starting, sqhd |-> devSqHead, p |-> 1 - cqe[devCqTail].p]
      /\ \A i \in CqSlots : i # devCqTail => cqe'[i] = cqe[i]
  BY <1>1, <1>2, <1>3, <1>5 DEF CqeOf, Entry, TypeOK
<1>7. /\ Recorded' = Recorded /\ Window' = Window
      /\ UNCHANGED <<nextCid, cid, posted, outstanding, sqHead, cqPhase, cqHead, devSqHead, starting>>
  BY <1>1 DEF Recorded, Window, hostVars, sqVars
<1>8. PhasesInv'
  <2>1. ASSUME NEW i \in CqSlots, i # devCqTail
        PROVE  cqe'[i].p = IF Answered(i)' THEN LapPhase(i)' ELSE 1 - LapPhase(i)'
    BY <1>2, <1>5, <1>6, <1>7, <2>1 DEF PhasesInv, LapPhase
  <2>2. cqe'[devCqTail].p = 1 - cqe[devCqTail].p /\ cqe[devCqTail].p = 1 - LapPhase(devCqTail)
    BY <1>2, <1>5, <1>6 DEF PhasesInv
  <2>3. LapPhase(devCqTail) \in {0, 1}
    BY <1>2 DEF LapPhase, TypeOK
  <2>4. ASSUME NEW i \in CqSlots, i = devCqTail PROVE cqe'[i].p = LapPhase(i)' /\ Answered(i)'
    BY <1>5, <1>7, <2>2, <2>3, <2>4 DEF LapPhase
  <2> QED
    BY <2>1, <2>4 DEF PhasesInv
<1>9. /\ Dist(sqHead, devSqHead, SQEntries) = Dist(cqHead, devCqTail, CQEntries) + 1
      /\ Dist(cqHead, Peek(devCqTail, CQEntries), CQEntries) = Dist(cqHead, devCqTail, CQEntries) + 1
      /\ Dist(cqHead, devCqTail, CQEntries) \in Nat
  BY <1>2, <1>3, <1>4, SlotAtTail DEF PlacesInv
<1>10. PlacesInv'
  <2>1. Dist(sqHead, devSqHead, SQEntries)' = Dist(cqHead, PostedTail, CQEntries)' + 0
    BY <1>1, <1>4, <1>7, <1>9
  <2>2. ASSUME NEW i \in CqSlots, Answered(i)'
        PROVE  (Dist(sqHead, cqe[i].sqhd, SQEntries) = Dist(cqHead, i, CQEntries) + 1)'
    BY <1>1, <1>2, <1>5, <1>6, <1>9, <2>2 DEF PlacesInv, hostVars
  <2> QED
    BY <1>4, <2>1, <2>2 DEF PlacesInv
<1>11. KeysInv'
  <2>1. Recorded[cid[starting]] = starting
    BY <1>2 DEF Recorded, TypeOK
  <2>2. ASSUME NEW k \in Cids, Recorded'[k] # NoCmd
        PROVE  /\ cid'[Recorded'[k]] = k
               /\ posted'[Recorded'[k]] \/ Recorded'[k] = starting'
               /\ Recorded'[k] # starting' => \E i \in CqSlots : PendingCq(i)' /\ cqe'[i].cid = k
    BY <1>1, <1>2, <1>5, <1>6, <1>7, <2>2 DEF KeysInv, hostVars
  <2>3. \A c \in Commands : posted'[c] => cid'[c] \in Cids /\ Recorded'[cid'[c]] = c
    BY <1>1, <1>2, <1>7 DEF KeysInv, hostVars
  <2>4. ASSUME NEW i \in CqSlots, Answered(i)'
        PROVE  cqe'[i].cid \in Cids /\ cqe'[i].cmd \in Commands /\ Recorded'[cqe'[i].cid] = cqe'[i].cmd
    BY <1>2, <1>5, <1>6, <1>7, <2>1, <2>4 DEF KeysInv
  <2>5. starting' # NoCmd => outstanding'[cid'[starting']] = NoCmd
    BY <1>2, <1>7 DEF KeysInv
  <2> QED
    BY <2>2, <2>3, <2>4, <2>5 DEF KeysInv
<1>12. AgesInv'
  <2>1. Window = Dist(cqHead, devCqTail, CQEntries) + 1 /\ AgeAt(cid[starting], nextCid) = 1
    BY <1>2, <1>9 DEF Window, AgesInv
  <2>2. ASSUME NEW i \in CqSlots, Answered(i)'
        PROVE  AgeAt(cqe'[i].cid, nextCid') + Dist(cqHead', i, CQEntries) = Window'
    BY <1>1, <1>2, <1>5, <1>6, <1>7, <1>9, <2>1, <2>2 DEF AgesInv
  <2> QED
    BY <1>1, <1>2, <1>7, <2>1, <2>2 DEF AgesInv, hostVars
<1> QED
  BY <1>8, <1>10, <1>11, <1>12 DEF AnswersInv

(* Fetching: the command leaves the queue for the handler, which the host's *)
(* window counts in any case.                                               *)
LEMMA StoreAnswers ==
    ASSUME SerialInv, Store("host")
    PROVE  AnswersInv'
<1>0. pc["host"] = "store" /\ pc' = [pc EXCEPT !["host"] = "handle"]
  BY DEF Store, Goes
<1>1. /\ devSqHead' = Peek(devSqHead, SQEntries)
      /\ UNCHANGED <<hostVars, sqVars, cqVars, devCqTail, starting>>
  BY DEF Store, SqNext, SerialInv, ControlInv, Goes
<1>2. /\ TypeOK /\ ControlInv /\ PhasesInv /\ PlacesInv /\ KeysInv /\ AgesInv
      /\ Peek(devSqHead, SQEntries) = sqTail /\ devSqHead # sqTail
      /\ starting # NoCmd /\ starting \in Commands /\ cid[starting] \in Cids
  BY <1>0 DEF SerialInv, AnswersInv, DispatchTypeOK, ControlInv, InQueue
<1>3. /\ PostedTail' = PostedTail /\ ~InHandler("host") /\ InHandler("host")'
      /\ \A i : Answered(i)' <=> Answered(i)
  <2>1. pc'["host"] = "handle" /\ pc'["sim"] = pc["sim"] /\ pc["sim"] = "out"
    BY <1>0 DEF SerialInv, DispatchTypeOK, ControlInv, Threads
  <2>2. PostedTail' = PostedTail
    BY <1>0, <1>1, <1>2, <2>1, ControlFacts DEF PostedTail, Posting, Threads, cqVars
  <2> QED
    BY <1>0, <1>1, <2>1, <2>2 DEF InHandler, Answered, cqVars
<1>4. /\ Recorded' = Recorded /\ Window' = Window
      /\ UNCHANGED <<nextCid, cid, posted, outstanding, sqHead, cqPhase, cqHead, cqe, devCqTail, starting>>
  BY <1>1 DEF Recorded, Window, hostVars, sqVars, cqVars
<1>5. sqHead # sqTail
  <2>1. Recorded[cid[starting]] = starting
    BY <1>2 DEF Recorded, TypeOK
  <2>2. 1 <= Window
    BY <1>2, <2>1 DEF AgesInv
  <2> QED
    BY <1>2, <2>2, SlotFacts DEF Window, Dist, Slots
<1>6. Dist(sqHead, devSqHead', SQEntries) = Dist(sqHead, devSqHead, SQEntries) + 1
  BY <1>1, <1>2, <1>5, SlotFacts, DistAdvanceTail DEF IsFull
<1>7. PlacesInv'
  <2>1. Dist(sqHead, devSqHead', SQEntries) = Dist(cqHead, PostedTail, CQEntries) + 1
    <3>1. Dist(sqHead, devSqHead, SQEntries) = Dist(cqHead, PostedTail, CQEntries) + 0
      BY <1>2, <1>3 DEF PlacesInv
    <3>2. Dist(sqHead, devSqHead, SQEntries) \in Int /\ Dist(cqHead, PostedTail, CQEntries) \in Int
      BY <1>2, SlotFacts DEF PostedTail, Dist, Slots, CqSlots
    <3> QED
      BY <1>6, <3>1, <3>2
  <2> QED
    BY <1>2, <1>3, <1>4, <2>1 DEF PlacesInv
<1>8. PhasesInv'
  BY <1>2, <1>3, <1>4 DEF PhasesInv, LapPhase
<1>9. KeysInv'
  BY <1>2, <1>3, <1>4 DEF KeysInv, PendingCq
<1>10. AgesInv'
  BY <1>2, <1>3, <1>4 DEF AgesInv
<1> QED
  BY <1>7, <1>8, <1>9, <1>10 DEF AnswersInv

(* post_command: with enough CIDs the one handed out is free, because the   *)
(* oldest outstanding one is younger than a cycle.                          *)
LEMMA NextCidIsFree ==
    ASSUME SQEntries - 1 <= CidMax - CidInit, SerialInv, starting = NoCmd, ~SqFull
    PROVE  /\ outstanding[nextCid] = NoCmd
           /\ Window + 1 \in Nat /\ Dist(sqHead, Peek(sqTail, SQEntries), SQEntries) = Window + 1
<1>1. TypeOK /\ AgesInv /\ Recorded = outstanding /\ nextCid \in Cids
  BY DEF SerialInv, DispatchTypeOK, TypeOK, AnswersInv, Recorded
<1>2. SQEntries \in Nat \ {0} /\ sqHead \in Slots(SQEntries) /\ sqTail \in Slots(SQEntries)
  BY <1>1, SlotFacts
<1>3. /\ Dist(sqHead, Peek(sqTail, SQEntries), SQEntries) = Window + 1
      /\ Window # SQEntries - 1 /\ Window \in 0 .. SQEntries - 1
  BY <1>2, DistAdvanceTail, FullMeansAllButOne, DistIsSlot DEF SqFull, Window, Slots
<1>4. AgeAt(nextCid, nextCid) = CidMax - CidInit
  BY <1>1, AgeFacts
<1>5. ~(AgeAt(nextCid, nextCid) <= Window)
  BY <1>2, <1>3, <1>4, CidRangeAssumption
<1> QED
  BY <1>1, <1>3, <1>5 DEF AgesInv

LEMMA PostCommandAnswers ==
    ASSUME SQEntries - 1 <= CidMax - CidInit, SerialInv, NEW c \in Commands, PostCommand(c), Serial'
    PROVE  AnswersInv'
<1>1. /\ ~posted[c] /\ ~SqFull
      /\ nextCid' = CidAfter(nextCid)
      /\ cid' = [cid EXCEPT ![c] = nextCid]
      /\ sqTail' = Peek(sqTail, SQEntries)
      /\ starting' = c
      /\ UNCHANGED <<posted, complete, result, outstanding, sqHead, cqPhase, cqVars, devVars>>
  BY DEF PostCommand, MayStart
<1>2. /\ TypeOK /\ PhasesInv /\ PlacesInv /\ KeysInv /\ AgesInv
      /\ nextCid \in Cids /\ cid \in [Commands -> Cids \union {0}]
      /\ outstanding \in [Cids -> Commands \union {NoCmd}]
      /\ c # NoCmd /\ starting = NoCmd
  BY PostCommandControl DEF SerialInv, AnswersInv, DispatchTypeOK, TypeOK
<1>3. /\ PostedTail' = PostedTail /\ InHandler("host")' = InHandler("host")
      /\ \A i : Answered(i)' <=> Answered(i)
  <2>1. pc["host"] = "out" /\ pc'["host"] = "scan" /\ pc'["sim"] = pc["sim"]
    BY PostCommandControl DEF SerialInv, PostCommand, Goes, DispatchTypeOK, Threads
  <2>2. UNCHANGED <<cqHead, devCqTail>>
    BY <1>1 DEF cqVars, devVars
  <2>3. PostedTail' = PostedTail
    BY <2>1, <2>2 DEF PostedTail, Posting, Threads
  <2> QED
    BY <2>1, <2>2, <2>3 DEF InHandler, Answered
<1>4. /\ outstanding[nextCid] = NoCmd
      /\ Window + 1 \in Nat /\ Window' = Window + 1
  BY <1>1, <1>2, NextCidIsFree DEF Window
<1>5. /\ Recorded = outstanding
      /\ Recorded'[nextCid] = c
      /\ \A k \in Cids : k # nextCid => Recorded'[k] = outstanding[k]
      /\ \A d \in Commands : cid'[d] = IF d = c THEN nextCid ELSE cid[d]
  BY <1>1, <1>2 DEF Recorded
<1>6. UNCHANGED <<cqe, cqHead, devCqTail, devSqHead>>
  BY <1>1 DEF cqVars, devVars
<1>7. \A k \in Cids : AgeAt(k, nextCid') = IF k = nextCid THEN 1 ELSE AgeAt(k, nextCid) + 1
  BY <1>1, <1>2, AgeStep
<1>8. \A k \in Cids : AgeAt(k, nextCid) \in Int
  BY <1>2, AgeFacts
<1>9. PhasesInv' /\ PlacesInv'
  BY <1>1, <1>2, <1>3, <1>6 DEF PhasesInv, PlacesInv, LapPhase
<1>10. KeysInv'
  <2>1. ASSUME NEW k \in Cids, Recorded'[k] # NoCmd
        PROVE  /\ cid'[Recorded'[k]] = k
               /\ posted'[Recorded'[k]] \/ Recorded'[k] = starting'
               /\ Recorded'[k] # starting' => \E i \in CqSlots : PendingCq(i)' /\ cqe'[i].cid = k
    <3>1. CASE k = nextCid
      BY <1>1, <1>5, <3>1
    <3>2. CASE k # nextCid
      <4>1. /\ Recorded'[k] = outstanding[k] /\ outstanding[k] \in Commands
            /\ outstanding[k] # c
        BY <1>1, <1>2, <1>5, <2>1, <3>2 DEF KeysInv
      <4>2. cid[outstanding[k]] = k /\ posted[outstanding[k]]
        BY <1>2, <1>5, <4>1, NoCmdAssumption DEF KeysInv
      <4>3. PICK i \in CqSlots : PendingCq(i) /\ cqe[i].cid = k
        BY <1>2, <1>5, <4>1, NoCmdAssumption DEF KeysInv
      <4>4. PendingCq(i)' /\ cqe'[i].cid = k
        BY <1>6, <4>3 DEF PendingCq
      <4> QED
        BY <1>1, <1>5, <4>1, <4>2, <4>4
    <3> QED
      BY <3>1, <3>2
  <2>2. \A d \in Commands : posted'[d] => cid'[d] \in Cids /\ Recorded'[cid'[d]] = d
    BY <1>1, <1>2, <1>4, <1>5, NoCmdAssumption DEF KeysInv
  <2>3. ASSUME NEW i \in CqSlots, Answered(i)'
        PROVE  cqe'[i].cid \in Cids /\ cqe'[i].cmd \in Commands /\ Recorded'[cqe'[i].cid] = cqe'[i].cmd
    BY <1>2, <1>3, <1>4, <1>5, <1>6, <2>3, NoCmdAssumption DEF KeysInv
  <2>4. outstanding'[cid'[starting']] = NoCmd
    BY <1>1, <1>4, <1>5
  <2> QED
    BY <2>1, <2>2, <2>3, <2>4 DEF KeysInv
<1>11. AgesInv'
  <2>1. ASSUME NEW k \in Cids, Recorded'[k] # NoCmd PROVE AgeAt(k, nextCid') <= Window'
    BY <1>2, <1>4, <1>5, <1>7, <1>8, <2>1, SlotFacts DEF AgesInv, Window, Dist, Slots
  <2>2. ASSUME NEW i \in CqSlots, Answered(i)'
        PROVE  AgeAt(cqe'[i].cid, nextCid') + Dist(cqHead', i, CQEntries) = Window'
    <3>1. /\ Answered(i) /\ cqe[i].cid \in Cids /\ cqe[i].cid # nextCid
          /\ AgeAt(cqe[i].cid, nextCid) + Dist(cqHead, i, CQEntries) = Window
      BY <1>2, <1>3, <1>4, <1>5, <2>2, NoCmdAssumption DEF KeysInv, AgesInv
    <3>2. Dist(cqHead, i, CQEntries) \in Int
      BY <1>2, SlotFacts DEF Dist, CqSlots, Slots
    <3> QED
      BY <1>4, <1>6, <1>7, <1>8, <3>1, <3>2
  <2>3. AgeAt(cid'[starting'], nextCid') = 1
    BY <1>1, <1>2, <1>5, <1>7
  <2> QED
    BY <2>1, <2>2, <2>3 DEF AgesInv
<1> QED
  BY <1>9, <1>10, <1>11 DEF AnswersInv

(* post_command returns: the command is recorded, with its completion       *)
(* waiting in the queue.                                                    *)
LEMMA PostReturnsAnswers ==
    ASSUME SerialInv, PostReturns
    PROVE  AnswersInv'
<1>1. /\ outstanding' = [outstanding EXCEPT ![cid[starting]] = starting]
      /\ posted' = [posted EXCEPT ![starting] = TRUE]
      /\ starting' = NoCmd
      /\ UNCHANGED <<nextCid, cid, sqHead, cqPhase, sqVars, cqVars, devVars>>
  BY DEF PostReturns
<1>2. /\ TypeOK /\ PhasesInv /\ PlacesInv /\ KeysInv /\ AgesInv
      /\ starting \in Commands /\ starting # NoCmd /\ cid[starting] \in Cids
      /\ posted \in [Commands -> BOOLEAN]
  BY PostReturnsControl, NoCmdAssumption DEF SerialInv, AnswersInv, DispatchTypeOK, TypeOK, ControlInv
<1>3. /\ PostedTail = devCqTail /\ PostedTail' = devCqTail /\ ~InHandler("host") /\ ~InHandler("host")'
      /\ \A i : Answered(i)' <=> Answered(i)
      /\ \A i : Answered(i) <=> PendingCq(i)
      /\ devSqHead = sqTail
  <2>1. pc["host"] = "done" /\ pc'["host"] = "out" /\ pc'["sim"] = pc["sim"] /\ pc["sim"] = "out"
    BY PostReturnsControl DEF SerialInv, PostReturns, Goes, DispatchTypeOK, ControlInv, Threads
  <2>2. UNCHANGED <<cqHead, devCqTail>>
    BY <1>1 DEF cqVars, devVars
  <2>3. PostedTail = devCqTail /\ PostedTail' = devCqTail
    BY <2>1, <2>2 DEF PostedTail, Posting, Threads
  <2> QED
    BY <2>1, <2>2, <2>3 DEF InHandler, Answered, PendingCq, SerialInv, ControlInv, InQueue
<1>4. /\ Recorded' = Recorded /\ Window' = Window
      /\ UNCHANGED <<cqe, cqHead, devCqTail, devSqHead>>
  BY <1>1, <1>2 DEF Recorded, Window, sqVars, cqVars, devVars
<1>5. PhasesInv' /\ PlacesInv' /\ AgesInv'
  BY <1>1, <1>2, <1>3, <1>4 DEF PhasesInv, PlacesInv, AgesInv, LapPhase
<1>6. \E i \in CqSlots : PendingCq(i) /\ cqe[i].cid = cid[starting]
  <2>1. AgeAt(cid[starting], nextCid) = 1 /\ 1 <= Window
    <3>1. Recorded[cid[starting]] = starting
      BY <1>2 DEF Recorded, TypeOK
    <3> QED
      BY <1>2, <3>1 DEF AgesInv
  <2>2. Dist(cqHead, devCqTail, CQEntries) = Window
    <3>1. Window = Dist(cqHead, devCqTail, CQEntries) + 0
      BY <1>2, <1>3 DEF PlacesInv, Window
    <3> QED
      BY <1>2, <3>1, SlotFacts DEF Dist, Slots
  <2>3. PICK i \in CqSlots : Dist(cqHead, i, CQEntries) + 1 = Dist(cqHead, devCqTail, CQEntries)
    <3> DEFINE last == IF devCqTail = 0 THEN CQEntries - 1 ELSE devCqTail - 1
    <3>1. last \in CqSlots /\ Dist(cqHead, last, CQEntries) + 1 = Dist(cqHead, devCqTail, CQEntries)
      BY <1>2, <2>1, <2>2, SlotFacts DEF Dist, CqSlots, Slots
    <3> QED
      BY <3>1
  <2>4. PendingCq(i) /\ Dist(cqHead, i, CQEntries) + 1 = Window
    BY <1>2, <2>2, <2>3, SlotFacts DEF PendingCq, Holds, Dist, CqSlots, Slots
  <2>5. cqe[i].cid \in Cids /\ AgeAt(cqe[i].cid, nextCid) + Dist(cqHead, i, CQEntries) = Window
    BY <1>2, <1>3, <2>4 DEF KeysInv, AgesInv
  <2>6. nextCid \in Cids
    BY <1>2 DEF TypeOK
  <2>7. AgeAt(cqe[i].cid, nextCid) = 1
    BY <1>2, <2>4, <2>5, <2>6, AgeFacts, SlotFacts DEF Dist, CqSlots, Slots
  <2>8. cqe[i].cid = cid[starting]
    BY <1>2, <2>1, <2>5, <2>6, <2>7, AgeFacts
  <2> QED
    BY <2>4, <2>8
<1>7. KeysInv'
  <2>1. ASSUME NEW k \in Cids, Recorded[k] # NoCmd
        PROVE  /\ cid[Recorded[k]] = k
               /\ posted'[Recorded[k]]
               /\ \E i \in CqSlots : PendingCq(i)' /\ cqe'[i].cid = k
    <3>1. cid[Recorded[k]] = k /\ Recorded[k] \in Commands
      BY <1>2, <2>1 DEF KeysInv, Recorded, TypeOK
    <3>2. posted'[Recorded[k]]
      BY <1>1, <1>2, <2>1, <3>1 DEF KeysInv
    <3>3. PICK i \in CqSlots : PendingCq(i) /\ cqe[i].cid = k
      <4>1. CASE Recorded[k] = starting
        BY <1>6, <3>1, <4>1
      <4>2. CASE Recorded[k] # starting
        BY <1>2, <2>1, <4>2 DEF KeysInv
      <4> QED
        BY <4>1, <4>2
    <3>4. PendingCq(i)' /\ cqe'[i].cid = k
      BY <1>4, <3>3 DEF PendingCq
    <3> QED
      BY <3>1, <3>2, <3>4
  <2>2. ASSUME NEW c \in Commands, posted'[c] PROVE cid[c] \in Cids /\ Recorded[cid[c]] = c
    <3>1. CASE c = starting
      BY <1>2, <3>1 DEF Recorded, TypeOK
    <3>2. CASE c # starting
      BY <1>1, <1>2, <2>2, <3>2 DEF KeysInv
    <3> QED
      BY <3>1, <3>2
  <2>3. ASSUME NEW i \in CqSlots, Answered(i)
        PROVE  cqe[i].cid \in Cids /\ cqe[i].cmd \in Commands /\ Recorded[cqe[i].cid] = cqe[i].cmd
    BY <1>2, <2>3 DEF KeysInv
  <2> QED
    BY <1>1, <1>3, <1>4, <2>1, <2>2, <2>3 DEF KeysInv
<1> QED
  BY <1>5, <1>7 DEF AnswersInv

(* Between calls the pair is one of QueuePair with nothing on its way to    *)
(* the controller, and satisfies the invariant proved of that module.       *)
LEMMA AtRest ==
    ASSUME SerialInv, pc["host"] = "out"
    PROVE  /\ RingInv
           /\ starting = NoCmd /\ Recorded = outstanding
           /\ PostedTail = devCqTail /\ ~InHandler("host")
           /\ \A i : Answered(i) <=> PendingCq(i)
           /\ devSqHead = sqTail
           /\ Dist(sqHead, devSqHead, SQEntries) = Dist(cqHead, devCqTail, CQEntries)
<1>1. /\ starting = NoCmd /\ Recorded = outstanding
      /\ PostedTail = devCqTail /\ ~InHandler("host")
      /\ \A i : Answered(i) <=> PendingCq(i)
      /\ devSqHead = sqTail
  BY ControlFacts DEF SerialInv, ControlInv, InQueue, Recorded, InHandler, Answered, PendingCq
<1>2. TypeOK /\ PhasesInv /\ PlacesInv /\ KeysInv
  BY DEF SerialInv, DispatchTypeOK, AnswersInv
<1>3. /\ SQEntries \in Nat \ {0} /\ sqHead \in Slots(SQEntries) /\ sqTail \in Slots(SQEntries)
      /\ CQEntries \in Nat \ {0} /\ cqHead \in Slots(CQEntries) /\ devCqTail \in Slots(CQEntries)
      /\ devSqHead \in Slots(SQEntries)
  BY <1>2, SlotFacts
<1>4. Dist(sqHead, devSqHead, SQEntries) = Dist(cqHead, devCqTail, CQEntries)
  <2>1. Dist(sqHead, devSqHead, SQEntries) = Dist(cqHead, devCqTail, CQEntries) + 0
    BY <1>1, <1>2 DEF PlacesInv
  <2> QED
    BY <1>3, <2>1, DistIsSlot DEF Slots
<1>5. PhaseInv
  BY <1>1, <1>2 DEF PhasesInv, PhaseInv
<1>6. HostHeadIsBehind
  BY <1>1, <1>3, DistIsSlot DEF HostHeadIsBehind, Slots
<1>7. SqhdInv
  <2>1. \A i \in CqSlots : PendingCq(i) =>
          Dist(sqHead, cqe[i].sqhd, SQEntries) = Dist(cqHead, i, CQEntries) + 1
    BY <1>1, <1>2 DEF PlacesInv
  <2>2. /\ \A i \in CqSlots : Dist(cqHead, i, CQEntries) \in Nat
        /\ Dist(cqHead, devCqTail, CQEntries) \in Nat
    BY <1>3, DistIsSlot DEF CqSlots, Slots
  <2>3. \A i \in CqSlots : PendingCq(i) => Dist(cqHead, i, CQEntries) < Dist(cqHead, devCqTail, CQEntries)
    BY DEF PendingCq, Holds
  <2> QED
    BY <1>4, <2>1, <2>2, <2>3 DEF SqhdInv
<1>8. CompletionAssertionsHold
  BY <1>1, <1>2 DEF CompletionAssertionsHold, KeysInv
<1> QED
  BY <1>1, <1>2, <1>4, <1>5, <1>6, <1>7, <1>8 DEF RingInv

(* get_completion takes the oldest answer, and its CID is the oldest one    *)
(* outstanding.                                                             *)
LEMMA GetAnswers ==
    ASSUME SerialInv, pc["host"] = "out", GetCompletion, UNCHANGED callVars
    PROVE  AnswersInv'
<1> DEFINE k == cqe[cqHead].cid
           c == outstanding[k]
<1>1. /\ k \in Cids
      /\ posted' = [posted EXCEPT ![c] = FALSE]
      /\ outstanding' = [outstanding EXCEPT ![k] = NoCmd]
      /\ cqHead' = Peek(cqHead, CQEntries)
      /\ sqHead' = cqe[cqHead].sqhd
      /\ UNCHANGED <<nextCid, cid, sqe, sqTail, cqe, devSqHead, devCqTail, unit, starting>>
  BY DEF GetCompletion, sqVars, devVars, callVars
<1>2. /\ TypeOK /\ RingInv /\ PhasesInv /\ PlacesInv /\ KeysInv /\ AgesInv
      /\ starting = NoCmd /\ Recorded = outstanding
      /\ devSqHead = sqTail
      /\ Dist(sqHead, devSqHead, SQEntries) = Dist(cqHead, devCqTail, CQEntries)
      /\ nextCid \in Cids
      /\ outstanding \in [Cids -> Commands \union {NoCmd}]
      /\ posted \in [Commands -> BOOLEAN]
  BY AtRest DEF SerialInv, AnswersInv, RingInv, TypeOK
<1>3. /\ \A i : Answered(i) <=> PendingCq(i)
      /\ \A i : Answered(i)' <=> PendingCq(i)'
      /\ ~InHandler("host") /\ ~InHandler("host")'
      /\ PostedTail' = devCqTail /\ PostedTail = devCqTail
  <2>1. pc' = pc
    BY DEF callVars
  <2>2. PostedTail' = devCqTail /\ PostedTail = devCqTail
    BY <1>1, <2>1, AtRest DEF PostedTail, Posting
  <2> QED
    BY <1>1, <2>1, <2>2, AtRest DEF InHandler, Answered, PendingCq
<1>4. /\ PendingCq(cqHead)
      /\ \A i \in CqSlots : PendingCq(i)' <=> PendingCq(i) /\ i # cqHead
      /\ \A i \in CqSlots : PendingCq(i) /\ i # cqHead =>
           Dist(cqHead', i, CQEntries) = Dist(cqHead, i, CQEntries) - 1
  BY <1>2, PendingAfterConsume
<1>5. PhasesInv'
  <2>1. PhaseInv'
    BY <1>2, PhaseStep DEF Next
  <2> QED
    BY <1>3, <2>1 DEF PhaseInv, PhasesInv
<1>6. /\ SQEntries \in Nat \ {0} /\ sqHead \in Slots(SQEntries) /\ sqTail \in Slots(SQEntries)
      /\ CQEntries \in Nat \ {0} /\ cqHead \in Slots(CQEntries) /\ devCqTail \in Slots(CQEntries)
      /\ \A i \in CqSlots : cqe[i].sqhd \in Slots(SQEntries)
      /\ CqSlots = Slots(CQEntries)
  BY <1>2, SlotFacts DEF TypeOK, Cqe, SqSlots, CqSlots
<1>7. /\ Dist(cqHead, cqHead, CQEntries) = 0
      /\ Dist(cqHead', devCqTail, CQEntries) = Dist(cqHead, devCqTail, CQEntries) - 1
  <2>1. cqHead # devCqTail
    BY <1>4, <1>6, DistIsSlot DEF PendingCq, Holds, Slots
  <2> QED
    BY <1>1, <1>6, <2>1, DistIsSlot, DistAdvanceHead
<1>8. \A i \in CqSlots : PendingCq(i) => Dist(sqHead, cqe[i].sqhd, SQEntries) = Dist(cqHead, i, CQEntries) + 1
  BY <1>2, <1>3 DEF PlacesInv
<1>9. Dist(sqHead, sqHead', SQEntries) = 1
  BY <1>1, <1>4, <1>6, <1>7, <1>8
<1>10. \A i \in CqSlots : PendingCq(i) => Dist(cqHead, i, CQEntries) < Window /\ Dist(cqHead, i, CQEntries) \in Nat
  BY <1>2, <1>6, DistIsSlot DEF PendingCq, Holds, Window, Slots
<1>11. Window \in Nat /\ Window' = Window - 1
  <2>1. Window \in Nat /\ 1 <= Window
    BY <1>4, <1>6, <1>7, <1>10, DistIsSlot DEF Window, Slots
  <2>2. Dist(sqHead', sqTail, SQEntries) = Dist(sqHead, sqTail, SQEntries) - Dist(sqHead, sqHead', SQEntries)
    BY <1>1, <1>6, <1>9, <2>1, DistMoveHead DEF Window
  <2> QED
    BY <1>1, <1>9, <2>1, <2>2 DEF Window
<1>12. PlacesInv'
  <2>1. Dist(sqHead', devSqHead, SQEntries) = Dist(cqHead', devCqTail, CQEntries) + 0
    BY <1>1, <1>2, <1>6, <1>7, <1>11, DistIsSlot DEF Window, Slots
  <2>2. ASSUME NEW i \in CqSlots, PendingCq(i)'
        PROVE  Dist(sqHead', cqe[i].sqhd, SQEntries) = Dist(cqHead', i, CQEntries) + 1
    <3>1. PendingCq(i) /\ i # cqHead
      BY <1>4, <2>2
    <3>2. /\ Dist(sqHead, cqe[i].sqhd, SQEntries) = Dist(cqHead, i, CQEntries) + 1
          /\ Dist(cqHead', i, CQEntries) = Dist(cqHead, i, CQEntries) - 1
          /\ Dist(cqHead, i, CQEntries) \in Nat
      BY <1>4, <1>8, <1>10, <3>1
    <3>3. Dist(sqHead', cqe[i].sqhd, SQEntries)
            = Dist(sqHead, cqe[i].sqhd, SQEntries) - Dist(sqHead, sqHead', SQEntries)
      BY <1>1, <1>6, <1>9, <3>2, DistMoveHead
    <3> QED
      BY <1>9, <3>2, <3>3
  <2> QED
    BY <1>1, <1>3, <2>1, <2>2 DEF PlacesInv
<1>13. /\ c \in Commands /\ c = cqe[cqHead].cmd /\ AgeAt(k, nextCid) = Window
       /\ \A l \in Cids : outstanding'[l] = IF l = k THEN NoCmd ELSE outstanding[l]
       /\ Recorded' = outstanding'
  <2>1. AgeAt(k, nextCid) + 0 = Window
    BY <1>2, <1>3, <1>4, <1>6, <1>7 DEF AgesInv
  <2>2. AgeAt(k, nextCid) = Window
    BY <1>1, <1>2, <2>1, AgeFacts
  <2> QED
    BY <1>1, <1>2, <1>3, <1>4, <1>6, <2>2 DEF KeysInv, Recorded
<1>14. \A i \in CqSlots : PendingCq(i) /\ i # cqHead => cqe[i].cid # k
  <2> SUFFICES ASSUME NEW i \in CqSlots, PendingCq(i), i # cqHead, cqe[i].cid = k PROVE FALSE
    OBVIOUS
  <2>1. Dist(cqHead, i, CQEntries) \in Nat /\ Dist(cqHead, i, CQEntries) # 0
    BY <1>6, <1>10, DistIsSlot
  <2>2. AgeAt(k, nextCid) + Dist(cqHead, i, CQEntries) = Window
    BY <1>2, <1>3 DEF AgesInv
  <2> QED
    BY <1>11, <1>13, <2>1, <2>2
<1>15. KeysInv'
  <2>1. ASSUME NEW l \in Cids, outstanding'[l] # NoCmd
        PROVE  /\ cid[outstanding'[l]] = l
               /\ posted'[outstanding'[l]]
               /\ \E i \in CqSlots : PendingCq(i)' /\ cqe[i].cid = l
    <3>1. l # k /\ outstanding'[l] = outstanding[l] /\ outstanding[l] \in Commands
      BY <1>2, <1>13, <2>1
    <3>2. cid[outstanding[l]] = l /\ posted[outstanding[l]] /\ cid[c] = k
      <4>1. ASSUME NEW j \in Cids, outstanding[j] \in Commands
            PROVE  cid[outstanding[j]] = j /\ posted[outstanding[j]]
        BY <1>2, <4>1, NoCmdAssumption DEF KeysInv
      <4> QED
        BY <1>1, <1>13, <3>1, <4>1
    <3>3. PICK i \in CqSlots : PendingCq(i) /\ cqe[i].cid = l
      BY <1>2, <1>13, <2>1, <3>1, NoCmdAssumption DEF KeysInv
    <3> QED
      BY <1>1, <1>2, <1>4, <3>1, <3>2, <3>3
  <2>2. ASSUME NEW d \in Commands, posted'[d] PROVE cid[d] \in Cids /\ outstanding'[cid[d]] = d
    BY <1>1, <1>2, <1>13, <2>2 DEF KeysInv
  <2>3. ASSUME NEW i \in CqSlots, PendingCq(i)'
        PROVE  cqe[i].cid \in Cids /\ cqe[i].cmd \in Commands /\ outstanding'[cqe[i].cid] = cqe[i].cmd
    BY <1>2, <1>3, <1>4, <1>13, <1>14, <2>3 DEF KeysInv
  <2> QED
    BY <1>1, <1>2, <1>3, <1>13, <2>1, <2>2, <2>3 DEF KeysInv
<1>16. AgesInv'
  <2>1. ASSUME NEW l \in Cids, outstanding'[l] # NoCmd PROVE AgeAt(l, nextCid) <= Window - 1
    <3>1. l # k /\ outstanding[l] # NoCmd
      BY <1>13, <2>1
    <3>2. AgeAt(l, nextCid) <= Window /\ AgeAt(l, nextCid) # Window /\ AgeAt(l, nextCid) \in Int
      BY <1>1, <1>2, <1>13, <3>1, AgeFacts DEF AgesInv
    <3> QED
      BY <1>11, <3>2
  <2>2. ASSUME NEW i \in CqSlots, PendingCq(i)'
        PROVE  AgeAt(cqe[i].cid, nextCid) + Dist(cqHead', i, CQEntries) = Window - 1
    <3>1. /\ AgeAt(cqe[i].cid, nextCid) + Dist(cqHead, i, CQEntries) = Window
          /\ cqe[i].cid \in Cids
          /\ Dist(cqHead', i, CQEntries) = Dist(cqHead, i, CQEntries) - 1
      BY <1>2, <1>3, <1>4, <2>2 DEF AgesInv, KeysInv
    <3>2. AgeAt(cqe[i].cid, nextCid) \in Int
      BY <1>2, <3>1, AgeFacts
    <3>3. Dist(cqHead, i, CQEntries) \in Int
      BY <1>4, <1>10, <2>2
    <3> QED
      BY <1>11, <3>1, <3>2, <3>3
  <2> QED
    BY <1>1, <1>2, <1>3, <1>11, <1>13, <2>1, <2>2 DEF AgesInv
<1> QED
  BY <1>5, <1>12, <1>15, <1>16 DEF AnswersInv

(* The other steps: the queue's memory as the host sees it stays the same.  *)
LEMMA QuietHostThread ==
    ASSUME SerialInv,
           \/ Scan("host") \/ Test("host") \/ Read("host") \/ Load("host")
           \/ Raise("host") \/ CqLoad("host") \/ CqStore("host")
    PROVE  AnswersInv'
<1>1. /\ UNCHANGED <<nextCid, cid, posted, outstanding, sqHead, cqPhase, sqTail, cqe, cqHead, devSqHead, starting>>
  BY DEF Scan, Test, Read, Load, Raise, CqLoad, CqStore, vars, hostVars, sqVars, cqVars, devVars
<1>2. DispatchTypeOK /\ ControlInv /\ AnswersInv /\ TypeOK /\ pc["sim"] = "out"
  BY DEF SerialInv, DispatchTypeOK, ControlInv, Scan, Test, Read, Load, Raise, CqLoad, CqStore, Goes
<1>3. PICK to \in {"test", "done", "read", "load", "store", "raised", "cq store"} : pc' = [pc EXCEPT !["host"] = to]
  BY DEF Scan, Test, Read, Load, Raise, CqLoad, CqStore, Goes
<1>4. pc'["host"] = to /\ pc'["sim"] = "out"
  BY <1>2, <1>3 DEF DispatchTypeOK, Threads
<1>5. CASE CqStore("host")
  <2>1. pc["host"] = "cq store" /\ to = "test" /\ devCqTail' = Peek(devCqTail, CQEntries)
    BY <1>2, <1>4, <1>5 DEF CqStore, Goes, ControlInv, DispatchTypeOK, Threads
  <2>2. PostedTail' = PostedTail /\ (InHandler("host")' <=> InHandler("host"))
    BY <1>2, <1>4, <2>1, ControlFacts DEF PostedTail, Posting, InHandler, Threads
  <2>3. ~CqFull
    BY <1>2, <2>1 DEF ControlInv
  <2>4. \A i \in CqSlots : PendingCq(i) => PendingCq(i)'
    <3>1. \A i \in CqSlots : PendingCq(i) => Holds(i, cqHead, Peek(devCqTail, CQEntries), CQEntries)
      BY <1>2, <2>3, SlotAtTail
    <3> QED
      BY <1>1, <2>1, <3>1 DEF PendingCq
  <2> QED
    BY <1>1, <1>2, <2>2, <2>4, AnswersKept
<1>6. CASE Scan("host") \/ Test("host") \/ Read("host") \/ Load("host") \/ Raise("host") \/ CqLoad("host")
  <2>1. devCqTail' = devCqTail
    BY <1>6 DEF Scan, Test, Read, Load, Raise, CqLoad, vars, devVars
  <2>2. InHandler("host")' <=> InHandler("host")
    BY <1>2, <1>4, <1>6 DEF Scan, Test, Read, Load, Raise, CqLoad, Goes, InHandler, DispatchTypeOK, Threads
  <2>3. pc["host"] = "cq load" <=> to = "cq store"
    BY <1>2, <1>3, <1>4, <1>6 DEF Scan, Test, Read, Load, Raise, CqLoad, Goes, DispatchTypeOK, Threads
  <2>4. pc["host"] # "cq store"
    BY <1>6 DEF Scan, Test, Read, Load, Raise, CqLoad, Goes
  <2>5. PostedTail' = PostedTail
    BY <1>2, <1>4, <2>1, <2>3, <2>4, ControlFacts DEF PostedTail, Posting, Threads
  <2>6. \A i \in CqSlots : PendingCq(i) => PendingCq(i)'
    BY <1>1, <2>1 DEF PendingCq
  <2> QED
    BY <1>1, <1>2, <2>2, <2>5, <2>6, AnswersKept
<1> QED
  BY <1>5, <1>6

LEMMA QuietSteps ==
    ASSUME SerialInv, UNCHANGED <<nextCid, cid, posted, outstanding, sqHead, cqPhase, sqTail, cqe, cqHead,
                                  devSqHead, devCqTail, starting>>,
           \/ pc' = pc
           \/ \E to \in {"out", "scan", "test", "done"} : pc' = [pc EXCEPT !["sim"] = to]
    PROVE  AnswersInv'
<1>1. DispatchTypeOK /\ ControlInv /\ AnswersInv
  BY DEF SerialInv
<1>2. pc'["host"] = pc["host"] /\ (pc'["sim"] \in {"out", "scan", "test", "done"})
  BY <1>1 DEF DispatchTypeOK, ControlInv, Threads
<1>3. PostedTail' = PostedTail /\ (InHandler("host")' <=> InHandler("host"))
  BY <1>1, <1>2, ControlFacts DEF PostedTail, Posting, InHandler, Threads
<1>4. \A i \in CqSlots : PendingCq(i) => PendingCq(i)'
  BY DEF PendingCq
<1> QED
  BY <1>1, <1>3, <1>4, AnswersKept

LEMMA AnswersStep ==
    ASSUME SQEntries - 1 <= CidMax - CidInit, SerialInv, [SerialNext]_dispatchVars
    PROVE  AnswersInv'
<1>0. ControlInv' /\ DispatchTypeOK /\ ControlInv
  BY ControlStep DEF SerialInv
<1>1. CASE UNCHANGED dispatchVars
  BY <1>1, QuietSteps DEF dispatchVars, callVars, vars, hostVars, sqVars, cqVars, devVars
<1>2. ASSUME SimThread, Serial' PROVE AnswersInv'
  <2>1. UNCHANGED <<vars, starting>> /\ \E to \in {"out", "scan", "test", "done"} : pc' = [pc EXCEPT !["sim"] = to]
    BY <1>0, <1>2, SimStep
  <2> QED
    BY <2>1, QuietSteps DEF vars, hostVars, sqVars, cqVars, devVars
<1>3. ASSUME OtherCall PROVE AnswersInv'
  <2>1. pc["host"] = "out" /\ UNCHANGED callVars
    BY <1>3 DEF OtherCall
  <2>2. ASSUME NEW c \in Commands, ReuseCmd(c) PROVE AnswersInv'
    BY <2>1, <2>2, QuietSteps DEF ReuseCmd, callVars, sqVars, cqVars, devVars
  <2> QED
    BY <1>3, <2>1, <2>2, GetAnswers DEF OtherCall
<1>4. ASSUME CheckCommands("host") PROVE AnswersInv'
  BY <1>0, <1>4, QuietHostThread, StoreAnswers, HandleAnswers DEF CheckCommands
<1> QED
  BY <1>1, <1>2, <1>3, <1>4, PostCommandAnswers, PostReturnsAnswers
  DEF SerialNext, DispatchNext, SimThread, Threads

LEMMA AnswersInit == DispatchInit => AnswersInv
<1> SUFFICES ASSUME DispatchInit PROVE AnswersInv
  OBVIOUS
<1>1. /\ starting = NoCmd /\ Recorded = [k \in Cids |-> NoCmd]
      /\ posted = [c \in Commands |-> FALSE]
      /\ PostedTail = 0 /\ ~InHandler("host")
  BY DEF DispatchInit, Init, Recorded, PostedTail, Posting, InHandler, Threads
<1>2. /\ cqHead = 0 /\ sqHead = 0 /\ devSqHead = 0 /\ sqTail = 0 /\ cqPhase = 1
      /\ cqe = [i \in CqSlots |-> ZeroCqe]
  BY DEF DispatchInit, Init
<1>3. \A i \in CqSlots : ~Answered(i)
  BY <1>1, <1>2, QueueSizesAssumption DEF Answered, Holds, Dist, CqSlots, Slots
<1>4. PhasesInv
  BY <1>2, <1>3 DEF PhasesInv, LapPhase, CqSlots, Slots, ZeroCqe
<1>5. PlacesInv
  BY <1>1, <1>2, <1>3 DEF PlacesInv, Dist
<1>6. KeysInv /\ AgesInv
  BY <1>1, <1>3 DEF KeysInv, AgesInv
<1> QED
  BY <1>4, <1>5, <1>6 DEF AnswersInv

(* The inductive invariant, with enough CIDs for the submission queue.      *)
THEOREM SerialCorrect ==
    ASSUME SQEntries - 1 <= CidMax - CidInit
    PROVE  SerialSpec => []SerialInv
<1>1. DispatchInit => SerialInv
  BY ControlInit, AnswersInit DEF SerialInv
<1>2. SerialInv /\ [SerialNext]_dispatchVars => SerialInv'
  BY ControlStep, AnswersStep DEF SerialInv
<1> QED
  BY <1>1, <1>2, PTL DEF SerialSpec
-----------------------------------------------------------------------------
(* The host never takes the entry being posted for one already there, and   *)
(* never loses one: pending completions stay answered while one is posted.  *)
LEMMA PendingIsAnswered ==
    ASSUME SerialInv, NEW i \in CqSlots, PendingCq(i)
    PROVE  Answered(i)
<1>1. TypeOK /\ ControlInv
  BY DEF SerialInv, DispatchTypeOK
<1>2. CASE pc["host"] \in {"cq load", "cq store"}
  <2>1. ~CqFull
    BY <1>1, <1>2 DEF ControlInv
  <2>2. PostedTail = Peek(devCqTail, CQEntries)
    BY <1>1, <1>2, ControlFacts
  <2> QED
    BY <1>1, <2>1, <2>2, SlotAtTail DEF Answered
<1>3. CASE pc["host"] \notin {"cq load", "cq store"}
  BY <1>1, <1>3, ControlFacts DEF Answered, PendingCq
<1> QED
  BY <1>2, <1>3

(* When start_cmd has returned, the completion is in the queue.             *)
THEOREM CompletedOnReturnCorrect ==
    ASSUME SQEntries - 1 <= CidMax - CidInit
    PROVE  SerialSpec => []CompletedOnReturn
<1>1. SerialInv => CompletedOnReturn
  <2> SUFFICES ASSUME SerialInv, NEW k \in Cids, outstanding[k] # NoCmd
               PROVE  \E i \in CqSlots : PendingCq(i) /\ cqe[i].cid = k /\ cqe[i].cmd = outstanding[k]
    BY DEF CompletedOnReturn
  <2>1. KeysInv /\ TypeOK /\ ControlInv
    BY DEF SerialInv, AnswersInv, DispatchTypeOK
  <2>2. k # cid[starting] \/ starting = NoCmd
    BY <2>1 DEF KeysInv
  <2>3. Recorded[k] = outstanding[k]
    BY <2>1, <2>2 DEF Recorded, TypeOK, ControlInv
  <2>4. Recorded[k] # starting
    BY <2>1, <2>2, <2>3 DEF KeysInv
  <2>5. PICK i \in CqSlots : PendingCq(i) /\ cqe[i].cid = k
    BY <2>1, <2>3, <2>4 DEF KeysInv
  <2>6. cqe[i].cmd = Recorded[k]
    BY <2>1, <2>5, PendingIsAnswered DEF KeysInv
  <2> QED
    BY <2>3, <2>5, <2>6
<1> QED
  BY SerialCorrect, <1>1, PTL

(* The CID a command is about to get is free.                               *)
THEOREM SimulatorNeverReusesCidCorrect ==
    ASSUME SQEntries - 1 <= CidMax - CidInit
    PROVE  SerialSpec => []SimulatorNeverReusesCid
<1>1. SerialInv => SimulatorNeverReusesCid
  <2> SUFFICES ASSUME SerialInv, pc["host"] = "out", ~OneUnit!SqFull PROVE OneUnit!CidIsFree
    BY DEF SimulatorNeverReusesCid, OneUnit!InOrderNeverReusesCid
  <2>1. starting = NoCmd /\ Recorded = outstanding
    BY AtRest
  <2>2. ~SqFull
    BY DEF OneUnit!SqFull, OneUnit!IsFull, OneUnit!Peek, SqFull, IsFull, Peek
  <2> QED
    BY <2>1, <2>2, NextCidIsFree DEF OneUnit!CidIsFree
<1> QED
  BY SerialCorrect, <1>1, PTL

(* A handler raises only if the host left the completion queue full.        *)
LEMMA FullQueueFacts ==
    ASSUME SerialInv, pc["host"] = "raised"
    PROVE  /\ OnTheirWay = {cqe[i].cmd : i \in CqSlots \ {devCqTail}} \union {starting}
           /\ devCqTail \in CqSlots
           /\ starting \notin {cqe[i].cmd : i \in CqSlots \ {devCqTail}}
           /\ \A i, j \in CqSlots \ {devCqTail} : cqe[i].cmd = cqe[j].cmd => i = j
<1>1. TypeOK /\ KeysInv /\ AgesInv /\ CqFull /\ starting # NoCmd /\ starting \in Commands /\ cid[starting] \in Cids
  BY DEF SerialInv, AnswersInv, DispatchTypeOK, ControlInv
<1>2. PostedTail = devCqTail
  BY ControlFacts DEF SerialInv
<1>3. /\ CQEntries \in Nat \ {0} /\ cqHead \in Slots(CQEntries) /\ devCqTail \in Slots(CQEntries)
      /\ CqSlots = Slots(CQEntries)
  BY <1>1, SlotFacts DEF CqSlots
<1>4. \A i \in CqSlots : PendingCq(i) <=> i # devCqTail
  BY <1>1, <1>3 DEF CqFull, IsFull, Peek, PendingCq, Holds, Dist, Slots
<1>5. \A i \in CqSlots : Answered(i) <=> i # devCqTail
  BY <1>2, <1>4 DEF Answered, PendingCq
<1>6. ASSUME NEW i \in CqSlots, i # devCqTail
      PROVE  /\ cqe[i].cid \in Cids /\ cqe[i].cmd \in Commands /\ Recorded[cqe[i].cid] = cqe[i].cmd
             /\ cid[cqe[i].cmd] = cqe[i].cid
             /\ posted[cqe[i].cmd] \/ cqe[i].cmd = starting
             /\ AgeAt(cqe[i].cid, nextCid) + Dist(cqHead, i, CQEntries) = Window
  BY <1>1, <1>5, <1>6, NoCmdAssumption DEF KeysInv, AgesInv
<1>7. ASSUME NEW i \in CqSlots, i # devCqTail, NEW j \in CqSlots, j # devCqTail, cqe[i].cmd = cqe[j].cmd
      PROVE  i = j
  <2>1. Dist(cqHead, i, CQEntries) = Dist(cqHead, j, CQEntries)
    <3>1. AgeAt(cqe[i].cid, nextCid) \in Int /\ cqe[i].cid = cqe[j].cid
      BY <1>1, <1>6, <1>7, AgeFacts DEF TypeOK
    <3>2. Dist(cqHead, i, CQEntries) \in Int /\ Dist(cqHead, j, CQEntries) \in Int
      BY <1>3, DistIsSlot DEF Slots
    <3>3. AgeAt(cqe[i].cid, nextCid) + Dist(cqHead, i, CQEntries) = AgeAt(cqe[i].cid, nextCid) + Dist(cqHead, j, CQEntries)
      BY <1>6, <1>7, <3>1
    <3>4. \A a, x, y \in Int : a + x = a + y => x = y
      OBVIOUS
    <3> QED
      BY <3>1, <3>2, <3>3, <3>4
  <2> QED
    BY <1>3, <2>1, DistInjective
<1>8. ASSUME NEW i \in CqSlots, i # devCqTail PROVE cqe[i].cmd # starting
  <2> SUFFICES ASSUME cqe[i].cmd = starting PROVE FALSE
    OBVIOUS
  <2>1. AgeAt(cqe[i].cid, nextCid) = 1
    BY <1>1, <1>6, <1>8 DEF AgesInv
  <2>2. Window = Dist(cqHead, devCqTail, CQEntries) + 1
    <3>1. InHandler("host") /\ devSqHead = sqTail /\ PlacesInv
      BY DEF InHandler, SerialInv, ControlInv, InQueue, AnswersInv
    <3> QED
      BY <1>2, <3>1 DEF PlacesInv, Window
  <2>3. Dist(cqHead, i, CQEntries) \in Int /\ Dist(cqHead, devCqTail, CQEntries) \in Int
    BY <1>3, DistIsSlot DEF Slots
  <2>4. AgeAt(cqe[i].cid, nextCid) + Dist(cqHead, i, CQEntries) = Window
    BY <1>6, <1>8
  <2>5. Dist(cqHead, i, CQEntries) = Dist(cqHead, devCqTail, CQEntries)
    BY <2>1, <2>2, <2>3, <2>4
  <2> QED
    BY <1>3, <1>8, <2>5, DistInjective
<1>9. ASSUME NEW c \in Commands, posted[c], c # starting
      PROVE  \E i \in CqSlots \ {devCqTail} : cqe[i].cmd = c
  <2>1. cid[c] \in Cids /\ Recorded[cid[c]] = c /\ c # NoCmd
    BY <1>1, <1>9, NoCmdAssumption DEF KeysInv
  <2>2. PICK i \in CqSlots : PendingCq(i) /\ cqe[i].cid = cid[c]
    BY <1>1, <1>9, <2>1 DEF KeysInv
  <2> QED
    BY <1>4, <1>6, <2>1, <2>2
<1>10. OnTheirWay = {cqe[i].cmd : i \in CqSlots \ {devCqTail}} \union {starting}
  BY <1>1, <1>6, <1>9 DEF OnTheirWay
<1> QED
  BY <1>3, <1>7, <1>8, <1>10

(* A handler raises in check_commands only when the host has at least as    *)
(* many commands on their way as the completion queue has slots.            *)
THEOREM RaisesOnlyWhenFullCorrect ==
    ASSUME SQEntries - 1 <= CidMax - CidInit
    PROVE  SerialSpec => []RaisesOnlyWhenFull
<1>1. ASSUME SerialInv, pc["host"] = "raised" PROVE Cardinality(OnTheirWay) >= CQEntries
  <2> DEFINE S == CqSlots \ {devCqTail}
             T == {cqe[i].cmd : i \in S}
             f == [i \in S |-> cqe[i].cmd]
  <2>1. /\ OnTheirWay = T \union {starting} /\ starting \notin T
        /\ devCqTail \in CqSlots
        /\ \A i, j \in S : cqe[i].cmd = cqe[j].cmd => i = j
    BY <1>1, FullQueueFacts
  <2>2. IsFiniteSet(CqSlots) /\ Cardinality(CqSlots) = CQEntries /\ CQEntries \in Nat
    BY QueueSizesAssumption, FS_Interval DEF CqSlots, Slots
  <2>3. IsFiniteSet(S) /\ Cardinality(S) = CQEntries - 1
    BY <2>1, <2>2, FS_RemoveElement
  <2>4. f \in Bijection(S, T)
    BY <2>1 DEF Bijection, Injection, Surjection, IsInjective
  <2>5. IsFiniteSet(T) /\ Cardinality(T) = CQEntries - 1
    <3>1. ExistsBijection(S, T)
      BY <2>4 DEF ExistsBijection
    <3> HIDE DEF S, T
    <3> QED
      BY <2>3, <3>1, FS_Bijection
  <2>6. Cardinality(T \union {starting}) = CQEntries - 1 + 1
    <3> HIDE DEF S, T
    <3> QED
      BY <2>1, <2>5, FS_AddElement
  <2> QED
    BY <2>1, <2>2, <2>6
<1>2. SerialInv => RaisesOnlyWhenFull
  <2>1. SerialInv => pc["sim"] # "raised"
    BY DEF SerialInv, ControlInv
  <2> QED
    BY <1>1, <2>1 DEF RaisesOnlyWhenFull, Threads
<1> QED
  BY SerialCorrect, <1>2, PTL
-----------------------------------------------------------------------------
(***************************************************************************)
(* The dispatcher implements QueuePair with one unit.  Three steps of the   *)
(* dispatcher are steps of QueuePair: the call of post_command starts the   *)
(* command, the store of sq.head fetches it, and the handler completes it,  *)
(* which moves the mapped tail before the real one.  All others stutter.    *)
(***************************************************************************)
LEMMA MappedState ==
    ControlInv =>
      /\ PostedTail = IF pc["host"] \in {"cq load", "cq store"} THEN Peek(devCqTail, CQEntries) ELSE devCqTail
      /\ Executing = IF pc["host"] \in {"handle", "raised"} THEN Entry ELSE Idle
BY ControlFacts DEF InHandler

LEMMA MappedNextState ==
    ControlInv' =>
      /\ PostedTail' = IF pc'["host"] \in {"cq load", "cq store"} THEN Peek(devCqTail', CQEntries) ELSE devCqTail'
      /\ Executing' = IF pc'["host"] \in {"handle", "raised"} THEN Entry' ELSE Idle
<1>1. (ControlInv =>
        /\ PostedTail = IF pc["host"] \in {"cq load", "cq store"} THEN Peek(devCqTail, CQEntries) ELSE devCqTail
        /\ Executing = IF pc["host"] \in {"handle", "raised"} THEN Entry ELSE Idle)'
  BY MappedState, PTL
<1> QED
  BY <1>1 DEF Peek, Idle, ZeroSqe

LEMMA MappedStutter ==
    ASSUME UNCHANGED <<nextCid, cid, posted, complete, result, outstanding, sqHead, cqPhase, sqe, sqTail, cqe,
                       cqHead, devSqHead, starting>>,
           PostedTail' = PostedTail, Executing' = Executing
    PROVE  UNCHANGED OneUnit!vars
<1>1. Recorded' = Recorded
  BY DEF Recorded
<1> QED
  BY <1>1 DEF OneUnit!vars, OneUnit!hostVars, OneUnit!sqVars, OneUnit!cqVars, OneUnit!devVars

LEMMA OneUnitInit == DispatchInit => OneUnit!Init
<1> SUFFICES ASSUME DispatchInit PROVE OneUnit!Init
  OBVIOUS
<1>1. ControlInv /\ Init /\ pc["host"] = "out" /\ starting = NoCmd
  BY ControlInit DEF DispatchInit, Threads
<1>2. PostedTail = 0 /\ Executing = Idle
  BY <1>1, MappedState DEF Init
<1>3. [c \in Commands |-> posted[c] \/ c = starting] = [c \in Commands |-> FALSE]
  BY <1>1, NoCmdAssumption DEF Init
<1>4. Recorded = [k \in Cids |-> NoCmd]
  BY <1>1 DEF Init, Recorded
<1> QED
  BY <1>1, <1>2, <1>3, <1>4
  DEF Init, OneUnit!Init, OneUnit!Idle, OneUnit!ZeroSqe, OneUnit!ZeroCqe, OneUnit!Cids, OneUnit!SqSlots,
      OneUnit!CqSlots, OneUnit!Slots, Idle, ZeroSqe, ZeroCqe, Cids, SqSlots, CqSlots, Slots

(* post_command writes the entry and rings the doorbell.                    *)
LEMMA PostCommandIsStartCmd ==
    ASSUME DispatchTypeOK, ControlInv, ControlInv', NEW c \in Commands, PostCommand(c), Serial'
    PROVE  OneUnit!StartCmd(c)
<1>1. /\ MayStart(c) /\ ~SqFull
      /\ nextCid' = CidAfter(nextCid)
      /\ cid' = [cid EXCEPT ![c] = nextCid]
      /\ sqe' = [sqe EXCEPT ![sqTail] = [cid |-> nextCid, cmd |-> c]]
      /\ sqTail' = Peek(sqTail, SQEntries)
      /\ starting' = c
      /\ UNCHANGED <<posted, complete, result, outstanding, sqHead, cqPhase, cqVars, devVars>>
  BY DEF PostCommand
<1>2. c # NoCmd /\ starting = NoCmd /\ pc["host"] = "out" /\ pc'["host"] = "scan"
  BY PostCommandControl DEF PostCommand, Goes
<1>3. PostedTail' = PostedTail /\ Executing' = Executing
  BY <1>1, <1>2, MappedState, MappedNextState DEF devVars
<1>4. /\ Recorded = outstanding /\ Recorded' = [outstanding EXCEPT ![nextCid] = c]
      /\ cid \in [Commands -> Cids \union {0}] /\ posted \in [Commands -> BOOLEAN]
  BY <1>1, <1>2 DEF Recorded, DispatchTypeOK, TypeOK
<1>5. [d \in Commands |-> posted'[d] \/ d = starting']
        = [[d \in Commands |-> posted[d] \/ d = starting] EXCEPT ![c] = TRUE]
  BY <1>1, <1>2, <1>4, NoCmdAssumption
<1>6. OneUnit!MayStart(c) /\ ~OneUnit!SqFull
  BY <1>1, <1>2, <1>4
  DEF MayStart, SqFull, IsFull, Peek, Cids, OneUnit!MayStart, OneUnit!SqFull, OneUnit!IsFull, OneUnit!Peek, OneUnit!Cids
<1> QED
  BY <1>1, <1>3, <1>4, <1>5, <1>6
  DEF OneUnit!StartCmd, OneUnit!CidAfter, OneUnit!Peek, OneUnit!cqVars, OneUnit!devVars, CidAfter, Peek, cqVars, devVars

(* The store of sq.head.                                                    *)
LEMMA StoreIsFetchCmd ==
    ASSUME DispatchTypeOK, ControlInv, ControlInv', Store("host")
    PROVE  OneUnit!FetchCmd("sim")
<1>1. /\ pc["host"] = "store" /\ pc' = [pc EXCEPT !["host"] = "handle"]
      /\ devSqHead' = Peek(devSqHead, SQEntries)
      /\ UNCHANGED <<hostVars, sqVars, cqVars, devCqTail, starting>>
  BY DEF Store, Goes, SqNext, ControlInv
<1>2. pc'["host"] = "handle"
  BY <1>1 DEF DispatchTypeOK, Threads
<1>3. InQueue /\ sqe[devSqHead] = Entry /\ Entry' = Entry
  BY <1>1 DEF ControlInv, Entry, hostVars
<1>4. Executing = Idle /\ Executing' = Entry /\ PostedTail' = PostedTail
  BY <1>1, <1>2, <1>3, MappedState, MappedNextState
<1>5. OneUnit!SqPending
  <2>1. NumEntries(devSqHead, sqTail, SQEntries) = 1
    BY <1>3, CountFacts DEF SqCount
  <2> QED
    BY <2>1 DEF NumEntries, Peek, OneUnit!SqPending, OneUnit!NumEntries, OneUnit!Peek
<1>6. Recorded' = Recorded
  BY <1>1 DEF Recorded, hostVars
<1> QED
  BY <1>1, <1>3, <1>4, <1>5, <1>6
  DEF OneUnit!FetchCmd, OneUnit!Idle, OneUnit!ZeroSqe, OneUnit!Peek, OneUnit!hostVars, OneUnit!sqVars,
      OneUnit!cqVars, Idle, ZeroSqe, Peek, hostVars, sqVars, cqVars

(* The new entry in its slot.                                               *)
LEMMA HandleIsCompleteCmd ==
    ASSUME DispatchTypeOK, ControlInv, ControlInv', Handle("host")
    PROVE  OneUnit!CompleteCmd("sim")
<1>1. /\ pc["host"] = "handle" /\ pc' = [pc EXCEPT !["host"] = "cq load"]
      /\ ~HandlerRaises("host")
      /\ cqe' = [cqe EXCEPT ![devCqTail] = CqeOf("host")]
      /\ UNCHANGED <<hostVars, sqVars, cqHead, devSqHead, devCqTail, starting>>
  BY DEF Handle, Goes
<1>2. pc'["host"] = "cq load" /\ ~CqFull /\ unit["host"] = Entry /\ Entry # Idle
  BY <1>1, RaiseFacts DEF DispatchTypeOK, Threads
<1>3. /\ Executing = Entry /\ Executing' = Idle
      /\ PostedTail = devCqTail /\ PostedTail' = Peek(devCqTail, CQEntries)
  BY <1>1, <1>2, MappedState, MappedNextState
<1>4. Recorded' = Recorded
  BY <1>1 DEF Recorded, hostVars
<1>5. OneUnit!CqeOf("sim") = CqeOf("host")
  BY <1>2, <1>3 DEF CqeOf, OneUnit!CqeOf
<1> QED
  BY <1>1, <1>2, <1>3, <1>4, <1>5
  DEF OneUnit!CompleteCmd, OneUnit!CqFull, OneUnit!IsFull, OneUnit!Idle, OneUnit!ZeroSqe, OneUnit!Peek,
      OneUnit!hostVars, OneUnit!sqVars, CqFull, IsFull, Idle, ZeroSqe, Peek, hostVars, sqVars

(* The other steps of the host's thread.                                    *)
LEMMA QuietIsStutter ==
    ASSUME DispatchTypeOK, ControlInv, ControlInv',
           \/ Scan("host") \/ Test("host") \/ Read("host") \/ Load("host")
           \/ Raise("host") \/ CqLoad("host") \/ CqStore("host")
    PROVE  UNCHANGED OneUnit!vars
<1>1. UNCHANGED <<nextCid, cid, posted, complete, result, outstanding, sqHead, cqPhase, sqe, sqTail, cqe,
                  cqHead, devSqHead, starting>>
  BY DEF Scan, Test, Read, Load, Raise, CqLoad, CqStore, vars, hostVars, sqVars, cqVars, devVars
<1>2. Entry' = Entry
  BY <1>1 DEF Entry
<1>3. CASE CqStore("host")
  <2>1. pc["host"] = "cq store" /\ pc'["host"] = "test" /\ devCqTail' = Peek(devCqTail, CQEntries)
    BY <1>3 DEF CqStore, Goes, ControlInv, DispatchTypeOK, Threads
  <2>2. PostedTail' = PostedTail /\ Executing' = Executing
    BY <2>1, MappedState, MappedNextState
  <2> QED
    BY <1>1, <2>2, MappedStutter
<1>4. CASE Raise("host")
  <2>1. pc["host"] = "handle" /\ pc'["host"] = "raised" /\ devCqTail' = devCqTail
    BY <1>4 DEF Raise, Goes, DispatchTypeOK, Threads, vars, devVars
  <2>2. PostedTail' = PostedTail /\ Executing' = Executing
    BY <1>2, <2>1, MappedState, MappedNextState
  <2> QED
    BY <1>1, <2>2, MappedStutter
<1>5. CASE CqLoad("host")
  <2>1. pc["host"] = "cq load" /\ pc'["host"] = "cq store" /\ devCqTail' = devCqTail
    BY <1>5 DEF CqLoad, Goes, DispatchTypeOK, Threads, vars, devVars
  <2>2. PostedTail' = PostedTail /\ Executing' = Executing
    BY <2>1, MappedState, MappedNextState
  <2> QED
    BY <1>1, <2>2, MappedStutter
<1>6. CASE Scan("host") \/ Test("host") \/ Read("host") \/ Load("host")
  <2>1. pc["host"] \in {"scan", "test", "read", "load"} /\ devCqTail' = devCqTail
    BY <1>6 DEF Scan, Test, Read, Load, Goes, vars, devVars
  <2>2. pc'["host"] \in {"test", "done", "read", "load", "store"}
    BY <1>6 DEF Scan, Test, Read, Load, Goes, DispatchTypeOK, Threads
  <2>3. PostedTail' = PostedTail /\ Executing' = Executing
    BY <2>1, <2>2, MappedState, MappedNextState
  <2> QED
    BY <1>1, <2>3, MappedStutter
<1> QED
  BY <1>3, <1>4, <1>5, <1>6

(* post_command has returned: QueuePair recorded the command before.        *)
LEMMA PostReturnsIsStutter ==
    ASSUME DispatchTypeOK, ControlInv, ControlInv', PostReturns
    PROVE  UNCHANGED OneUnit!vars
<1>1. /\ outstanding' = [outstanding EXCEPT ![cid[starting]] = starting]
      /\ posted' = [posted EXCEPT ![starting] = TRUE]
      /\ starting' = NoCmd
      /\ UNCHANGED <<nextCid, cid, complete, result, sqHead, cqPhase, sqVars, cqVars, devVars>>
  BY DEF PostReturns
<1>2. /\ starting \in Commands /\ starting # NoCmd /\ pc["host"] = "done" /\ pc'["host"] = "out"
      /\ posted \in [Commands -> BOOLEAN]
  BY PostReturnsControl, NoCmdAssumption DEF DispatchTypeOK, TypeOK
<1>3. Recorded' = Recorded
  BY <1>1, <1>2 DEF Recorded
<1>4. [c \in Commands |-> posted'[c] \/ c = starting'] = [c \in Commands |-> posted[c] \/ c = starting]
  BY <1>1, <1>2, NoCmdAssumption
<1>5. PostedTail' = PostedTail /\ Executing' = Executing
  BY <1>1, <1>2, MappedState, MappedNextState DEF devVars
<1> QED
  BY <1>1, <1>3, <1>4, <1>5
  DEF OneUnit!vars, OneUnit!hostVars, OneUnit!sqVars, OneUnit!cqVars, OneUnit!devVars, sqVars, cqVars, devVars

(* Calls of the host between two calls of post_command.                     *)
LEMMA OtherCallIsOneUnits ==
    ASSUME DispatchTypeOK, ControlInv, ControlInv', OtherCall
    PROVE  OneUnit!PatientNext
<1>1. pc["host"] = "out" /\ UNCHANGED callVars /\ starting = NoCmd
  BY DEF OtherCall, ControlInv
<1>2. pc'["host"] = "out" /\ starting' = NoCmd
  BY <1>1 DEF callVars
<1>3. /\ PostedTail = devCqTail /\ PostedTail' = devCqTail' /\ Executing = Idle /\ Executing' = Idle
      /\ Recorded = outstanding /\ Recorded' = outstanding'
      /\ posted \in [Commands -> BOOLEAN] /\ posted' \in [Commands -> BOOLEAN]
  <2>1. DispatchTypeOK'
    BY OtherCallControl
  <2> QED
    BY <1>1, <1>2, <2>1, MappedState, MappedNextState DEF Recorded, DispatchTypeOK, TypeOK
<1>4. /\ [c \in Commands |-> posted[c] \/ c = starting] = posted
      /\ [c \in Commands |-> posted'[c] \/ c = starting'] = posted'
  BY <1>1, <1>2, <1>3, NoCmdAssumption
<1>5. ASSUME NEW c \in Commands, ReuseCmd(c) PROVE OneUnit!ReuseCmd(c)
  BY <1>3, <1>4, <1>5
  DEF ReuseCmd, OneUnit!ReuseCmd, sqVars, cqVars, devVars, OneUnit!sqVars, OneUnit!cqVars, OneUnit!devVars
<1>6. ASSUME GetCompletion PROVE OneUnit!GetCompletion
  BY <1>3, <1>4, <1>6
  DEF GetCompletion, OneUnit!GetCompletion, CompletionSeen, OneUnit!CompletionSeen, Cids, OneUnit!Cids,
      PhaseAt, OneUnit!PhaseAt, Peek, OneUnit!Peek, sqVars, devVars, OneUnit!sqVars, OneUnit!devVars
<1> QED
  BY <1>5, <1>6 DEF OtherCall, OneUnit!PatientNext

LEMMA OneUnitStep ==
    ASSUME DispatchTypeOK, ControlInv, [SerialNext]_dispatchVars
    PROVE  [OneUnit!PatientNext]_OneUnit!vars
<1>0. ControlInv'
  BY ControlStep
<1>1. CASE UNCHANGED dispatchVars
  <2>1. UNCHANGED <<nextCid, cid, posted, complete, result, outstanding, sqHead, cqPhase, sqe, sqTail, cqe,
                    cqHead, devSqHead, starting>>
    BY <1>1 DEF dispatchVars, callVars, vars, hostVars, sqVars, cqVars, devVars
  <2>2. PostedTail' = PostedTail /\ Executing' = Executing
    <3>1. pc' = pc /\ devCqTail' = devCqTail /\ Entry' = Entry
      BY <1>1 DEF dispatchVars, callVars, vars, hostVars, devVars, Entry
    <3>2. CASE pc["host"] \in {"cq load", "cq store"}
      BY <1>0, <3>1, <3>2, MappedState, MappedNextState
    <3>3. CASE pc["host"] \in {"handle", "raised"}
      BY <1>0, <3>1, <3>3, MappedState, MappedNextState
    <3>4. CASE pc["host"] \notin {"cq load", "cq store", "handle", "raised"}
      BY <1>0, <3>1, <3>4, MappedState, MappedNextState
    <3> QED
      BY <3>2, <3>3, <3>4
  <2> QED
    BY <2>1, <2>2, MappedStutter
<1>2. ASSUME SimThread, Serial' PROVE UNCHANGED OneUnit!vars
  <2>1. UNCHANGED vars /\ UNCHANGED starting /\ pc["host"] = "out"
        /\ \E to \in {"out", "scan", "test", "done"} : pc' = [pc EXCEPT !["sim"] = to]
    BY <1>2, SimStep
  <2>2. pc'["host"] = "out"
    BY <2>1 DEF DispatchTypeOK, Threads
  <2>3. PostedTail' = PostedTail /\ Executing' = Executing
    BY <1>0, <2>1, <2>2, MappedState, MappedNextState DEF vars, devVars
  <2> QED
    BY <2>1, <2>3, MappedStutter DEF vars, hostVars, sqVars, cqVars, devVars
<1>3. ASSUME CheckCommands("host") PROVE OneUnit!PatientNext \/ UNCHANGED OneUnit!vars
  <2>1. Store("host") => OneUnit!FetchCmd("sim")
    BY <1>0, StoreIsFetchCmd
  <2>2. Handle("host") => OneUnit!CompleteCmd("sim")
    BY <1>0, HandleIsCompleteCmd
  <2> QED
    BY <1>0, <1>3, <2>1, <2>2, QuietIsStutter DEF CheckCommands, OneUnit!PatientNext, OneUnit!Device
<1>4. ASSUME NEW c \in Commands, PostCommand(c), Serial' PROVE OneUnit!PatientNext
  BY <1>0, <1>4, PostCommandIsStartCmd DEF OneUnit!PatientNext
<1> QED
  BY <1>0, <1>1, <1>2, <1>3, <1>4, PostReturnsIsStutter, OtherCallIsOneUnits
  DEF SerialNext, DispatchNext, SimThread, Threads

(* Splitting a fetch and a completion into loads and stores, and recording  *)
(* a command only after it was executed, is not visible to the host: every  *)
(* behaviour is one of QueuePair with a controller of one unit.             *)
THEOREM SerialImplementsQueuePair == SerialSpec => ImplementsQueuePair
<1>1. DispatchTypeOK /\ ControlInv /\ [SerialNext]_dispatchVars => [OneUnit!PatientNext]_OneUnit!vars
  BY OneUnitStep
<1> QED
  BY ControlCorrect, OneUnitInit, <1>1, PTL DEF SerialSpec, ImplementsQueuePair, OneUnit!PatientSpec
=============================================================================

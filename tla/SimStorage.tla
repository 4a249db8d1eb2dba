----------------------------- MODULE SimStorage -----------------------------
(***************************************************************************)
(* The commands the simulated controller executes, other than those that    *)
(* create and delete queues, and what they work on: namespaces, power state *)
(* and identify data (nvsim/cmd_handlers, GenericNVMeNVSimConfig).  A       *)
(* user's call - alloc, filling the buffer, sync_cmd, reading the buffer -  *)
(* is one step, since posted_command executes the command before start_cmd  *)
(* returns.  An exception of a handler comes out of the user's call.        *)
(*                                                                          *)
(* The user is either at a shell, with calls in any order, or runs a        *)
(* program like examples/rw.py to its end: identify, write at the LBAs of a *)
(* generator, start the generator again, read and compare.  It takes a      *)
(* number of LBAs with next(), as rw.py does, or iterates until the         *)
(* generator stops.                                                         *)
(***************************************************************************)
EXTENDS PrpCopy, LbaGen, FiniteSets

CONSTANTS
    Namespaces,   \* identifiers of the namespaces, 1 .. n
    NumLbas,      \* num_lbas of each
    BlockSize,    \* block_size of each, in cells
    PowerStates,  \* values of PS the user sets
    Slbas,        \* first LBAs the user names at the shell
    Lengths,      \* numbers of blocks he transfers there
    Sweeps,       \* what a program may be run with: namespace, transfer, initial state
                  \* and number of LBAs, 0 to iterate: [ns, nb, initial, cmds]
    MaxCalls      \* bound of the model on calls at the shell

ASSUME NamespacesAssumption == Namespaces # {} /\ Namespaces = 1 .. Cardinality(Namespaces)
ASSUME SizesAssumption ==
    /\ NumLbas \in [Namespaces -> Nat \ {0}] /\ BlockSize \in [Namespaces -> Nat \ {0}]
    /\ 0 \in PowerStates /\ PowerStates \subseteq Nat
    /\ Lengths \subseteq Nat \ {0} /\ Slbas \subseteq Nat /\ MaxCalls \in Nat

\* init_storage takes blocks of 512 and 4096 bytes only; a page has 2^12 or more.
ASSUME BlocksAssumption == \A ns \in Namespaces : BlockSize[ns] <= PageSize

ASSUME SweepsAssumption == Sweeps \subseteq [ns : Namespaces, nb : Nat, initial : Nat, cmds : Nat]

VARIABLES
    mm,      \* the mapped file of each namespace, cell by cell
    power,   \* config.power_state
    idData,  \* id_data.namespaces of the driver: [nsze, blockSize], or none
    reply,   \* the last call and its result
    calls,   \* calls made at the shell
    sweep    \* the program: its stage, parameters, generator, LBAs it was given

vars == <<mm, power, idData, reply, calls, sweep>>

NSIDs == Namespaces \union {0, Cardinality(Namespaces) + 1}
AllNamespaces == 2 ^ 16   \* stands for 0xFFFFFFFF
NoData == [nsze |-> 0, blockSize |-> 0]
NoGen == [nb |-> 0]

Result(op, ns, lba, n, out, data) ==
    [op |-> op, ns |-> ns, lba |-> lba, n |-> n, out |-> out, data |-> data]

(* init_storage: the file is truncated and extended to its size.            *)
ClearFiles == [ns \in Namespaces |-> [i \in 1 .. NumLbas[ns] * BlockSize[ns] |-> 0]]

Init ==
    /\ mm = ClearFiles
    /\ power = 0
    /\ idData = [ns \in Namespaces |-> NoData]
    /\ reply = Result("none", 0, 0, 0, "ok", <<>>)
    /\ calls = 0
    /\ sweep \in {[stage |-> "none", gen |-> NoGen, given |-> <<>>]}
         \union {[stage |-> "begin", gen |-> NoGen, given |-> <<>>, run |-> s] : s \in Sweeps}

-----------------------------------------------------------------------------
(* Reads and writes.                                                        *)
BlockSizeOf(ns) == IF ns \in Namespaces THEN BlockSize[ns] ELSE PageSize
Cells(ns, n) == n * BlockSizeOf(ns)

OutOfRange(ns, lba, n) == lba + n > NumLbas[ns]

(* NVSimRead and NVSimWrite: the namespace is an element of a list whose    *)
(* first is None; the range; then the copying, which may raise.             *)
IoOutcome(ns, lba, n, copyRaises) ==
    IF ns \notin Namespaces THEN "raised"
    ELSE IF OutOfRange(ns, lba, n) THEN "LBA Out of Range"
    ELSE IF copyRaises THEN "raised" ELSE "ok"

(* Fault: the offset in the file is in blocks.                              *)
StoredAtBlock(file, ns, lba, data) ==
    [i \in DOMAIN file |-> IF i \in lba + 1 .. lba + Len(data) THEN data[i - lba] ELSE file[i]]

(* The namespace's write, into the slice of the file.                       *)
Stored(file, ns, lba, data) ==
    LET start == lba * BlockSize[ns]
    IN  [i \in DOMAIN file |-> IF i \in start + 1 .. start + Len(data) THEN data[i - start] ELSE file[i]]

Payload(tag, n) == [i \in 1 .. n |-> 10 * tag + i]
FirstOf(data, n) == SubSeq(data, 1, IF Len(data) < n THEN Len(data) ELSE n)

(* The user allocates a buffer and fills it, which may raise; the handler   *)
(* takes the data out of it, and the file refuses data of another size.     *)
Write(ns, lba, n, data) ==
    LET size == Cells(ns, n)
        fresh == FreshBuffer(size)
        taken == FirstOf(GetData(SetData(fresh, data)), size)
        out == IF SetRaises(fresh, data) THEN "raised" ELSE IoOutcome(ns, lba, n, Len(taken) # size)
    IN  /\ reply' = Result("write", ns, lba, n, out, data)
        /\ mm' = IF out = "ok" THEN [mm EXCEPT ![ns] = Stored(@, ns, lba, taken)] ELSE mm
        /\ UNCHANGED <<power, idData>>

(* The handler fills the buffer, the user takes his data out of it.         *)
Read(ns, lba, n) ==
    LET size == Cells(ns, n)
        fresh == FreshBuffer(size)
        cells == SubSeq(mm[ns], lba * BlockSize[ns] + 1, (lba + n) * BlockSize[ns])
        out == IoOutcome(ns, lba, n, SetRaises(fresh, cells))
    IN  /\ reply' = Result("read", ns, lba, n, out,
                           IF out = "ok" THEN FirstOf(GetData(SetData(fresh, cells)), size) ELSE <<>>)
        /\ UNCHANGED <<mm, power, idData>>

-----------------------------------------------------------------------------
(* The other handlers.  A status is known to the user by its number alone:  *)
(* complete does not set the status code type.                              *)
Answers(op, ns, out, data) ==
    /\ reply' = Result(op, ns, 0, 0, out, data)
    /\ UNCHANGED mm

Flush(ns) ==
    /\ Answers("flush", ns,
               IF ns \in Namespaces \union {AllNamespaces} THEN "ok" ELSE "Invalid Namespace or Format", <<>>)
    /\ UNCHANGED <<power, idData>>

(* nvsim.namespaces does not exist; the namespaces are nvsim.config's.      *)
Format(ns) ==
    /\ Answers("format", ns, "raised", <<>>)
    /\ UNCHANGED <<power, idData>>

(* For page 0 nvsim.mps does not exist either, but an index as offset is    *)
(* refused before; for all others the status 9, command specific, reaches   *)
(* the user as the generic status 9.                                        *)
GetLogPage(lid, ot) ==
    /\ Answers("get log page", 0,
               IF lid # 0 THEN "Command Aborted due to Failed Fused Command"
               ELSE IF ot = 1 THEN "Invalid Field in Command" ELSE "raised", <<>>)
    /\ UNCHANGED <<power, idData>>

(* Of other features the status code is unbound.                            *)
GetFeature(fid) ==
    /\ Answers("get feature", 0, IF fid = "power" THEN "ok" ELSE "raised",
               IF fid = "power" THEN <<power>> ELSE <<>>)
    /\ UNCHANGED <<power, idData>>

(* The power state is set before the assertion that nothing is to be saved. *)
SetFeature(fid, ps, sv) ==
    /\ Answers("set feature", 0, IF fid = "power" /\ sv = 0 THEN "ok" ELSE "raised", <<>>)
    /\ power' = IF fid = "power" THEN ps ELSE power
    /\ UNCHANGED idData

(* Fault: every namespace has the size of the first.                        *)
IdNamespaceFirst(ns) == [nsze |-> NumLbas[1], blockSize |-> BlockSize[ns]]

IdNamespace(ns) == [nsze |-> NumLbas[ns], blockSize |-> BlockSize[ns]]

(* Identify and commands without a handler, sent by the user himself.       *)
Identify(cns, ns) ==
    /\ \/ cns \in {"controller", "namespace list", "uuid list"} /\ Answers("identify", ns, "ok", <<>>)
       \/ cns = "namespace" /\ ns \in Namespaces /\ Answers("identify", ns, "ok", <<IdNamespace(ns)>>)
       \/ cns = "namespace" /\ ns \notin Namespaces /\ Answers("identify", ns, "Invalid Namespace or Format", <<>>)
       \/ cns = "other" /\ Answers("identify", ns, "Invalid Field in Command", <<>>)
    /\ UNCHANGED <<power, idData>>

NotSupported ==
    /\ Answers("not supported", 0, "Invalid Field in Command", <<>>)
    /\ UNCHANGED <<power, idData>>

(* NVMeDeviceIdentifyData.initialize: the list of namespaces, and each of   *)
(* them; the block size comes out of the format FLBAS points to.            *)
Initialize ==
    /\ Answers("initialize", 0, "ok", <<>>)
    /\ idData' = [ns \in Namespaces |-> IdNamespace(ns)]
    /\ UNCHANGED power

(* cc_disable, init_admin_queues, cc_enable, create_io_queues: the config   *)
(* and its namespaces stay.                                                 *)
Restart ==
    /\ Answers("restart", 0, "ok", <<>>)
    /\ UNCHANGED <<power, idData>>

(* initiate_flr and the same again: there is a new config, whose namespaces *)
(* truncate their files.                                                    *)
FunctionReset ==
    /\ reply' = Result("reset", 0, 0, 0, "ok", <<>>)
    /\ mm' = ClearFiles
    /\ power' = 0
    /\ UNCHANGED idData

-----------------------------------------------------------------------------
ShellCall ==
    /\ sweep.stage = "none" /\ calls < MaxCalls
    /\ calls' = calls + 1
    /\ \/ \E ns \in NSIDs, lba \in Slbas, n \in Lengths :
            Write(ns, lba, n, Payload(calls + 1, Cells(ns, n))) \/ Read(ns, lba, n)
       \/ \E ns \in NSIDs \union {AllNamespaces} : Flush(ns) \/ Format(ns)
       \/ \E lid \in 0 .. 1, ot \in 0 .. 1 : GetLogPage(lid, ot)
       \/ \E fid \in {"power", "other"} : GetFeature(fid) \/ \E ps \in PowerStates, sv \in 0 .. 1 : SetFeature(fid, ps, sv)
       \/ \E cns \in {"controller", "namespace", "namespace list", "uuid list", "other"}, ns \in NSIDs : Identify(cns, ns)
       \/ NotSupported \/ Initialize \/ Restart \/ FunctionReset
    /\ UNCHANGED sweep

(* The program.                                                             *)
SweepNs == sweep.run.ns
SweepSize == Cells(SweepNs, sweep.run.nb)

(* id_data.initialize(), then the generator over what was identified.       *)
SweepBegins ==
    /\ sweep.stage = "begin"
    /\ Initialize
    /\ LET nsze == idData'[SweepNs].nsze
       IN  sweep' = IF MayGenerate(nsze, sweep.run.nb, sweep.run.initial)
                    THEN [sweep EXCEPT !.stage = "write", !.gen = NewGen(nsze, sweep.run.nb, sweep.run.initial)]
                    ELSE [sweep EXCEPT !.stage = "failed"]
    /\ UNCHANGED calls

(* The LBA comes from next() or from __next__, which also ends the loop.    *)
Iterates == sweep.run.cmds = 0
Drawn == IF Iterates THEN Advance(sweep.gen) ELSE Draw(sweep.gen)
LoopEnds == IF Iterates THEN sweep.gen.complete ELSE Len(sweep.given) = sweep.run.cmds

(* The next LBA of the loop, or "failed" with an exception.                 *)
Takes(gen, succeeds) ==
    sweep' = [sweep EXCEPT !.gen = gen, !.given = Append(@, Returned(gen)),
                           !.stage = IF succeeds THEN @ ELSE "failed"]

SweepWrites ==
    /\ sweep.stage = "write" /\ ~LoopEnds
    /\ LET gen == Drawn
           lba == Returned(gen)
       IN  /\ Write(SweepNs, lba, sweep.run.nb, Payload(lba, SweepSize))
           /\ Takes(gen, reply'.out = "ok")
    /\ UNCHANGED calls

(* The loop is over; the generator is reset for the second one.             *)
SweepTurns ==
    /\ sweep.stage = "write" /\ LoopEnds
    /\ sweep' = [sweep EXCEPT !.stage = "read", !.gen = Reset(@), !.given = <<>>]
    /\ UNCHANGED <<mm, power, idData, reply, calls>>

SweepReads ==
    /\ sweep.stage = "read" /\ ~LoopEnds
    /\ LET gen == Drawn
           lba == Returned(gen)
       IN  /\ Read(SweepNs, lba, sweep.run.nb)
           /\ Takes(gen, reply'.out = "ok" /\ reply'.data = Payload(lba, SweepSize))
    /\ UNCHANGED calls

SweepEnds ==
    /\ sweep.stage = "read" /\ LoopEnds
    /\ sweep' = [sweep EXCEPT !.stage = "verified"]
    /\ UNCHANGED <<mm, power, idData, reply, calls>>

SweepStep == SweepBegins \/ SweepWrites \/ SweepTurns \/ SweepReads \/ SweepEnds

Next == ShellCall \/ SweepStep

(* A program runs on until it has ended.  SweepStep is enabled exactly      *)
(* while it is running, which makes this its weak fairness.                 *)
Running == sweep.stage \in {"begin", "write", "read"}
Fairness == []<>(~Running) \/ []<><<SweepStep>>_vars

Spec == Init /\ [][Next]_vars /\ Fairness
-----------------------------------------------------------------------------
(* Files keep their size through every slice assignment of the handlers,   *)
(* and identify data says of a namespace what it is.                        *)
TypeOK ==
    /\ mm \in [Namespaces -> Seq(Nat)]
    /\ \A ns \in Namespaces : Len(mm[ns]) = NumLbas[ns] * BlockSize[ns]
    /\ power \in PowerStates
    /\ \A ns \in Namespaces : idData[ns] \in {NoData, [nsze |-> NumLbas[ns], blockSize |-> BlockSize[ns]]}
    /\ reply.ns \in NSIDs \union {AllNamespaces} /\ reply.lba \in Nat /\ reply.n \in Nat
    /\ calls \in 0 .. MaxCalls
    /\ sweep.stage \in {"none", "begin", "write", "read", "verified", "failed"}
    /\ sweep.given \in Seq(Nat)

(* The files are an array of blocks: a write that is reported as done has   *)
(* changed the blocks it names and nothing else, all of them; a read that is *)
(* reported as done has brought what the blocks hold; everything that fails, *)
(* in the user's code, with a status or inside a handler, changes no block,  *)
(* and only a function level reset clears them.                              *)
BlockContents ==
    [ns \in Namespaces |-> [lba \in 0 .. NumLbas[ns] - 1 |->
        SubSeq(mm[ns], lba * BlockSize[ns] + 1, (lba + 1) * BlockSize[ns])]]

Store == INSTANCE BlockStore WITH Blocks <- NumLbas, blocks <- BlockContents

(* The handlers of read, write and all others implement BlockStore.         *)
ImplementsBlockStore == Store!StoreSpec

(* A transfer within its namespace, of one page or less, or of three or     *)
(* more whole pages, succeeds, and a read brings all of it: the copying      *)
(* through segments loses and refuses nothing else.                          *)
FitsPages(size) == size <= PageSize \/ (PagesFor(size) > 2 /\ size % PageSize = 0)

WholePagesAreServed ==
    /\ reply.op \in {"read", "write"} /\ reply.ns \in Namespaces
    /\ reply.lba + reply.n <= NumLbas[reply.ns]
    /\ FitsPages(Cells(reply.ns, reply.n))
    => reply.out = "ok" /\ Len(reply.data) = Cells(reply.ns, reply.n)

(* The aligned positions of a namespace.                                    *)
Positions(ns, nb) == {k * nb : k \in 0 .. NumLbas[ns] \div nb - 1}

Given == {sweep.given[i] : i \in DOMAIN sweep.given}

SweepCovers ==
    /\ sweep.stage = "verified"
    /\ IF Iterates
       THEN /\ Given = Positions(SweepNs, sweep.run.nb)
            /\ Len(sweep.given) = Cardinality(Given)
       ELSE Given \subseteq Positions(SweepNs, sweep.run.nb) \ {0}

SweepFits == sweep.stage = "begin" /\ FitsPages(SweepSize)

(* A program whose transfers fit ends without an exception: no position the  *)
(* generator gives is out of range, and it finds at each what it wrote there.*)
(* One that iterates was given every aligned position of the namespace, and  *)
(* none twice; one that calls next() only positions other than 0.            *)
SweepReadsEveryBlock == SweepFits ~> SweepCovers
=============================================================================

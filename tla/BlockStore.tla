----------------------------- MODULE BlockStore -----------------------------
(***************************************************************************)
(* What namespaces promise to a host: an array of blocks that only a write  *)
(* which was accepted, and a reset of the device, change; a write changes   *)
(* the blocks it names and all of them, a read returns what they hold, from *)
(* the first on.  Nothing here knows of pages, PRPs or commands.            *)
(***************************************************************************)
EXTENDS Integers, Sequences

CONSTANTS
    Namespaces,   \* namespace identifiers
    Blocks,       \* number of blocks of each
    BlockSize     \* cells in a block of each

VARIABLES
    blocks,   \* contents of each block
    reply     \* the last request with its result

ZeroBlock(ns) == [i \in 1 .. BlockSize[ns] |-> 0]
Clear == [ns \in Namespaces |-> [lba \in 0 .. Blocks[ns] - 1 |-> ZeroBlock(ns)]]

StoreInit == blocks = Clear

(* Block number k, from 0, of data.                                         *)
BlockOf(ns, data, k) == SubSeq(data, k * BlockSize[ns] + 1, (k + 1) * BlockSize[ns])

Accepted(op) == reply'.op = op /\ reply'.out = "ok"

Put ==
    /\ Accepted("write")
    /\ LET r == reply'
           named == r.lba .. r.lba + r.n - 1
       IN  /\ named \subseteq DOMAIN blocks[r.ns]
           /\ blocks' = [blocks EXCEPT ![r.ns] =
                  [lba \in DOMAIN @ |-> IF lba \in named THEN BlockOf(r.ns, r.data, lba - r.lba) ELSE @[lba]]]

Get ==
    /\ Accepted("read")
    /\ LET r == reply'
           returned == Len(r.data) \div BlockSize[r.ns]
       IN  /\ returned \in 1 .. r.n
           /\ \A k \in 0 .. returned - 1 : BlockOf(r.ns, r.data, k) = blocks[r.ns][r.lba + k]
    /\ UNCHANGED blocks

(* Refused, or a request of another kind.                                   *)
Other ==
    /\ reply'.out # "ok" \/ reply'.op \notin {"write", "read", "reset"}
    /\ UNCHANGED blocks

Erase == Accepted("reset") /\ blocks' = Clear

StoreNext == Put \/ Get \/ Other \/ Erase

StoreSpec == StoreInit /\ [][StoreNext]_<<blocks, reply>>
=============================================================================

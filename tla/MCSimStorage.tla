---------------------------- MODULE MCSimStorage ----------------------------
(* Two namespaces: blocks of one page (4096), and of half a page.           *)
EXTENDS SimStorage

MCNumLbas == <<54, 108>>
MCBlockSize == <<2, 1>>

(* Transfers of one page, of three, and of two, over all positions; and     *)
(* with next(), few of them and more than there are.                        *)
MCSweeps ==
    {[ns |-> 1, nb |-> nb, initial |-> i, cmds |-> 0] : nb \in {1, 2, 3}, i \in {1, 11}} \union
    {[ns |-> 2, nb |-> nb, initial |-> i, cmds |-> 0] : nb \in {2, 6}, i \in {5, 16}} \union
    {[ns |-> 1, nb |-> 1, initial |-> 11, cmds |-> n] : n \in {7, 60}} \union
    {[ns |-> 2, nb |-> 2, initial |-> 5, cmds |-> 60]}
=============================================================================

---------------------------- MODULE CommandService ----------------------------
(***************************************************************************)
(* What a queue pair promises to the user of a command object: a command   *)
(* that was started is executed once, then reported once, and it is its    *)
(* own execution that is reported.  Nothing here knows of rings, CIDs or   *)
(* phase bits.                                                             *)
(***************************************************************************)
CONSTANTS Commands, NoCmd

VARIABLES
    stage,   \* where each command object is in its life
    report   \* the command whose execution the object reports, once it does

ServiceInit ==
    /\ stage = [c \in Commands |-> "idle"]
    /\ report = [c \in Commands |-> NoCmd]

Move(c, from, to) ==
    /\ stage[c] = from
    /\ stage' = [stage EXCEPT ![c] = to]

Start(c)   == Move(c, "idle", "started") /\ UNCHANGED report
Execute(c) == Move(c, "started", "executed") /\ UNCHANGED report
Report(c)  == Move(c, "executed", "reported") /\ report' = [report EXCEPT ![c] = c]
Reuse(c)   == Move(c, "reported", "idle") /\ UNCHANGED report

ServiceNext == \E c \in Commands : Start(c) \/ Execute(c) \/ Report(c) \/ Reuse(c)

ServiceSpec == ServiceInit /\ [][ServiceNext]_<<stage, report>>
=============================================================================

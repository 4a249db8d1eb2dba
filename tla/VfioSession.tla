----------------------------- MODULE VfioSession -----------------------------
(***************************************************************************)
(* NVMeDevicePhysical over SysVfioIfc (lone/system/linux/vfio.py): a        *)
(* process of the user opens drives and cleans them up as the fixtures of   *)
(* nvtest do, while root runs lone_setup.                                   *)
(*                                                                          *)
(* File descriptors are integers, which nobody closes but clean() and the   *)
(* end of the process; a group can be open once, until then.  Scripts, opening   *)
(* and cleaning are one step each: unbinding a drive waits in the kernel    *)
(* until no process uses it, and what a script does before it hands the     *)
(* node over is closed to the user.                                         *)
(***************************************************************************)
EXTENDS DriverBinding, Naturals

CONSTANT MaxHostCalls   \* bound of the model on scripts, opens and cleans

ASSUME MaxHostCallsAssumption == MaxHostCalls \in Nat

VARIABLES
    sys,        \* drivers, identifiers and nodes
    held,       \* of each group's file: closed, open, or claimed (in a container)
    object,     \* NVMeDevicePhysical of each drive: none, open, broken
    script,     \* of each drive: reclaimed (or never touched), exposed, or failed
                \* (and not exposed since)
    spoilt,     \* groups of the user's of which this process failed to open or clean a drive
    hostCalls,  \* calls so far
    hostResult  \* the last call, its drive, what script said before, and how it ended

hostVars == <<places, sys, held, object, script, spoilt, hostCalls, hostResult>>

NothingHeld == [g \in Groups |-> "closed"]
NoObjects == [d \in Drives |-> "none"]

HostInit ==
    /\ PlacesInit
    /\ sys = Booted
    /\ held = NothingHeld /\ object = NoObjects
    /\ script = [d \in Drives |-> "reclaimed"] /\ spoilt = {}
    /\ hostCalls = 0
    /\ hostResult = [fn |-> "none", drive |-> First, before |-> "reclaimed", out |-> "ok"]

(* The first drive exposed and open.                                        *)
OpenedInit ==
    /\ twins = FALSE /\ together = FALSE /\ fit = Drives
    /\ sys = Exposed(Booted, First, "nvme")
    /\ held = [NothingHeld EXCEPT ![GroupOf(First)] = "claimed"]
    /\ object = [NoObjects EXCEPT ![First] = "open"]
    /\ script = [d \in Drives |-> IF d = First THEN "exposed" ELSE "reclaimed"] /\ spoilt = {}
    /\ hostCalls = 0
    /\ hostResult = [fn |-> "open", drive |-> First, before |-> "exposed", out |-> "ok"]

Ends(fn, d, ok) ==
    /\ hostCalls < MaxHostCalls
    /\ hostCalls' = hostCalls + 1
    /\ hostResult' = [fn |-> fn, drive |-> d, before |-> script[d], out |-> IF ok THEN "ok" ELSE "raised"]
    /\ UNCHANGED places

(* The kernel lets go of a drive when its group is not in use; a script for *)
(* a neighbour of a drive in use is left out.                               *)
Expose(d) ==
    /\ held[GroupOf(d)] # "claimed"
    /\ \E taker \in Takers(sys, d) : sys' = Exposed(sys, d, taker)
    /\ script' = [script EXCEPT ![d] = IF sys'.raised THEN "failed" ELSE "exposed"]
    /\ Ends("expose", d, ~sys'.raised)
    /\ UNCHANGED <<held, object, spoilt>>

Reclaim(d, name) ==
    /\ held[GroupOf(d)] # "claimed"
    /\ sys' = Reclaimed(sys, d, name)
    /\ script' = [script EXCEPT ![d] = IF sys'.raised \/ @ = "failed" THEN "failed" ELSE "reclaimed"]
    /\ Ends("reclaim", d, ~sys'.raised)
    /\ UNCHANGED <<held, object, spoilt>>

-----------------------------------------------------------------------------
(* How far initialize comes, in its order: the node is there, it may be     *)
(* opened, by one, no member of the group has another driver, and the group *)
(* knows the drive.                                                         *)
GroupOpens(g) == sys.owner[g] = "user" /\ held[g] = "closed"
Viable(g) == \A d \in Members(g) : sys.driver[d] # "nvme"

Opens(d) == GroupOpens(GroupOf(d)) /\ Viable(GroupOf(d)) /\ sys.driver[d] = "vfio_pci"

(* What is left open, whether initialize returned or raised; a raise        *)
(* becomes NVMeDevicePhysicalNotFoundError.                                 *)
HeldAfter(g) ==
    IF ~GroupOpens(g) THEN held ELSE [held EXCEPT ![g] = IF Viable(g) THEN "claimed" ELSE "open"]

AllExposed(g) == \A d \in Members(g) : script[d] = "exposed"
InUse(g) == \E d \in Members(g) : object[d] # "none"

Spoils(d, fails) ==
    spoilt' = IF fails /\ sys.owner[GroupOf(d)] = "user" THEN spoilt \union {GroupOf(d)} ELSE spoilt

Open(d) ==
    /\ held' = HeldAfter(GroupOf(d))
    /\ object' = IF Opens(d) THEN [object EXCEPT ![d] = "open"] ELSE object
    /\ Spoils(d, ~Opens(d) /\ ~InUse(GroupOf(d)))
    /\ Ends("open", d, Opens(d))
    /\ UNCHANGED <<sys, script>>

(* cleanup of the fixtures.  While somebody keeps a reference to the        *)
(* registers their mapping cannot be closed, and the rest is not reached;   *)
(* another attempt has no registers to delete.                              *)
Clean(d, kept) ==
    /\ object[d] # "none"
    /\ IF object[d] = "open" /\ ~kept
       THEN /\ object' = [object EXCEPT ![d] = "none"]
            /\ held' = [held EXCEPT ![GroupOf(d)] = "closed"]
       ELSE /\ object' = [object EXCEPT ![d] = "broken"]
            /\ UNCHANGED held
    /\ Spoils(d, object'[d] = "broken")
    /\ Ends("clean", d, object'[d] = "none")
    /\ UNCHANGED <<sys, script>>

(* The kernel closes everything, and the user starts anew.                  *)
ProcessEnds ==
    /\ held' = NothingHeld /\ object' = NoObjects
    /\ spoilt' = {}
    /\ Ends("exit", First, TRUE)
    /\ UNCHANGED <<sys, script>>

HostNext ==
    \/ \E d \in Drives :
        \/ Expose(d)
        \/ \E name \in {"nvme", "misspelt"} : Reclaim(d, name)
        \/ Open(d)
        \/ \E kept \in BOOLEAN : Clean(d, kept)
    \/ ProcessEnds

-----------------------------------------------------------------------------
(* Types of what script, kernel and process keep.                           *)
HostTypeOK ==
    /\ sys.driver \in [Drives -> {"none", "nvme", "vfio_pci"}]
    /\ sys.ids \subseteq {IdOf(d) : d \in Drives}
    /\ sys.owner \in [Groups -> {"none", "root", "user"}]
    /\ held \in [Groups -> {"closed", "open", "claimed"}]
    /\ object \in [Drives -> {"none", "open", "broken"}]
    /\ script \in [Drives -> {"reclaimed", "exposed", "failed"}] /\ spoilt \subseteq Groups
    /\ hostCalls \in 0 .. MaxHostCalls
    /\ hostResult.out \in {"ok", "raised"}

(* A script fails only for a drive that has a twin, that vfio-pci does not  *)
(* take, or that is exposed again without a reclaim in between; a reclaim    *)
(* does not mend an expose that failed.                                     *)
ScriptsSucceed ==
    hostResult.fn \in {"expose", "reclaim"} /\ hostResult.out = "raised"
        => \/ twins \/ hostResult.drive \notin fit
           \/ hostResult.fn = "expose" /\ hostResult.before # "reclaimed"

(* A drive can be opened once all drives of its group were exposed, none of *)
(* them is open and nothing went wrong with one of them in this process.    *)
ExposedMeansUsable ==
    \A d \in fit :
        /\ AllExposed(GroupOf(d))
        /\ GroupOf(d) \notin spoilt /\ ~InUse(GroupOf(d))
        => Opens(d)
=============================================================================

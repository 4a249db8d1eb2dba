---------------------------- MODULE PhysicalDevice ----------------------------
(***************************************************************************)
(* A drive of the PCI bus: how it comes to a process and goes back          *)
(* (VfioSession), and how the process waits for it (Completions).  The two  *)
(* meet in the open device object only, so a behaviour is about one of them:*)
(* the host's drivers with a process that opens and cleans up, or an open   *)
(* drive at work.                                                           *)
(***************************************************************************)
EXTENDS VfioSession, Completions

VARIABLE scene   \* host or device

vars == <<scene, hostVars, devVars>>

Init ==
    /\ DevInit
    /\ \/ scene = "host" /\ HostInit
       \/ scene = "device" /\ OpenedInit

AtWork(A) == scene = "device" /\ A /\ UNCHANGED <<scene, hostVars>>

Next ==
    \/ scene = "host" /\ HostNext /\ UNCHANGED <<scene, devVars>>
    \/ AtWork(DevNext)

(* The user of an open drive calls process_completions again and again,     *)
(* time passes, and interrupts arrive; the device need not answer.          *)
Fairness ==
    /\ SF_vars(AtWork(ProcessAll))
    /\ SF_vars(AtWork(PassReturns))
    /\ WF_vars(AtWork(WaitStep))
    /\ \A v \in Vectors : WF_vars(AtWork(Deliver(v)))

Spec == Init /\ [][Next]_vars /\ Fairness
-----------------------------------------------------------------------------
(* Types, and the bookkeeping of outstanding_commands: see DevTypeOK.       *)
TypeOK == scene \in {"host", "device"} /\ HostTypeOK /\ DevTypeOK

(* What the user may count on when he does nothing unusual: scripts and      *)
(* opening succeed, and waiting gives up only on a completion that is late.  *)
OrderlyUseSucceeds == ScriptsSucceed /\ ExposedMeansUsable /\ GivesUpOnlyWhenLate
=============================================================================

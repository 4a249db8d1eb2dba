---------------------------- MODULE SimHandshake ----------------------------
(***************************************************************************)
(* Enable, disable and function-level reset between the driver              *)
(* (NVMeDeviceCommon, lone/nvme/device/__init__.py) and the thread of the   *)
(* simulated controller (NVSimThread, nvsim/simulators/nvsim_thread.py and  *)
(* GenericNVMeNVSim, nvsim/simulators/generic.py).                          *)
(*                                                                          *)
(* The two threads share the registers CC.EN, CSTS.RDY, ASQ/AQA, ACQ/AQA,   *)
(* PXDC.IFLR and two events.  A register write by either stores the value   *)
(* and then, as a second step, sets the event (RegsStructAccess.__setattr__ *)
(* calls set_notify last).  The simulator's loop tests an event, runs the   *)
(* handler and clears the event; the handler compares the registers with    *)
(* the copy it took at the end of its previous run.  No lock is taken.      *)
(*                                                                          *)
(* Abstracted: a queue's address and size are the identity of its memory;   *)
(* of a run of writes that only set the same event again (the doorbell loop *)
(* of cc_disable, the fields of CC in init_admin_queues) one is kept; the   *)
(* commands check_commands executes are the business of QueuePair.          *)
(***************************************************************************)
EXTENDS Naturals

CONSTANTS
    Memories,   \* queue memory the allocator can hand out
    None        \* no memory: address 0 of a cleared register

ASSUME NoneAssumption == None \notin Memories

VARIABLES
    en, rdy,           \* CC.EN and CSTS.RDY
    cfs,               \* CSTS.CFS
    asq, acq,          \* AQA/ASQ and AQA/ACQ
    iflr,              \* PXDC.IFLR
    nvmeEvent,         \* nvme_regs_event
    pcieEvent,         \* pcie_regs_event
    hostPc,            \* where the host is in the call it makes
    op,                \* the call cc_disable was made for
    fresh,             \* queue memory init_admin_queues has allocated
    hostAdmin,         \* the admin pair in the host's queue_mgr
    hostState,         \* what the calls that returned have left the device in
    simPc,             \* where the simulator's thread is in its loop
    oldEn, oldIflr,    \* old_nvme_regs.CC.EN and old_pcie_regs' PXDC.IFLR
    reading,           \* asq_mem, local variable of enable
    simAdmin           \* the admin pair in the simulator's queue_mgr

regs     == <<en, rdy, cfs, asq, acq, iflr>>
events   == <<nvmeEvent, pcieEvent>>
hostVars == <<hostPc, op, fresh, hostAdmin, hostState>>
simVars  == <<simPc, oldEn, oldIflr, reading, simAdmin>>
vars     == <<regs, events, hostVars, simVars>>

Address == Memories \union {None}
Pair    == [sq : Address, cq : Address]

(* Fault: the manager itself is dropped, not its contents.                  *)
NoManager == None

(* The admin pair of a new QueueMgr.                                        *)
NoPair  == [sq |-> None, cq |-> None]

HostPcs == {"user", "disable notify", "disable bme", "disable wait", "disable doorbells",
            "init asq", "init asq notify", "init acq", "init acq notify", "init bme",
            "enable notify", "enable wait", "flr notify", "flr wait"}
SimPcs  == {"test pcie", "flr check", "flr notify", "pcie copy", "pcie clear",
            "test nvme", "enable check", "read asq", "read acq", "set rdy",
            "rdy notify", "disable check", "disable notify", "commands",
            "nvme copy", "nvme clear"}

TypeOK ==
    /\ en \in BOOLEAN /\ rdy \in BOOLEAN /\ cfs \in BOOLEAN /\ iflr \in BOOLEAN
    /\ asq \in Address /\ acq \in Address
    /\ nvmeEvent \in BOOLEAN /\ pcieEvent \in BOOLEAN
    /\ hostPc \in HostPcs
    /\ op \in {"disable", "init"}
    /\ fresh \in Address
    /\ hostAdmin \in Pair
    /\ hostState \in {"reset", "configured", "ready"}
    /\ simPc \in SimPcs
    /\ oldEn \in BOOLEAN /\ oldIflr \in BOOLEAN
    /\ reading \in Address
    /\ simAdmin \in Pair

(* GenericNVMeNVSim.__init__ fills the registers, which sets both events,   *)
(* before it takes the copies; the thread is started after it.              *)
Init ==
    /\ en = FALSE /\ rdy = FALSE /\ cfs = FALSE /\ iflr = FALSE
    /\ asq = None /\ acq = None
    /\ nvmeEvent = TRUE /\ pcieEvent = TRUE
    /\ hostPc = "user" /\ op = "disable" /\ fresh = None
    /\ hostAdmin = NoPair /\ hostState = "reset"
    /\ simPc = "test pcie"
    /\ oldEn = FALSE /\ oldIflr = FALSE
    /\ reading = None /\ simAdmin = NoPair

HostGoes(from, to) == hostPc = from /\ hostPc' = to
SimGoes(from, to)  == simPc = from /\ simPc' = to

-----------------------------------------------------------------------------
(* The driver: three calls of the user.                                     *)

(* cc_disable, by itself or as the first thing init_admin_queues does.      *)
CcDisable(o) ==
    /\ HostGoes("user", "disable notify")
    /\ op' = o
    /\ en' = FALSE
    /\ hostState' = "reset"
    /\ UNCHANGED <<rdy, cfs, asq, acq, iflr, events, fresh, hostAdmin, simVars>>

DisableNotify ==
    /\ HostGoes("disable notify", "disable bme")
    /\ nvmeEvent' = TRUE
    /\ UNCHANGED <<regs, pcieEvent, op, fresh, hostAdmin, hostState, simVars>>

DisableBme ==
    /\ HostGoes("disable bme", "disable wait")
    /\ pcieEvent' = TRUE
    /\ UNCHANGED <<regs, nvmeEvent, op, fresh, hostAdmin, hostState, simVars>>

(* Fault: the poll for RDY = 0 is skipped.                                  *)
DisableDoneUnchecked == TRUE

(* What cc_disable's poll waits for.                                        *)
DisableDone == cfs \/ ~rdy

DisableWait ==
    /\ HostGoes("disable wait", "disable doorbells")
    /\ DisableDone
    /\ UNCHANGED <<regs, events, op, fresh, hostAdmin, hostState, simVars>>

(* Doorbells are cleared through registers, then the queues are forgotten.  *)
DisableDoorbells ==
    /\ HostGoes("disable doorbells", IF op = "init" THEN "init asq" ELSE "user")
    /\ nvmeEvent' = TRUE
    /\ hostAdmin' = NoPair
    /\ UNCHANGED <<regs, pcieEvent, op, fresh, hostState, simVars>>

(* malloc never hands out memory that somebody still refers to: nothing     *)
(* frees queue memory.                                                      *)
InUse == {asq, acq, reading, simAdmin.sq, simAdmin.cq}

InitAsq(m) ==
    /\ HostGoes("init asq", "init asq notify")
    /\ m \notin InUse
    /\ fresh' = m
    /\ asq' = m
    /\ UNCHANGED <<en, rdy, cfs, acq, iflr, events, op, hostAdmin, hostState, simVars>>

InitAsqNotify ==
    /\ HostGoes("init asq notify", "init acq")
    /\ nvmeEvent' = TRUE
    /\ UNCHANGED <<regs, pcieEvent, op, fresh, hostAdmin, hostState, simVars>>

InitAcq ==
    /\ HostGoes("init acq", "init acq notify")
    /\ acq' = fresh
    /\ UNCHANGED <<en, rdy, cfs, asq, iflr, events, op, fresh, hostAdmin, hostState, simVars>>

InitAcqNotify ==
    /\ HostGoes("init acq notify", "init bme")
    /\ nvmeEvent' = TRUE
    /\ UNCHANGED <<regs, pcieEvent, op, fresh, hostAdmin, hostState, simVars>>

(* BME is set again and the pair enters the host's queue manager.           *)
InitBme ==
    /\ HostGoes("init bme", "user")
    /\ pcieEvent' = TRUE
    /\ hostAdmin' = [sq |-> fresh, cq |-> fresh]
    /\ fresh' = None
    /\ hostState' = "configured"
    /\ UNCHANGED <<regs, nvmeEvent, op, simVars>>

(* cc_enable; after a disable, as the comment in cc_disable asks, and after  *)
(* a reset, as examples/flr.py does, the user calls init_admin_queues first. *)
CcEnable ==
    /\ HostGoes("user", "enable notify")
    /\ hostState # "reset"
    /\ en' = TRUE
    /\ hostState' = "configured"
    /\ UNCHANGED <<rdy, cfs, asq, acq, iflr, events, op, fresh, hostAdmin, simVars>>

EnableNotify ==
    /\ HostGoes("enable notify", "enable wait")
    /\ nvmeEvent' = TRUE
    /\ UNCHANGED <<regs, pcieEvent, op, fresh, hostAdmin, hostState, simVars>>

(* Fault: the poll for RDY = 1 is skipped.                                  *)
EnableDoneUnchecked == ~cfs

(* What cc_enable's poll waits for; with CFS set it fails an assertion.     *)
EnableDone == ~cfs /\ rdy

EnableWait ==
    /\ HostGoes("enable wait", "user")
    /\ EnableDone
    /\ hostState' = "ready"
    /\ UNCHANGED <<regs, events, op, fresh, hostAdmin, simVars>>

(* initiate_flr writes IFLR and returns; the user waits, as examples/flr.py *)
(* does with a sleep, until the simulator has nothing left to do.           *)
Quiet ==
    /\ ~nvmeEvent /\ ~pcieEvent
    /\ simPc \in {"test pcie", "test nvme"}

InitiateFlr ==
    /\ HostGoes("user", "flr notify")
    /\ iflr' = TRUE
    /\ hostState' = "reset"
    /\ UNCHANGED <<en, rdy, cfs, asq, acq, events, op, fresh, hostAdmin, simVars>>

FlrNotify ==
    /\ HostGoes("flr notify", "flr wait")
    /\ pcieEvent' = TRUE
    /\ UNCHANGED <<regs, nvmeEvent, op, fresh, hostAdmin, hostState, simVars>>

FlrWait ==
    /\ HostGoes("flr wait", "user")
    /\ Quiet
    /\ UNCHANGED <<regs, events, op, fresh, hostAdmin, hostState, simVars>>

-----------------------------------------------------------------------------
(* The simulator's thread.                                                  *)

TestPcie ==
    /\ SimGoes("test pcie", IF pcieEvent THEN "flr check" ELSE "test nvme")
    /\ UNCHANGED <<regs, events, hostVars, oldEn, oldIflr, reading, simAdmin>>

(* Fault: the comparison with the old copy has its sides swapped.           *)
FlrSeenSwapped == oldIflr /\ ~iflr

(* nvsim_pcie_regs_changed asks for a 0 to 1 transition of IFLR.            *)
FlrSeen == ~oldIflr /\ iflr

(* A new configuration object starts with a memset of all registers.        *)
FlrReset ==
    /\ SimGoes("flr check", "flr notify")
    /\ FlrSeen
    /\ en' = FALSE /\ rdy' = FALSE /\ cfs' = FALSE /\ iflr' = FALSE
    /\ asq' = None /\ acq' = None
    /\ UNCHANGED <<events, hostVars, oldEn, oldIflr, reading, simAdmin>>

NoFlr ==
    /\ SimGoes("flr check", "pcie copy")
    /\ ~FlrSeen
    /\ UNCHANGED <<regs, events, hostVars, oldEn, oldIflr, reading, simAdmin>>

(* It fills in identification registers, which sets both events, and makes  *)
(* an empty queue manager.                                                  *)
FlrNotifies ==
    /\ SimGoes("flr notify", "pcie copy")
    /\ nvmeEvent' = TRUE /\ pcieEvent' = TRUE
    /\ simAdmin' = NoPair
    /\ UNCHANGED <<regs, hostVars, oldEn, oldIflr, reading>>

PcieCopy ==
    /\ SimGoes("pcie copy", "pcie clear")
    /\ oldIflr' = iflr
    /\ UNCHANGED <<regs, events, hostVars, oldEn, reading, simAdmin>>

PcieClear ==
    /\ SimGoes("pcie clear", "test nvme")
    /\ pcieEvent' = FALSE
    /\ UNCHANGED <<regs, nvmeEvent, hostVars, oldEn, oldIflr, reading, simAdmin>>

TestNvme ==
    /\ SimGoes("test nvme", IF nvmeEvent THEN "enable check" ELSE "test pcie")
    /\ UNCHANGED <<regs, events, hostVars, oldEn, oldIflr, reading, simAdmin>>

(* Fault: the comparison with the old copy has its sides swapped.           *)
EnableSeenSwapped == oldEn /\ ~en

(* The first test of nvsim_nvme_regs_changed.                               *)
EnableSeen == ~oldEn /\ en

EnableCheck ==
    /\ SimGoes("enable check", IF EnableSeen THEN "read asq" ELSE "disable check")
    /\ UNCHANGED <<regs, events, hostVars, oldEn, oldIflr, reading, simAdmin>>

(* enable: the registers are read one after the other.                      *)
ReadAsq ==
    /\ SimGoes("read asq", "read acq")
    /\ reading' = asq
    /\ UNCHANGED <<regs, events, hostVars, oldEn, oldIflr, simAdmin>>

ReadAcq ==
    /\ SimGoes("read acq", "set rdy")
    /\ simAdmin' = [sq |-> reading, cq |-> acq]
    /\ reading' = None
    /\ UNCHANGED <<regs, events, hostVars, oldEn, oldIflr>>

SetRdy ==
    /\ SimGoes("set rdy", "rdy notify")
    /\ rdy' = TRUE
    /\ UNCHANGED <<en, cfs, asq, acq, iflr, events, hostVars, oldEn, oldIflr, reading, simAdmin>>

RdyNotify ==
    /\ SimGoes("rdy notify", "disable check")
    /\ nvmeEvent' = TRUE
    /\ UNCHANGED <<regs, pcieEvent, hostVars, oldEn, oldIflr, reading, simAdmin>>

(* Fault: the transition is never looked for.                               *)
DisableSeenNever == FALSE

(* The second test of nvsim_nvme_regs_changed.                              *)
DisableSeen == oldEn /\ ~en

SimDisable ==
    /\ SimGoes("disable check", "disable notify")
    /\ DisableSeen
    /\ rdy' = FALSE
    /\ UNCHANGED <<en, cfs, asq, acq, iflr, events, hostVars, oldEn, oldIflr, reading, simAdmin>>

NoSimDisable ==
    /\ SimGoes("disable check", "commands")
    /\ ~DisableSeen
    /\ UNCHANGED <<regs, events, hostVars, oldEn, oldIflr, reading, simAdmin>>

SimDisableNotify ==
    /\ SimGoes("disable notify", "commands")
    /\ nvmeEvent' = TRUE
    /\ UNCHANGED <<regs, pcieEvent, hostVars, oldEn, oldIflr, reading, simAdmin>>

(* check_commands changes none of this module's variables.                  *)
CheckCommands ==
    /\ SimGoes("commands", "nvme copy")
    /\ UNCHANGED <<regs, events, hostVars, oldEn, oldIflr, reading, simAdmin>>

NvmeCopy ==
    /\ SimGoes("nvme copy", "nvme clear")
    /\ oldEn' = en
    /\ UNCHANGED <<regs, events, hostVars, oldIflr, reading, simAdmin>>

NvmeClear ==
    /\ SimGoes("nvme clear", "test pcie")
    /\ nvmeEvent' = FALSE
    /\ UNCHANGED <<regs, pcieEvent, hostVars, oldEn, oldIflr, reading, simAdmin>>

-----------------------------------------------------------------------------
HostInCall ==
    \/ DisableNotify \/ DisableBme \/ DisableWait \/ DisableDoorbells
    \/ \E m \in Memories : InitAsq(m)
    \/ InitAsqNotify \/ InitAcq \/ InitAcqNotify \/ InitBme
    \/ EnableNotify \/ EnableWait

Sim ==
    \/ TestPcie \/ FlrReset \/ NoFlr \/ FlrNotifies \/ PcieCopy \/ PcieClear
    \/ TestNvme \/ EnableCheck \/ ReadAsq \/ ReadAcq \/ SetRdy \/ RdyNotify
    \/ SimDisable \/ NoSimDisable \/ SimDisableNotify \/ CheckCommands \/ NvmeCopy \/ NvmeClear

Next ==
    \/ \E o \in {"disable", "init"} : CcDisable(o)
    \/ CcEnable
    \/ HostInCall
    \/ Sim

(* A user who enables and disables at any pace.                             *)
Spec == Init /\ [][Next]_vars

(* Both threads run; a poll that can end does.                              *)
Fairness == WF_vars(HostInCall) /\ WF_vars(Sim)

FairSpec == Spec /\ Fairness

Flr == InitiateFlr \/ FlrNotify \/ FlrWait

(* A user who lets the simulator settle before each call.                   *)
UserCalls == hostPc = "user" /\ hostPc' # "user"

SettledNext == (Next \/ Flr) /\ (UserCalls => Quiet)

SettledSpec == Init /\ [][SettledNext]_vars
                    /\ WF_vars(HostInCall) /\ WF_vars(Sim) /\ WF_vars(FlrNotify \/ FlrWait)
-----------------------------------------------------------------------------
(* When cc_enable has returned, the simulator is ready and serves exactly   *)
(* the queues the host believes are its admin queues, both of the same      *)
(* init_admin_queues: no ready bit of an earlier enable is mistaken for     *)
(* this one's and no half-written pair of registers was read.               *)
ReadyMeansSameQueues ==
    hostState = "ready" => en /\ rdy /\ hostAdmin # NoPair /\ simAdmin = hostAdmin

(* From the end of cc_disable's poll to the next cc_enable the simulator is *)
(* not in enable(): it reads no register init_admin_queues is writing, and  *)
(* touches no queue memory the host has forgotten.                          *)
SimEnabling == simPc \in {"read asq", "read acq", "set rdy"}
HostConfiguring ==
    hostPc \in {"disable doorbells", "init asq", "init asq notify", "init acq",
                "init acq notify", "init bme"}
ConfigurationIsPrivate == HostConfiguring => ~SimEnabling /\ ~rdy

(* cc_enable and cc_disable return instead of failing the assertion their   *)
(* timeout ends in.                                                         *)
EnableReturns  == hostPc = "enable wait" ~> hostState = "ready"
DisableReturns == hostPc = "disable wait" ~> hostPc = "disable doorbells"

(* examples/flr.py: after the reset the controller is disabled.             *)
FlrDisables == [][FlrWait => ~en /\ ~rdy /\ simAdmin = NoPair]_vars
=============================================================================

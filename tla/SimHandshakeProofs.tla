------------------------- MODULE SimHandshakeProofs -------------------------
(***************************************************************************)
(* Safety of the handshake of SimHandshake, for every set of queue          *)
(* memories: enable and disable at any pace of the two threads, and with    *)
(* function-level resets for a user who lets the simulator settle.          *)
(***************************************************************************)
EXTENDS SimHandshake, TLAPS

(* Without resets the registers PXDC.IFLR and CSTS.CFS stay clear and the   *)
(* handler of a reset is not reached.                                       *)
NoReset ==
    /\ ~cfs /\ ~iflr /\ ~oldIflr
    /\ simPc # "flr notify"
    /\ hostPc \notin {"flr notify", "flr wait"}

(* CC.EN is set exactly while the host wants the device enabled.            *)
HostWantsOn == hostPc \in {"enable notify", "enable wait"}
               \/ (hostPc = "user" /\ hostState = "ready")
EnIsTheHosts == en <=> HostWantsOn

(* What the user's next calls may rely on.                                  *)
HostStateFollowsCalls ==
    /\ hostPc \in {"enable notify", "enable wait"} => hostState = "configured"
    /\ hostPc \notin {"user", "enable notify", "enable wait"} => hostState = "reset"
    /\ hostPc = "user" /\ hostState = "ready" => rdy

(* While the host configures, or has not asked for an enable, the simulator *)
(* is neither ready nor enabling.                                           *)
HostOff == HostConfiguring \/ (hostPc = "user" /\ hostState # "ready")
OffMeansOff == HostOff => ~rdy /\ ~SimEnabling

(* The simulator is in enable only while the host polls for it, and then    *)
(* RDY is still clear.                                                      *)
EnablingIsPolled ==
    SimEnabling => ~rdy /\ hostPc \in {"enable notify", "enable wait"}

(* Once its handler has run to the end, a ready simulator remembers that it *)
(* is enabled and does not enable a second time.                            *)
InHandler == simPc \in {"rdy notify", "disable check", "disable notify", "commands", "nvme copy"}
ReadyIsRemembered == rdy /\ en /\ ~InHandler => oldEn

(* The registers hold what init_admin_queues wrote.                         *)
RegistersHoldQueues ==
    /\ hostPc \in {"init asq notify", "init acq", "init acq notify", "init bme"} =>
         fresh \in Memories /\ asq = fresh
    /\ hostPc \in {"init acq notify", "init bme"} => acq = fresh
    /\ hostState # "reset" =>
         hostAdmin.sq \in Memories /\ asq = hostAdmin.sq /\ acq = hostAdmin.cq

(* What enable has read so far, and what a ready simulator serves.          *)
SimReadsQueues ==
    /\ simPc = "read acq" => reading = hostAdmin.sq
    /\ simPc = "set rdy" => simAdmin = hostAdmin
    /\ rdy /\ en => simAdmin = hostAdmin

HandshakeInv ==
    /\ TypeOK
    /\ NoReset
    /\ EnIsTheHosts
    /\ HostStateFollowsCalls
    /\ OffMeansOff
    /\ EnablingIsPolled
    /\ ReadyIsRemembered
    /\ RegistersHoldQueues
    /\ SimReadsQueues

-----------------------------------------------------------------------------
(* Address and Pair keep their members apart from None.                     *)
LEMMA AddressFacts ==
    /\ None \notin Memories
    /\ None \in Address
    /\ \A m \in Memories : m \in Address
    /\ NoPair \in Pair
    /\ \A x, y \in Address : [sq |-> x, cq |-> y] \in Pair
BY NoneAssumption DEF Address, Pair, NoPair

(* The state the simulated device is constructed in satisfies the invariant. *)
LEMMA HandshakeInit == Init => HandshakeInv
BY AddressFacts
   DEF Init, HandshakeInv, HostPcs, SimPcs, TypeOK, NoReset, EnIsTheHosts, HostWantsOn, HostStateFollowsCalls, OffMeansOff, HostOff,
           HostConfiguring, SimEnabling, EnablingIsPolled, ReadyIsRemembered, InHandler,
           RegistersHoldQueues, SimReadsQueues

(* Every step keeps the invariant, one case per action.                     *)
LEMMA HandshakeStep == HandshakeInv /\ [Next]_vars => HandshakeInv'
<1> SUFFICES ASSUME HandshakeInv, [Next]_vars PROVE HandshakeInv'
  OBVIOUS
<1> USE AddressFacts
    DEF HandshakeInv, HostGoes, SimGoes, HostPcs, SimPcs, regs, events, hostVars, simVars,
           TypeOK, NoReset, EnIsTheHosts, HostWantsOn, HostStateFollowsCalls, OffMeansOff, HostOff,
           HostConfiguring, SimEnabling, EnablingIsPolled, ReadyIsRemembered, InHandler,
           RegistersHoldQueues, SimReadsQueues
<1>1. ASSUME NEW o \in {"disable", "init"}, CcDisable(o) PROVE HandshakeInv'
  BY <1>1 DEF CcDisable
<1>2. CASE CcEnable
  <2>1. TypeOK'
    BY <1>2 DEF CcEnable
  <2>2. NoReset' /\ EnIsTheHosts' /\ HostStateFollowsCalls'
    BY <1>2 DEF CcEnable
  <2>3. OffMeansOff' /\ EnablingIsPolled' /\ ReadyIsRemembered'
    BY <1>2 DEF CcEnable
  <2>4. RegistersHoldQueues' /\ SimReadsQueues'
    BY <1>2 DEF CcEnable
  <2> QED
    BY <2>1, <2>2, <2>3, <2>4
<1>3. CASE DisableNotify
  BY <1>3 DEF DisableNotify
<1>4. CASE DisableBme
  BY <1>4 DEF DisableBme
<1>5. CASE DisableWait
  BY <1>5 DEF DisableWait, DisableDone
<1>6. CASE DisableDoorbells
  BY <1>6 DEF DisableDoorbells
<1>7. ASSUME NEW m \in Memories, InitAsq(m) PROVE HandshakeInv'
  BY <1>7 DEF InitAsq, InUse
<1>8. CASE InitAsqNotify
  BY <1>8 DEF InitAsqNotify
<1>9. CASE InitAcq
  BY <1>9 DEF InitAcq
<1>10. CASE InitAcqNotify
  BY <1>10 DEF InitAcqNotify
<1>11. CASE InitBme
  BY <1>11 DEF InitBme
<1>12. CASE EnableNotify
  <2>1. TypeOK'
    BY <1>12 DEF EnableNotify
  <2>2. NoReset' /\ EnIsTheHosts' /\ HostStateFollowsCalls'
    BY <1>12 DEF EnableNotify
  <2>3. OffMeansOff' /\ EnablingIsPolled' /\ ReadyIsRemembered'
    BY <1>12 DEF EnableNotify
  <2>4. RegistersHoldQueues' /\ SimReadsQueues'
    BY <1>12 DEF EnableNotify
  <2> QED
    BY <2>1, <2>2, <2>3, <2>4
<1>13. CASE EnableWait
  BY <1>13 DEF EnableWait, EnableDone
<1>14. CASE TestPcie
  <2>1. TypeOK'
    BY <1>14 DEF TestPcie
  <2>2. NoReset' /\ EnIsTheHosts' /\ HostStateFollowsCalls'
    BY <1>14 DEF TestPcie
  <2>3. OffMeansOff' /\ EnablingIsPolled' /\ ReadyIsRemembered'
    BY <1>14 DEF TestPcie
  <2>4. RegistersHoldQueues' /\ SimReadsQueues'
    BY <1>14 DEF TestPcie
  <2> QED
    BY <2>1, <2>2, <2>3, <2>4
<1>15. CASE FlrReset
  BY <1>15 DEF FlrReset, FlrSeen
<1>16. CASE NoFlr
  <2>1. TypeOK'
    BY <1>16 DEF NoFlr
  <2>2. NoReset' /\ EnIsTheHosts' /\ HostStateFollowsCalls'
    BY <1>16 DEF NoFlr
  <2>3. OffMeansOff' /\ EnablingIsPolled' /\ ReadyIsRemembered'
    BY <1>16 DEF NoFlr
  <2>4. RegistersHoldQueues' /\ SimReadsQueues'
    BY <1>16 DEF NoFlr
  <2> QED
    BY <2>1, <2>2, <2>3, <2>4
<1>17. CASE PcieCopy
  <2>1. TypeOK'
    BY <1>17 DEF PcieCopy
  <2>2. NoReset' /\ EnIsTheHosts' /\ HostStateFollowsCalls'
    BY <1>17 DEF PcieCopy
  <2>3. OffMeansOff' /\ EnablingIsPolled' /\ ReadyIsRemembered'
    BY <1>17 DEF PcieCopy
  <2>4. RegistersHoldQueues' /\ SimReadsQueues'
    BY <1>17 DEF PcieCopy
  <2> QED
    BY <2>1, <2>2, <2>3, <2>4
<1>18. CASE PcieClear
  <2>1. TypeOK'
    BY <1>18 DEF PcieClear
  <2>2. NoReset' /\ EnIsTheHosts' /\ HostStateFollowsCalls'
    BY <1>18 DEF PcieClear
  <2>3. OffMeansOff' /\ EnablingIsPolled' /\ ReadyIsRemembered'
    BY <1>18 DEF PcieClear
  <2>4. RegistersHoldQueues' /\ SimReadsQueues'
    BY <1>18 DEF PcieClear
  <2> QED
    BY <2>1, <2>2, <2>3, <2>4
<1>19. CASE TestNvme
  <2>1. TypeOK'
    BY <1>19 DEF TestNvme
  <2>2. NoReset' /\ EnIsTheHosts' /\ HostStateFollowsCalls'
    BY <1>19 DEF TestNvme
  <2>3. OffMeansOff' /\ EnablingIsPolled' /\ ReadyIsRemembered'
    BY <1>19 DEF TestNvme
  <2>4. RegistersHoldQueues' /\ SimReadsQueues'
    BY <1>19 DEF TestNvme
  <2> QED
    BY <2>1, <2>2, <2>3, <2>4
<1>20. CASE EnableCheck
  <2>1. TypeOK'
    BY <1>20 DEF EnableCheck, EnableSeen
  <2>2. NoReset' /\ EnIsTheHosts' /\ HostStateFollowsCalls'
    BY <1>20 DEF EnableCheck, EnableSeen
  <2>3. OffMeansOff' /\ EnablingIsPolled' /\ ReadyIsRemembered'
    BY <1>20 DEF EnableCheck, EnableSeen
  <2>4. RegistersHoldQueues' /\ SimReadsQueues'
    BY <1>20 DEF EnableCheck, EnableSeen
  <2> QED
    BY <2>1, <2>2, <2>3, <2>4
<1>21. CASE ReadAsq
  BY <1>21 DEF ReadAsq
<1>22. CASE ReadAcq
  <2>1. hostAdmin = [sq |-> hostAdmin.sq, cq |-> hostAdmin.cq]
    BY DEF Pair
  <2>2. hostState # "reset" /\ reading = hostAdmin.sq /\ acq = hostAdmin.cq
    BY <1>22 DEF ReadAcq
  <2>3. simAdmin' = hostAdmin'
    BY <1>22, <2>1, <2>2 DEF ReadAcq
  <2>4. TypeOK'
    BY <1>22 DEF ReadAcq
  <2> QED
    BY <1>22, <2>3, <2>4 DEF ReadAcq
<1>23. CASE SetRdy
  BY <1>23 DEF SetRdy
<1>24. CASE RdyNotify
  <2>1. TypeOK'
    BY <1>24 DEF RdyNotify
  <2>2. NoReset' /\ EnIsTheHosts' /\ HostStateFollowsCalls'
    BY <1>24 DEF RdyNotify
  <2>3. OffMeansOff' /\ EnablingIsPolled' /\ ReadyIsRemembered'
    BY <1>24 DEF RdyNotify
  <2>4. RegistersHoldQueues' /\ SimReadsQueues'
    BY <1>24 DEF RdyNotify
  <2> QED
    BY <2>1, <2>2, <2>3, <2>4
<1>25. CASE SimDisable
  BY <1>25 DEF SimDisable, DisableSeen
<1>26. CASE NoSimDisable
  <2>1. TypeOK'
    BY <1>26 DEF NoSimDisable, DisableSeen
  <2>2. NoReset' /\ EnIsTheHosts' /\ HostStateFollowsCalls'
    BY <1>26 DEF NoSimDisable, DisableSeen
  <2>3. OffMeansOff' /\ EnablingIsPolled' /\ ReadyIsRemembered'
    BY <1>26 DEF NoSimDisable, DisableSeen
  <2>4. RegistersHoldQueues' /\ SimReadsQueues'
    BY <1>26 DEF NoSimDisable, DisableSeen
  <2> QED
    BY <2>1, <2>2, <2>3, <2>4
<1>27. CASE SimDisableNotify
  <2>1. TypeOK'
    BY <1>27 DEF SimDisableNotify
  <2>2. NoReset' /\ EnIsTheHosts' /\ HostStateFollowsCalls'
    BY <1>27 DEF SimDisableNotify
  <2>3. OffMeansOff' /\ EnablingIsPolled' /\ ReadyIsRemembered'
    BY <1>27 DEF SimDisableNotify
  <2>4. RegistersHoldQueues' /\ SimReadsQueues'
    BY <1>27 DEF SimDisableNotify
  <2> QED
    BY <2>1, <2>2, <2>3, <2>4
<1>28. CASE CheckCommands
  <2>1. TypeOK'
    BY <1>28 DEF CheckCommands
  <2>2. NoReset' /\ EnIsTheHosts' /\ HostStateFollowsCalls'
    BY <1>28 DEF CheckCommands
  <2>3. OffMeansOff' /\ EnablingIsPolled' /\ ReadyIsRemembered'
    BY <1>28 DEF CheckCommands
  <2>4. RegistersHoldQueues' /\ SimReadsQueues'
    BY <1>28 DEF CheckCommands
  <2> QED
    BY <2>1, <2>2, <2>3, <2>4
<1>29. CASE NvmeCopy
  <2>1. TypeOK'
    BY <1>29 DEF NvmeCopy
  <2>2. NoReset' /\ EnIsTheHosts' /\ HostStateFollowsCalls'
    BY <1>29 DEF NvmeCopy
  <2>3. OffMeansOff' /\ EnablingIsPolled' /\ ReadyIsRemembered'
    BY <1>29 DEF NvmeCopy
  <2>4. RegistersHoldQueues' /\ SimReadsQueues'
    BY <1>29 DEF NvmeCopy
  <2> QED
    BY <2>1, <2>2, <2>3, <2>4
<1>30. CASE NvmeClear
  <2>1. TypeOK'
    BY <1>30 DEF NvmeClear
  <2>2. NoReset' /\ EnIsTheHosts' /\ HostStateFollowsCalls'
    BY <1>30 DEF NvmeClear
  <2>3. OffMeansOff' /\ EnablingIsPolled' /\ ReadyIsRemembered'
    BY <1>30 DEF NvmeClear
  <2>4. RegistersHoldQueues' /\ SimReadsQueues'
    BY <1>30 DEF NvmeClear
  <2> QED
    BY <2>1, <2>2, <2>3, <2>4
<1>31. CASE FlrNotifies
  BY <1>31 DEF FlrNotifies
<1> HIDE DEF HandshakeInv, HostGoes, SimGoes, HostPcs, SimPcs, regs, events, hostVars, simVars,
           TypeOK, NoReset, EnIsTheHosts, HostWantsOn, HostStateFollowsCalls, OffMeansOff, HostOff,
           HostConfiguring, SimEnabling, EnablingIsPolled, ReadyIsRemembered, InHandler,
           RegistersHoldQueues, SimReadsQueues
<1>32. CASE UNCHANGED vars
  <2>1. TypeOK' /\ NoReset'
    BY <1>32 DEF HandshakeInv, vars, regs, events, hostVars, simVars, TypeOK, NoReset
  <2>2. EnIsTheHosts' /\ HostStateFollowsCalls'
    BY <1>32 DEF HandshakeInv, vars, regs, hostVars, EnIsTheHosts, HostWantsOn,
                 HostStateFollowsCalls
  <2>3. OffMeansOff' /\ EnablingIsPolled' /\ ReadyIsRemembered'
    BY <1>32 DEF HandshakeInv, vars, regs, hostVars, simVars, OffMeansOff, HostOff,
                 HostConfiguring, SimEnabling, EnablingIsPolled, ReadyIsRemembered, InHandler
  <2>4. RegistersHoldQueues' /\ SimReadsQueues'
    BY <1>32 DEF HandshakeInv, vars, regs, hostVars, simVars, RegistersHoldQueues,
                 SimReadsQueues
  <2> QED
    BY <2>1, <2>2, <2>3, <2>4 DEF HandshakeInv
<1> QED
  <2>1. CASE HostInCall
    BY <2>1, <1>3, <1>4, <1>5, <1>6, <1>7, <1>8, <1>9, <1>10, <1>11, <1>12, <1>13
       DEF HostInCall
  <2>2. CASE Sim
    BY <2>2, <1>14, <1>15, <1>17, <1>18, <1>19, <1>20, <1>21, <1>22, <1>23, <1>24, <1>25,
       <1>27, <1>28, <1>29, <1>30, <1>31, <1>16, <1>26 DEF Sim
  <2> QED
    BY <1>1, <1>2, <1>32, <2>1, <2>2 DEF Next

-----------------------------------------------------------------------------
(* The inductive invariant of enable and disable, types included.           *)
THEOREM HandshakeCorrect == Spec => []HandshakeInv
<1>1. HandshakeInv /\ [Next]_vars => HandshakeInv'
  BY HandshakeStep
<1> QED
  BY HandshakeInit, <1>1, PTL DEF Spec

(* Registers, events and program counters of both threads keep their types. *)
THEOREM HandshakeTypeCorrect == Spec => []TypeOK
<1>1. HandshakeInv => TypeOK
  BY DEF HandshakeInv
<1> QED
  BY HandshakeCorrect, <1>1, PTL

LEMMA InvReady == HandshakeInv => ReadyMeansSameQueues
<1> SUFFICES ASSUME HandshakeInv, hostState = "ready" PROVE ReadyMeansSameQueues
  BY DEF ReadyMeansSameQueues
<1>1. hostPc = "user" /\ en /\ rdy
  BY DEF HandshakeInv, HostStateFollowsCalls, EnIsTheHosts, HostWantsOn
<1>2. simAdmin = hostAdmin /\ hostAdmin.sq \in Memories
  BY <1>1 DEF HandshakeInv, SimReadsQueues, RegistersHoldQueues
<1>3. hostAdmin # NoPair
  BY <1>2, NoneAssumption DEF NoPair
<1> QED
  BY <1>1, <1>2, <1>3 DEF ReadyMeansSameQueues

(* When cc_enable has returned, simulator and host use the same new queues. *)
THEOREM ReadyCorrect == Spec => []ReadyMeansSameQueues
BY HandshakeCorrect, InvReady, PTL

(* init_admin_queues has the registers and the queue memory to itself.      *)
THEOREM ConfigurationCorrect == Spec => []ConfigurationIsPrivate
<1>1. HandshakeInv => ConfigurationIsPrivate
  BY DEF HandshakeInv, OffMeansOff, HostOff, ConfigurationIsPrivate
<1> QED
  BY HandshakeCorrect, <1>1, PTL

-----------------------------------------------------------------------------
(***************************************************************************)
(* The same with resets, for a user who lets the simulator settle before    *)
(* each call.  Between initiate_flr and the end of the wait for it the      *)
(* invariant above does not hold; another does, and leads back to it.       *)
(***************************************************************************)

(* IFLR is set and the handler of the reset has not run: the simulator is   *)
(* where it settled, or about to look at IFLR.                              *)
ResetAsked ==
    /\ iflr /\ ~nvmeEvent
    /\ hostPc = "flr wait" <=> pcieEvent
    /\ simPc \in {"test pcie", "test nvme"} \/ (simPc = "flr check" /\ pcieEvent)

(* The handler has run, but for making the new queue manager, or wholly.    *)
ResetMade ==
    /\ ~iflr /\ ~en /\ ~rdy
    /\ hostPc = "flr wait"
    /\ simPc = "flr notify" \/ (simAdmin = NoPair /\ ~SimEnabling)

ResetInv ==
    /\ TypeOK
    /\ ~cfs /\ ~oldIflr
    /\ hostPc \in {"flr notify", "flr wait"} /\ hostState = "reset"
    /\ ResetAsked \/ ResetMade

(* No call is under way, and the simulator's steps keep the invariant: with *)
(* IFLR set and the event, the next test of the event runs the handler.     *)
LEMMA ResetSimStep == ResetInv /\ Sim => ResetInv'
<1> SUFFICES ASSUME ResetInv, Sim PROVE ResetInv'
  OBVIOUS
<1> USE DEF ResetInv, TypeOK, SimGoes, regs, events, hostVars, simVars
<1>1. ASSUME ResetAsked PROVE ResetInv'
  <2>1. simPc \in {"test pcie", "test nvme", "flr check"} /\ (simPc = "flr check" => pcieEvent)
    BY <1>1 DEF ResetAsked
  <2>2. CASE TestPcie
    BY <1>1, <2>2 DEF TestPcie, ResetAsked, SimPcs
  <2>3. CASE TestNvme
    BY <1>1, <2>3 DEF TestNvme, ResetAsked, SimPcs
  <2>4. CASE FlrReset
    <3>1. ResetMade'
      BY <1>1, <2>4 DEF FlrReset, ResetAsked, ResetMade
    <3> QED
      BY <2>4, <3>1 DEF FlrReset, SimPcs, Address
  <2>5. ~NoFlr
    BY <1>1 DEF NoFlr, FlrSeen, ResetAsked
  <2> QED
    BY <2>1, <2>2, <2>3, <2>4, <2>5
       DEF Sim, FlrNotifies, PcieCopy, PcieClear, EnableCheck, ReadAsq, ReadAcq, SetRdy, RdyNotify,
           SimDisable, NoSimDisable, SimDisableNotify, CheckCommands, NvmeCopy, NvmeClear
<1>2. ASSUME ResetMade PROVE ResetInv'
  <2> USE DEF ResetMade, SimEnabling, SimPcs
  <2>1. CASE TestPcie
    BY <1>2, <2>1 DEF TestPcie
  <2>16. CASE TestNvme
    BY <1>2, <2>16 DEF TestNvme
  <2>2. ~FlrReset
    BY <1>2 DEF FlrReset, FlrSeen
  <2>3. CASE NoFlr
    BY <1>2, <2>3 DEF NoFlr
  <2>4. CASE FlrNotifies
    BY <1>2, <2>4 DEF FlrNotifies, NoPair, Pair, Address
  <2>5. CASE PcieCopy
    BY <1>2, <2>5 DEF PcieCopy
  <2>6. CASE PcieClear
    BY <1>2, <2>6 DEF PcieClear
  <2>7. CASE EnableCheck
    BY <1>2, <2>7 DEF EnableCheck, EnableSeen
  <2>8. ~ReadAsq /\ ~ReadAcq /\ ~SetRdy
    BY <1>2 DEF ReadAsq, ReadAcq, SetRdy
  <2>9. CASE RdyNotify
    BY <1>2, <2>9 DEF RdyNotify
  <2>10. CASE SimDisable
    BY <1>2, <2>10 DEF SimDisable
  <2>11. CASE NoSimDisable
    BY <1>2, <2>11 DEF NoSimDisable
  <2>12. CASE SimDisableNotify
    BY <1>2, <2>12 DEF SimDisableNotify
  <2>13. CASE CheckCommands
    BY <1>2, <2>13 DEF CheckCommands
  <2>14. CASE NvmeCopy
    BY <1>2, <2>14 DEF NvmeCopy
  <2>15. CASE NvmeClear
    BY <1>2, <2>15 DEF NvmeClear
  <2> QED
    BY <2>1, <2>2, <2>3, <2>4, <2>5, <2>6, <2>7, <2>8, <2>9, <2>10, <2>11, <2>12, <2>13, <2>14, <2>15, <2>16
       DEF Sim
<1> QED
  BY <1>1, <1>2

(* The host has no step but the two of its wait.                            *)
LEMMA ResetHostWaits == ResetInv => ~HostInCall /\ ~CcEnable /\ \A o : ~CcDisable(o)
BY DEF ResetInv, HostInCall, CcEnable, CcDisable, HostGoes, DisableNotify, DisableBme, DisableWait,
       DisableDoorbells, InitAsq, InitAsqNotify, InitAcq, InitAcqNotify, InitBme, EnableNotify, EnableWait

(* With the simulator settled, initiate_flr starts from IFLR clear.         *)
LEMMA ResetBegins == HandshakeInv /\ InitiateFlr /\ Quiet => ResetInv'
<1> SUFFICES ASSUME HandshakeInv, InitiateFlr, Quiet PROVE ResetInv'
  OBVIOUS
<1>1. /\ hostPc' = "flr notify" /\ iflr' = TRUE /\ hostState' = "reset"
      /\ UNCHANGED <<en, rdy, cfs, asq, acq, events, op, fresh, hostAdmin, simVars>>
  BY DEF InitiateFlr, HostGoes
<1>2. TypeOK'
  BY <1>1 DEF HandshakeInv, TypeOK, HostPcs, events, simVars
<1>3. ~cfs' /\ ~oldIflr' /\ ResetAsked'
  BY <1>1 DEF HandshakeInv, NoReset, Quiet, ResetAsked, events, simVars
<1> QED
  BY <1>1, <1>2, <1>3 DEF ResetInv

LEMMA ResetNotified == ResetInv /\ FlrNotify => ResetInv'
<1> SUFFICES ASSUME ResetInv, FlrNotify PROVE ResetInv'
  OBVIOUS
<1>1. ResetAsked
  BY DEF ResetInv, ResetMade, FlrNotify, HostGoes
<1> QED
  BY <1>1 DEF ResetInv, ResetAsked, FlrNotify, TypeOK, HostGoes, HostPcs, regs, simVars

(* Once the simulator has settled again the reset has been made: the        *)
(* controller is disabled and without queues, and calls go on as before.    *)
LEMMA ResetEnds ==
    ResetInv /\ FlrWait => ~en /\ ~rdy /\ simAdmin = NoPair /\ HandshakeInv'
<1> SUFFICES ASSUME ResetInv, FlrWait PROVE ~en /\ ~rdy /\ simAdmin = NoPair /\ HandshakeInv'
  OBVIOUS
<1>1. /\ hostPc = "flr wait" /\ hostPc' = "user" /\ simPc \in {"test pcie", "test nvme"} /\ ~pcieEvent
      /\ UNCHANGED <<regs, events, op, fresh, hostAdmin, hostState, simVars>>
  BY DEF FlrWait, HostGoes, Quiet
<1>2. ~iflr /\ ~en /\ ~rdy /\ simAdmin = NoPair
  BY <1>1 DEF ResetInv, ResetAsked, ResetMade
<1>3. TypeOK' /\ NoReset'
  BY <1>1, <1>2 DEF ResetInv, TypeOK, NoReset, HostPcs, regs, events, simVars
<1>4. EnIsTheHosts' /\ HostStateFollowsCalls' /\ OffMeansOff' /\ EnablingIsPolled' /\ ReadyIsRemembered'
  BY <1>1, <1>2 DEF ResetInv, EnIsTheHosts, HostWantsOn, HostStateFollowsCalls, OffMeansOff, HostOff,
     HostConfiguring, SimEnabling, EnablingIsPolled, ReadyIsRemembered, regs, simVars
<1>5. RegistersHoldQueues' /\ SimReadsQueues'
  BY <1>1, <1>2 DEF ResetInv, RegistersHoldQueues, SimReadsQueues, regs, simVars
<1> QED
  BY <1>2, <1>3, <1>4, <1>5 DEF HandshakeInv

SettledInv == HandshakeInv \/ ResetInv

LEMMA SettledStep == SettledInv /\ [SettledNext]_vars => SettledInv'
<1> SUFFICES ASSUME SettledInv, [SettledNext]_vars PROVE SettledInv'
  OBVIOUS
<1>1. CASE HandshakeInv
  <2>1. CASE [Next]_vars
    BY <1>1, <2>1, HandshakeStep DEF SettledInv
  <2>2. ASSUME Flr, UserCalls => Quiet PROVE SettledInv'
    <3>1. InitiateFlr
      BY <1>1, <2>2 DEF Flr, FlrNotify, FlrWait, HostGoes, HandshakeInv, NoReset
    <3>2. Quiet
      BY <2>2, <3>1 DEF UserCalls, InitiateFlr, HostGoes
    <3> QED
      BY <1>1, <3>1, <3>2, ResetBegins DEF SettledInv
  <2> QED
    BY <2>1, <2>2 DEF SettledNext
<1>2. CASE ResetInv
  <2>1. CASE Sim
    BY <1>2, <2>1, ResetSimStep DEF SettledInv
  <2>2. CASE FlrNotify
    BY <1>2, <2>2, ResetNotified DEF SettledInv
  <2>3. CASE FlrWait
    BY <1>2, <2>3, ResetEnds DEF SettledInv
  <2>4. CASE UNCHANGED vars
    BY <1>2, <2>4 DEF SettledInv, ResetInv, ResetAsked, ResetMade, SimEnabling, TypeOK, vars, regs, events,
       hostVars, simVars
  <2>5. ~InitiateFlr
    BY <1>2 DEF ResetInv, InitiateFlr, HostGoes
  <2> QED
    BY <1>2, <2>1, <2>2, <2>3, <2>4, <2>5, ResetHostWaits DEF SettledNext, Next, Flr
<1> QED
  BY <1>1, <1>2 DEF SettledInv

(* The inductive invariant of enable, disable and reset.                    *)
THEOREM SettledCorrect == SettledSpec => []SettledInv
<1>1. Init => SettledInv
  BY HandshakeInit DEF SettledInv
<1>2. SettledInv /\ [SettledNext]_vars => SettledInv'
  BY SettledStep
<1> QED
  BY <1>1, <1>2, PTL DEF SettledSpec

(* With resets too the types are kept, a cc_enable that has returned means  *)
(* the same new queues on both sides, and init_admin_queues has the         *)
(* registers to itself.                                                     *)
THEOREM SettledSafe ==
    SettledSpec => [](TypeOK /\ ReadyMeansSameQueues /\ ConfigurationIsPrivate)
<1>1. HandshakeInv => TypeOK /\ ReadyMeansSameQueues /\ ConfigurationIsPrivate
  BY InvReady DEF HandshakeInv, OffMeansOff, HostOff, ConfigurationIsPrivate
<1>2. ResetInv => TypeOK /\ ReadyMeansSameQueues /\ ConfigurationIsPrivate
  BY DEF ResetInv, ReadyMeansSameQueues, ConfigurationIsPrivate, HostConfiguring
<1> QED
  BY SettledCorrect, <1>1, <1>2, PTL DEF SettledInv

(* When the user's wait after initiate_flr is over the reset has been made: *)
(* the controller is disabled, not ready, and its queue manager is empty.   *)
THEOREM ResetDisables == SettledSpec => FlrDisables
<1>1. SettledInv /\ [SettledNext]_vars => (FlrWait => ~en /\ ~rdy /\ simAdmin = NoPair)
  <2> SUFFICES ASSUME SettledInv, FlrWait PROVE ~en /\ ~rdy /\ simAdmin = NoPair
    OBVIOUS
  <2>1. ResetInv
    BY DEF SettledInv, HandshakeInv, NoReset, FlrWait, HostGoes
  <2> QED
    BY <2>1, ResetEnds
<1> QED
  BY SettledCorrect, <1>1, PTL DEF SettledSpec, FlrDisables

=============================================================================

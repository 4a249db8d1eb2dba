---------------------------- MODULE DriverBinding ----------------------------
(***************************************************************************)
(* lone_setup expose and reclaim (scripts/lone_setup.py,                    *)
(* lone/system/linux/pci.py): which driver of the kernel a drive is bound   *)
(* to, the identifiers vfio-pci was told of, and the nodes /dev/vfio/<group>*)
(* with their owners, as operators on a record                              *)
(*   driver  of each drive: none, nvme or vfio_pci                          *)
(*   ids     dynamic identifiers of vfio-pci                                *)
(*   owner   of the node of each IOMMU group, none when there is no node    *)
(*   raised  a write into sysfs, or the script, failed                      *)
(* Drives are twins when they have the same vendor and device number,       *)
(* together when they are in one IOMMU group.                               *)
(***************************************************************************)
EXTENDS FiniteSets

CONSTANT Drives   \* NVMe drives, by their slots

ASSUME DrivesAssumption == IsFiniteSet(Drives) /\ Drives # {}

VARIABLES
    twins,     \* all drives have one identifier, or each its own
    together,  \* all drives are in one group, or each in its own
    fit        \* drives that vfio-pci takes

places == <<twins, together, fit>>

First == CHOOSE d \in Drives : TRUE
IdOf(d) == IF twins THEN First ELSE d
GroupOf(d) == IF together THEN First ELSE d
Groups == {GroupOf(d) : d \in Drives}
Members(g) == {d \in Drives : GroupOf(d) = g}

PlacesInit ==
    /\ twins \in BOOLEAN /\ together \in BOOLEAN
    /\ fit \in {Drives, Drives \ {First}}

(* All drives are with the kernel's driver.                                 *)
Booted ==
    [driver |-> [d \in Drives |-> "nvme"], ids |-> {},
     owner |-> [g \in Groups |-> "none"], raised |-> FALSE]

-----------------------------------------------------------------------------
(* The kernel.                                                              *)

(* A group has a node while one of its drives is with vfio-pci; a new node  *)
(* is root's.                                                               *)
WithDriver(b, driver) ==
    [b EXCEPT !.driver = driver,
              !.owner = [g \in Groups |->
                  IF \A d \in Members(g) : driver[d] # "vfio_pci" THEN "none"
                  ELSE IF b.owner[g] = "none" THEN "root" ELSE b.owner[g]]]

Bound(b, d, name) == WithDriver(b, [b.driver EXCEPT ![d] = name])

(* Who takes a drive that appears in a rescan: nvme knows it by its class,  *)
(* vfio-pci by its identifier, and either may come first.                   *)
Takers(b, d) == {"nvme"} \union (IF IdOf(d) \in b.ids /\ d \in fit THEN {"vfio_pci"} ELSE {})

(* A write to new_id: refused for an identifier that is known, otherwise    *)
(* all drives of the identifier that have no driver are taken.              *)
NewId(b, d) ==
    IF IdOf(d) \in b.ids THEN [b EXCEPT !.raised = TRUE]
    ELSE WithDriver([b EXCEPT !.ids = @ \union {IdOf(d)}],
                    [e \in Drives |-> IF b.driver[e] = "none" /\ IdOf(e) = IdOf(d) /\ e \in fit
                                      THEN "vfio_pci" ELSE b.driver[e]])

(* A write to remove_id: refused for an identifier that is not known.       *)
RemoveId(b, d) ==
    IF IdOf(d) \in b.ids THEN [b EXCEPT !.ids = @ \ {IdOf(d)}] ELSE [b EXCEPT !.raised = TRUE]

-----------------------------------------------------------------------------
(* Fault: the identifier stays with vfio-pci.                               *)
UnboundKeepingId(b, d) == Bound(b, d, "none")

(* _unbind_current_driver: a drive of vfio-pci takes the identifier along.  *)
Unbound(b, d) ==
    IF b.driver[d] = "vfio_pci" THEN RemoveId(Bound(b, d, "none"), d) ELSE Bound(b, d, "none")

(* _create_device and _change_device_ownership: the path tested is that of  *)
(* the group; without it None is passed to chown.                           *)
HandedOver(b, d) ==
    IF b.raised THEN b
    ELSE IF b.owner[GroupOf(d)] = "none" THEN [b EXCEPT !.raised = TRUE]
    ELSE [b EXCEPT !.owner[GroupOf(d)] = "user"]

(* expose: remove, rescan, in which taker gets the drive, unbind, new_id    *)
(* and chown; what fails ends the script.                                   *)
Exposed(b, d, taker) ==
    LET rescanned == Bound(Bound([b EXCEPT !.raised = FALSE], d, "none"), d, taker)
        unbound   == Unbound(rescanned, d)
    IN  HandedOver(IF unbound.raised THEN unbound ELSE NewId(unbound, d), d)

(* reclaim: unbind and bind; for a name that is no driver's there is only a *)
(* warning.                                                                 *)
Reclaimed(b, d, name) ==
    LET unbound == Unbound([b EXCEPT !.raised = FALSE], d)
    IN  IF unbound.raised \/ name # "nvme" THEN unbound ELSE Bound(unbound, d, name)
=============================================================================

------------------------- MODULE PhysicalDeviceProofs -------------------------
(***************************************************************************)
(* Proofs about PhysicalDevice: for every set of drives and every way they  *)
(* share identifiers and groups, and for every number of vectors, commands  *)
(* and calls.                                                               *)
(***************************************************************************)
EXTENDS PhysicalDevice, SequenceTheorems, FiniteSetTheorems, TLAPS

(***************************************************************************)
(* The host: scripts, kernel and process.                                   *)
(***************************************************************************)
PlacesOK == twins \in BOOLEAN /\ together \in BOOLEAN /\ fit \subseteq Drives

Bindings == [driver : [Drives -> {"none", "nvme", "vfio_pci"}], ids : SUBSET {IdOf(d) : d \in Drives},
             owner : [Groups -> {"none", "root", "user"}], raised : BOOLEAN]

HostTypes ==
    /\ PlacesOK
    /\ sys \in Bindings
    /\ held \in [Groups -> {"closed", "open", "claimed"}]
    /\ object \in [Drives -> {"none", "open", "broken"}]
    /\ script \in [Drives -> {"reclaimed", "exposed", "failed"}] /\ spoilt \subseteq Groups
    /\ hostCalls \in 0 .. MaxHostCalls
    /\ hostResult.out \in {"ok", "raised"}

(* What a script left behind is what the next one relies on.  An exposed    *)
(* drive is with vfio-pci and its node is the user's; vfio-pci never has a  *)
(* drive without knowing its identifier; and it has forgotten the           *)
(* identifier of a drive that was given back.                               *)
ScriptsInv ==
    /\ \A d \in Drives : script[d] = "exposed" =>
         /\ sys.driver[d] # "nvme"
         /\ d \in fit => sys.driver[d] = "vfio_pci" /\ sys.owner[GroupOf(d)] = "user"
    /\ ~twins => \A d \in Drives :
         /\ sys.driver[d] = "vfio_pci" => d \in sys.ids /\ d \in fit
         /\ d \in fit /\ script[d] = "exposed" => d \in sys.ids
         /\ d \in fit /\ script[d] = "reclaimed" => d \notin sys.ids

(* A group is used by one drive of its own at a time, which holds it; a     *)
(* group that is held without a drive in use is one a call failed on.       *)
SessionInv ==
    /\ \A d \in Drives : object[d] # "none" => held[GroupOf(d)] = "claimed"
    /\ \A d, e \in Drives : object[d] # "none" /\ object[e] # "none" /\ GroupOf(d) = GroupOf(e) => d = e
    /\ \A g \in Groups : held[g] # "closed" /\ ~InUse(g) => g \in spoilt

HostInv == HostTypes /\ ScriptsInv /\ SessionInv /\ ScriptsSucceed

(***************************************************************************)
(* The device: types, and the books a user's calls keep.                    *)
(***************************************************************************)
Pairs == [there : BOOLEAN, vec : Vectors, iv : Vectors, cqes : Seq(Objects)]
Waiters == {"sync_cmd", "process_completions", "create_io_queue_pair"}
Waits == [fn : Waiters, c : Objects \union {NoCmd}, qs : Seq(Queues), todo : Seq(Queues), found : Nat,
          max : Nat, drain : BOOLEAN, iv : Vectors, others : BOOLEAN, inTime : BOOLEAN]

DevTypes ==
    /\ irq \in [msix : BOOLEAN, num : Nat, fds : Nat, trigger : [Vectors -> Nat]]
    /\ \A v \in Vectors : irq.trigger[v] <= irq.fds
    /\ signalled \subseteq 1 .. irq.fds /\ flying \subseteq Vectors
    /\ queue \in [Queues -> Pairs]
    /\ state \in [Objects -> {"new", "posted", "complete"}] /\ at \in [Objects -> Queues]
    /\ device \subseteq outstanding /\ outstanding \subseteq Objects
    /\ call = Idle \/ call \in Waits
    /\ result.out \in {"ok", "refused", "not complete", "raised"}
    /\ orderly \in BOOLEAN
    /\ starts \in Nat /\ calls \in Nat /\ starts + calls <= MaxCalls

(* A command is started on a queue that exists and is new until then; the   *)
(* second command of create_io_queue_pair is new until the first is         *)
(* complete.                                                                *)
BooksInv ==
    /\ queue[0].there
    /\ \A c \in outstanding : state[c] = "posted" /\ queue[at[c]].there /\ (c \in Cmds => c <= starts)
    /\ state[CreateCq] = "new" => state[CreateSq] = "new"
    /\ Waiting => /\ call.c = CreateCq => state[CreateSq] = "new"
                  /\ \A i \in 1 .. Len(call.qs) : queue[call.qs[i]].there
                  /\ \A i \in 1 .. Len(call.todo) : queue[call.todo[i]].there

(* A completion is that of a command that was started, and that the device  *)
(* no longer has.                                                           *)
Entered(c) == \E q \in Queues : \E i \in 1 .. Len(queue[q].cqes) : queue[q].cqes[i] = c

AnsweredInv ==
    \A c \in Objects : Entered(c) => c \notin device /\ state[c] # "new" /\ (c \in Cmds => c <= starts)

(***************************************************************************)
(* The device while it is used orderly.                                     *)
(***************************************************************************)

(* A completion queue holds commands that are still outstanding, on their   *)
(* own queue, once.                                                         *)
EntriesInv ==
    /\ \A q \in Queues : \A i \in 1 .. Len(queue[q].cqes) :
         queue[q].cqes[i] \in outstanding \ device /\ at[queue[q].cqes[i]] = q
    /\ \A q \in Queues : \A i, j \in 1 .. Len(queue[q].cqes) : queue[q].cqes[i] = queue[q].cqes[j] => i = j
    /\ outstanding \intersect Bulky = {}

(* Every queue has a vector of its own, and the kernel's descriptor for it  *)
(* is the one the driver reads.                                             *)
VectorsInv ==
    /\ queue[0].vec = 0 /\ queue[0].iv = 0
    /\ ~irq.msix => irq.fds = 0
    /\ irq.msix => /\ irq.fds = irq.num /\ irq.num > 0
                   /\ \A v \in Vectors : v < irq.num => irq.trigger[v] = v + 1
                   /\ queue[1].there => queue[1].vec \in 1 .. irq.num - 1 /\ queue[1].iv = queue[1].vec
                   /\ Waiting /\ call.c \in CreateCmds => call.iv \in 1 .. irq.num - 1

(* The call is taking all it finds in queue q.                              *)
Draining(q) == Waiting /\ call.drain /\ call.todo # <<>> /\ Head(call.todo) = q

(* A completion the call has not been told of is on its way.                *)
SignalsInv ==
    irq.msix => \A q \in Queues :
        queue[q].there /\ queue[q].cqes # <<>> =>
            queue[q].iv \in flying \/ queue[q].vec + 1 \in signalled \/ Draining(q)

(* A call for one command looks at the queue of that command only; if there *)
(* was no other command and the completion was there when the pass began,   *)
(* the pass does not end without it.                                        *)
WaitsInv ==
    Waiting =>
      /\ call.drain => irq.msix /\ call.todo # <<>>
      /\ call.c \in Objects =>
           /\ call.qs = <<at[call.c]>>
           /\ call.todo = <<>> \/ call.todo = call.qs
           /\ ~call.others => \A o \in outstanding : at[o] = at[call.c] => o = call.c
           /\ ~call.others /\ call.inTime =>
                \/ state[call.c] = "complete"
                \/ /\ call.todo = call.qs
                   /\ queue[at[call.c]].cqes # <<>>
                   /\ irq.msix => call.drain \/ queue[at[call.c]].vec + 1 \in signalled

Order == EntriesInv /\ VectorsInv /\ SignalsInv /\ WaitsInv

OrderlyInv == orderly => Order

DevInv == DevTypes /\ BooksInv /\ AnsweredInv /\ OrderlyInv /\ GivesUpOnlyWhenLate
-----------------------------------------------------------------------------
(* What the steps of a script do.  A group whose node is the user's stays   *)
(* the user's while another drive of it is with vfio-pci.                   *)
Names == {"none", "nvme", "vfio_pci"}

OwnersKept(b, r, d) ==
    \A g \in Groups : b.owner[g] = "user" /\ (\E e \in Members(g) : e # d /\ b.driver[e] = "vfio_pci")
                        => r.owner[g] = "user"

LEMMA GroupFacts ==
    /\ \A d \in Drives : GroupOf(d) \in Groups /\ d \in Members(GroupOf(d))
    /\ First \in Drives
BY DrivesAssumption DEF Groups, GroupOf, Members, First

LEMMA WithDriverFacts ==
    ASSUME NEW b \in Bindings, NEW driver \in [Drives -> Names]
    PROVE  LET r == WithDriver(b, driver)
           IN  /\ r \in Bindings /\ r.driver = driver /\ r.ids = b.ids /\ r.raised = b.raised
               /\ \A g \in Groups : (\E e \in Members(g) : driver[e] = "vfio_pci") =>
                    r.owner[g] # "none" /\ (b.owner[g] = "user" => r.owner[g] = "user")
<1> DEFINE owner == [g \in Groups |->
                       IF \A d \in Members(g) : driver[d] # "vfio_pci" THEN "none"
                       ELSE IF b.owner[g] = "none" THEN "root" ELSE b.owner[g]]
<1>1. owner \in [Groups -> {"none", "root", "user"}]
  BY DEF Bindings
<1>2. \A g \in Groups : (\E e \in Members(g) : driver[e] = "vfio_pci") =>
        owner[g] # "none" /\ (b.owner[g] = "user" => owner[g] = "user")
  OBVIOUS
<1>3. WithDriver(b, driver) = [b EXCEPT !.driver = driver, !.owner = owner]
  BY DEF WithDriver
<1> HIDE DEF owner
<1> DEFINE r == WithDriver(b, driver)
<1>4. r = [b EXCEPT !.driver = driver, !.owner = owner]
  BY <1>3
<1> HIDE DEF r
<1>5. r.driver = driver /\ r.ids = b.ids /\ r.raised = b.raised /\ r.owner = owner
  BY <1>4 DEF Bindings
<1>6. r \in Bindings
  BY <1>1, <1>4 DEF Bindings, Names
<1>7. \A g \in Groups : (\E e \in Members(g) : driver[e] = "vfio_pci") =>
        r.owner[g] # "none" /\ (b.owner[g] = "user" => r.owner[g] = "user")
  BY <1>2, <1>5
<1> QED
  BY <1>5, <1>6, <1>7 DEF r

LEMMA BoundFacts ==
    ASSUME NEW b \in Bindings, NEW d \in Drives, NEW name \in Names
    PROVE  LET r == Bound(b, d, name)
           IN  /\ r \in Bindings /\ r.driver = [b.driver EXCEPT ![d] = name]
               /\ r.ids = b.ids /\ r.raised = b.raised
               /\ OwnersKept(b, r, d)
<1> DEFINE driver == [b.driver EXCEPT ![d] = name]
<1>1. driver \in [Drives -> Names] /\ \A e \in Drives : e # d => driver[e] = b.driver[e]
  BY DEF Bindings, Names
<1>2. Bound(b, d, name) = WithDriver(b, driver)
  BY DEF Bound
<1>3. \A g \in Groups : (\E e \in Members(g) : e # d /\ b.driver[e] = "vfio_pci")
        => \E e \in Members(g) : driver[e] = "vfio_pci"
  BY <1>1 DEF Members
<1> HIDE DEF driver
<1>4. OwnersKept(b, WithDriver(b, driver), d)
  BY <1>1, <1>3, WithDriverFacts DEF OwnersKept
<1> QED
  BY <1>1, <1>2, <1>4, WithDriverFacts DEF driver

LEMMA UnboundFacts ==
    ASSUME NEW b \in Bindings, NEW d \in Drives, ~b.raised
    PROVE  LET r == Unbound(b, d)
           IN  /\ r \in Bindings /\ r.driver = [b.driver EXCEPT ![d] = "none"]
               /\ r.ids = IF b.driver[d] = "vfio_pci" THEN b.ids \ {IdOf(d)} ELSE b.ids
               /\ r.raised <=> b.driver[d] = "vfio_pci" /\ IdOf(d) \notin b.ids
               /\ OwnersKept(b, r, d)
<1> DEFINE u == Bound(b, d, "none")
<1>0. "none" \in Names
  BY DEF Names
<1>1. /\ u \in Bindings /\ u.driver = [b.driver EXCEPT ![d] = "none"]
      /\ u.ids = b.ids /\ ~u.raised /\ OwnersKept(b, u, d)
  BY <1>0, BoundFacts
<1>2. Unbound(b, d) = IF b.driver[d] = "vfio_pci" THEN RemoveId(u, d) ELSE u
  BY DEF Unbound
<1> HIDE DEF u
<1>3. CASE b.driver[d] = "vfio_pci" /\ IdOf(d) \in b.ids
  <2>1. Unbound(b, d) = [u EXCEPT !.ids = @ \ {IdOf(d)}]
    BY <1>1, <1>2, <1>3 DEF RemoveId
  <2> QED
    BY <1>1, <1>3, <2>1 DEF Bindings, OwnersKept
<1>4. CASE b.driver[d] = "vfio_pci" /\ IdOf(d) \notin b.ids
  <2>1. Unbound(b, d) = [u EXCEPT !.raised = TRUE] /\ b.ids \ {IdOf(d)} = b.ids
    BY <1>1, <1>2, <1>4 DEF RemoveId
  <2> QED
    BY <1>1, <1>4, <2>1 DEF Bindings, OwnersKept
<1>5. CASE b.driver[d] # "vfio_pci"
  BY <1>1, <1>2, <1>5
<1> QED
  BY <1>3, <1>4, <1>5

LEMMA NewIdFacts ==
    ASSUME PlacesOK, NEW b \in Bindings, NEW d \in Drives, ~b.raised
    PROVE  LET r == NewId(b, d)
           IN  /\ r \in Bindings /\ r.ids = b.ids \union {IdOf(d)}
               /\ r.raised <=> IdOf(d) \in b.ids
               /\ r.driver = IF IdOf(d) \in b.ids THEN b.driver
                             ELSE [e \in Drives |-> IF b.driver[e] = "none" /\ IdOf(e) = IdOf(d) /\ e \in fit
                                                    THEN "vfio_pci" ELSE b.driver[e]]
               /\ ~r.raised => \A g \in Groups : (\E e \in Members(g) : r.driver[e] = "vfio_pci") =>
                    r.owner[g] # "none" /\ (b.owner[g] = "user" => r.owner[g] = "user")
               /\ r.raised => r.owner = b.owner
<1>1. CASE IdOf(d) \in b.ids
  <2>1. NewId(b, d) = [b EXCEPT !.raised = TRUE] /\ b.ids \union {IdOf(d)} = b.ids
    BY <1>1 DEF NewId
  <2> QED
    BY <1>1, <2>1 DEF Bindings
<1>2. CASE IdOf(d) \notin b.ids
  <2> DEFINE told == [b EXCEPT !.ids = @ \union {IdOf(d)}]
             driver == [e \in Drives |-> IF b.driver[e] = "none" /\ IdOf(e) = IdOf(d) /\ e \in fit
                                         THEN "vfio_pci" ELSE b.driver[e]]
  <2>1. told \in Bindings /\ told.ids = b.ids \union {IdOf(d)} /\ ~told.raised /\ told.owner = b.owner
    BY DEF Bindings
  <2>2. driver \in [Drives -> Names]
    BY DEF Bindings, Names
  <2>3. NewId(b, d) = WithDriver(told, driver)
    BY <1>2 DEF NewId
  <2>4. driver = [e \in Drives |-> IF b.driver[e] = "none" /\ IdOf(e) = IdOf(d) /\ e \in fit
                                   THEN "vfio_pci" ELSE b.driver[e]]
    OBVIOUS
  <2> HIDE DEF told, driver
  <2> DEFINE r == WithDriver(told, driver)
  <2>5. /\ r \in Bindings /\ r.driver = driver /\ r.ids = told.ids /\ r.raised = told.raised
        /\ \A g \in Groups : (\E e \in Members(g) : driver[e] = "vfio_pci") =>
             r.owner[g] # "none" /\ (told.owner[g] = "user" => r.owner[g] = "user")
    BY <2>1, <2>2, WithDriverFacts
  <2> HIDE DEF r
  <2>6. NewId(b, d) = r
    BY <2>3 DEF r
  <2> QED
    BY <1>2, <2>1, <2>4, <2>5, <2>6
<1> QED
  BY <1>1, <1>2

LEMMA OwnersKeptTwice ==
    ASSUME NEW a, NEW b, NEW c, NEW d, OwnersKept(a, b, d), OwnersKept(b, c, d),
           \A e \in Drives : e # d => b.driver[e] = a.driver[e]
    PROVE  OwnersKept(a, c, d)
BY DEF OwnersKept, Members

(* chown comes last and fails only without a node.                          *)
LEMMA HandedOverFacts ==
    ASSUME NEW b \in Bindings, NEW d \in Drives
    PROVE  LET r == HandedOver(b, d)
           IN  /\ r \in Bindings /\ r.driver = b.driver /\ r.ids = b.ids
               /\ r.raised <=> b.raised \/ b.owner[GroupOf(d)] = "none"
               /\ ~r.raised => r.owner[GroupOf(d)] = "user"
               /\ OwnersKept(b, r, d)
<1>0. GroupOf(d) \in Groups
  BY GroupFacts
<1>1. CASE b.raised
  BY <1>1 DEF HandedOver, OwnersKept
<1>2. CASE ~b.raised /\ b.owner[GroupOf(d)] = "none"
  <2>1. HandedOver(b, d) = [b EXCEPT !.raised = TRUE]
    BY <1>2 DEF HandedOver
  <2> QED
    BY <1>2, <2>1 DEF Bindings, OwnersKept
<1>3. CASE ~b.raised /\ b.owner[GroupOf(d)] # "none"
  <2> DEFINE owner == [b.owner EXCEPT ![GroupOf(d)] = "user"]
  <2>1. HandedOver(b, d) = [b EXCEPT !.owner = owner]
    BY <1>3 DEF HandedOver
  <2>2. owner \in [Groups -> {"none", "root", "user"}] /\ owner[GroupOf(d)] = "user"
        /\ \A g \in Groups : b.owner[g] = "user" => owner[g] = "user"
    BY <1>0 DEF Bindings
  <2> HIDE DEF owner
  <2> QED
    BY <1>3, <2>1, <2>2 DEF Bindings, OwnersKept
<1> QED
  BY <1>1, <1>2, <1>3

(* expose, as far as the other drives and the next script can tell.         *)
LEMMA ExposedFacts ==
    ASSUME PlacesOK, NEW b \in Bindings, NEW d \in Drives, NEW taker \in Takers(b, d)
    PROVE  LET r == Exposed(b, d, taker)
           IN  /\ r \in Bindings
               /\ \A e \in Drives : e # d =>
                    \/ r.driver[e] = b.driver[e]
                    \/ b.driver[e] = "none" /\ r.driver[e] = "vfio_pci" /\ e \in fit /\ IdOf(e) = IdOf(d)
               /\ \A k : k # IdOf(d) => (k \in r.ids <=> k \in b.ids)
               /\ IdOf(d) \in r.ids
               /\ r.driver[d] # "nvme" /\ (r.driver[d] = "vfio_pci" => d \in fit)
               /\ ~r.raised => (d \in fit => r.driver[d] = "vfio_pci") /\ r.owner[GroupOf(d)] = "user"
               /\ d \in fit /\ IdOf(d) \notin b.ids => ~r.raised
               /\ OwnersKept(b, r, d)
<1> DEFINE tried     == [b EXCEPT !.raised = FALSE]
           removed   == Bound(tried, d, "none")
           rescanned == Bound(removed, d, taker)
           unbound   == Unbound(rescanned, d)
           known     == NewId(unbound, d)
<1>0. "none" \in Names /\ taker \in Names /\ d \in Members(GroupOf(d)) /\ GroupOf(d) \in Groups
  BY GroupFacts DEF Names, Takers
<1>1. tried \in Bindings /\ tried.driver = b.driver /\ tried.ids = b.ids /\ ~tried.raised /\ tried.owner = b.owner
  BY DEF Bindings
<1> HIDE DEF tried
<1>2. /\ removed \in Bindings /\ removed.driver = [b.driver EXCEPT ![d] = "none"]
      /\ removed.ids = b.ids /\ ~removed.raised /\ OwnersKept(tried, removed, d)
  BY <1>0, <1>1, BoundFacts
<1> HIDE DEF removed
<1>3. /\ rescanned \in Bindings /\ rescanned.driver = [removed.driver EXCEPT ![d] = taker]
      /\ rescanned.ids = b.ids /\ ~rescanned.raised /\ OwnersKept(removed, rescanned, d)
  BY <1>0, <1>2, BoundFacts
<1> HIDE DEF rescanned
<1>4. b.driver \in [Drives -> Names] /\ rescanned.driver = [b.driver EXCEPT ![d] = taker]
  BY <1>2, <1>3 DEF Bindings, Names
<1>5. /\ unbound \in Bindings /\ unbound.driver = [b.driver EXCEPT ![d] = "none"]
      /\ unbound.ids = IF taker = "vfio_pci" THEN b.ids \ {IdOf(d)} ELSE b.ids
      /\ ~unbound.raised /\ OwnersKept(rescanned, unbound, d)
  <2>1. rescanned.driver[d] = taker
    BY <1>4
  <2>2. taker = "vfio_pci" => IdOf(d) \in b.ids
    BY DEF Takers
  <2>3. /\ unbound \in Bindings /\ unbound.driver = [rescanned.driver EXCEPT ![d] = "none"]
        /\ unbound.ids = IF taker = "vfio_pci" THEN b.ids \ {IdOf(d)} ELSE b.ids
        /\ ~unbound.raised /\ OwnersKept(rescanned, unbound, d)
    <3>1. rescanned \in Bindings /\ d \in Drives /\ ~rescanned.raised
      BY <1>3
    <3> DEFINE u == Unbound(rescanned, d)
    <3>2. /\ u \in Bindings /\ u.driver = [rescanned.driver EXCEPT ![d] = "none"]
          /\ u.ids = IF rescanned.driver[d] = "vfio_pci" THEN rescanned.ids \ {IdOf(d)} ELSE rescanned.ids
          /\ u.raised <=> rescanned.driver[d] = "vfio_pci" /\ IdOf(d) \notin rescanned.ids
          /\ OwnersKept(rescanned, u, d)
      BY ONLY <3>1, UnboundFacts
    <3>3. u = unbound
      OBVIOUS
    <3> HIDE DEF u, unbound
    <3> QED
      BY <1>3, <2>1, <2>2, <3>2, <3>3
  <2> QED
    BY <1>4, <2>3
<1> HIDE DEF unbound
<1>6. OwnersKept(b, unbound, d)
  <2>1. OwnersKept(b, removed, d)
    BY <1>1, <1>2 DEF OwnersKept
  <2>2. OwnersKept(b, rescanned, d)
    BY <1>2, <1>3, <1>4, <2>1, OwnersKeptTwice
  <2> QED
    BY <1>4, <1>5, <2>2, OwnersKeptTwice
<1>7. /\ known \in Bindings /\ known.ids = unbound.ids \union {IdOf(d)}
      /\ known.raised <=> IdOf(d) \in unbound.ids
      /\ known.driver = IF IdOf(d) \in unbound.ids THEN unbound.driver
                        ELSE [e \in Drives |-> IF unbound.driver[e] = "none" /\ IdOf(e) = IdOf(d) /\ e \in fit
                                               THEN "vfio_pci" ELSE unbound.driver[e]]
      /\ ~known.raised => \A g \in Groups : (\E e \in Members(g) : known.driver[e] = "vfio_pci") =>
           known.owner[g] # "none" /\ (unbound.owner[g] = "user" => known.owner[g] = "user")
      /\ known.raised => known.owner = unbound.owner
  BY <1>5, NewIdFacts
<1>8. Exposed(b, d, taker) = HandedOver(known, d)
  BY <1>5 DEF Exposed, tried, removed, rescanned, unbound
<1> HIDE DEF known
<1>9. /\ \A e \in Drives : e # d =>
           \/ known.driver[e] = b.driver[e]
           \/ b.driver[e] = "none" /\ known.driver[e] = "vfio_pci" /\ e \in fit /\ IdOf(e) = IdOf(d)
      /\ known.driver[d] # "nvme" /\ (known.driver[d] = "vfio_pci" => d \in fit)
      /\ ~known.raised /\ d \in fit => known.driver[d] = "vfio_pci"
  BY <1>4, <1>5, <1>7
<1>10. OwnersKept(b, known, d)
  <2>1. \A e \in Drives : e # d /\ b.driver[e] = "vfio_pci" => known.driver[e] = "vfio_pci"
    BY <1>9
  <2> QED
    BY <1>6, <1>7, <2>1 DEF OwnersKept, Members
<1>11. ~known.raised /\ d \in fit => known.owner[GroupOf(d)] # "none"
  BY <1>0, <1>7, <1>9
<1>12. IdOf(d) \notin b.ids => ~known.raised
  BY <1>5, <1>7 DEF Takers
<1> DEFINE r == HandedOver(known, d)
<1>13. /\ r \in Bindings /\ r.driver = known.driver /\ r.ids = known.ids
       /\ r.raised <=> known.raised \/ known.owner[GroupOf(d)] = "none"
       /\ ~r.raised => r.owner[GroupOf(d)] = "user"
       /\ OwnersKept(known, r, d)
  BY <1>7, HandedOverFacts
<1> HIDE DEF r
<1>14. OwnersKept(b, r, d)
  BY <1>9, <1>10, <1>13 DEF OwnersKept, Members
<1>15. r = Exposed(b, d, taker)
  BY <1>8 DEF r
<1>16. \A e \in Drives : e # d =>
         \/ r.driver[e] = b.driver[e]
         \/ b.driver[e] = "none" /\ r.driver[e] = "vfio_pci" /\ e \in fit /\ IdOf(e) = IdOf(d)
  BY <1>9, <1>13
<1>17. (\A k : k # IdOf(d) => (k \in r.ids <=> k \in b.ids)) /\ IdOf(d) \in r.ids
  <2>1. r.ids = unbound.ids \union {IdOf(d)}
    BY <1>7, <1>13
  <2>2. unbound.ids = b.ids \ {IdOf(d)} \/ unbound.ids = b.ids
    BY <1>5
  <2> QED
    BY <2>1, <2>2
<1>18. r.driver[d] # "nvme" /\ (r.driver[d] = "vfio_pci" => d \in fit)
  BY <1>9, <1>13
<1>19. ~r.raised => (d \in fit => r.driver[d] = "vfio_pci") /\ r.owner[GroupOf(d)] = "user"
  BY <1>9, <1>13
<1>20. d \in fit /\ IdOf(d) \notin b.ids => ~r.raised
  BY <1>11, <1>12, <1>13
<1>21. r \in Bindings
  BY <1>13
<1> QED
  BY <1>14, <1>15, <1>16, <1>17, <1>18, <1>19, <1>20, <1>21

(* reclaim fails only for a drive of vfio-pci whose identifier is unknown.  *)
LEMMA ReclaimedFacts ==
    ASSUME NEW b \in Bindings, NEW d \in Drives, NEW name \in {"nvme", "misspelt"}
    PROVE  LET r == Reclaimed(b, d, name)
           IN  /\ r \in Bindings
               /\ \A e \in Drives : e # d => r.driver[e] = b.driver[e]
               /\ r.driver[d] # "vfio_pci"
               /\ r.ids = IF b.driver[d] = "vfio_pci" THEN b.ids \ {IdOf(d)} ELSE b.ids
               /\ r.raised <=> b.driver[d] = "vfio_pci" /\ IdOf(d) \notin b.ids
               /\ OwnersKept(b, r, d)
<1> DEFINE tried   == [b EXCEPT !.raised = FALSE]
           unbound == Unbound(tried, d)
<1>1. tried \in Bindings /\ tried.driver = b.driver /\ tried.ids = b.ids /\ ~tried.raised /\ tried.owner = b.owner
  BY DEF Bindings
<1> HIDE DEF tried
<1>2. /\ unbound \in Bindings /\ unbound.driver = [b.driver EXCEPT ![d] = "none"]
      /\ unbound.ids = IF b.driver[d] = "vfio_pci" THEN b.ids \ {IdOf(d)} ELSE b.ids
      /\ unbound.raised <=> b.driver[d] = "vfio_pci" /\ IdOf(d) \notin b.ids
      /\ OwnersKept(tried, unbound, d)
  BY <1>1, UnboundFacts
<1>3. Reclaimed(b, d, name) = IF unbound.raised \/ name # "nvme" THEN unbound ELSE Bound(unbound, d, name)
  BY DEF Reclaimed, tried
<1> HIDE DEF unbound
<1>4. OwnersKept(b, unbound, d) /\ b.driver \in [Drives -> Names] /\ "nvme" \in Names
  BY <1>1, <1>2 DEF OwnersKept, Bindings, Names
<1>5. CASE unbound.raised \/ name # "nvme"
  BY <1>2, <1>3, <1>4, <1>5
<1>6. CASE ~(unbound.raised \/ name # "nvme")
  <2> DEFINE bound == Bound(unbound, d, "nvme")
  <2>1. /\ bound \in Bindings /\ bound.driver = [unbound.driver EXCEPT ![d] = "nvme"]
        /\ bound.ids = unbound.ids /\ bound.raised = unbound.raised /\ OwnersKept(unbound, bound, d)
    BY <1>2, <1>4, BoundFacts
  <2>2. Reclaimed(b, d, name) = bound
    BY <1>3, <1>6
  <2> HIDE DEF bound
  <2>3. OwnersKept(b, bound, d)
    BY <1>2, <1>4, <2>1, OwnersKeptTwice
  <2> QED
    BY <1>2, <1>4, <1>6, <2>1, <2>2, <2>3
<1> QED
  BY <1>5, <1>6
-----------------------------------------------------------------------------
(* The host's invariant, one call at a time.                                *)
LEMMA PlacesStay ==
    ASSUME UNCHANGED places
    PROVE  /\ \A d : GroupOf(d)' = GroupOf(d) /\ IdOf(d)' = IdOf(d)
           /\ Groups' = Groups /\ Bindings' = Bindings
           /\ \A g : Members(g)' = Members(g)
           /\ UNCHANGED <<twins, together, fit>>
<1>1. UNCHANGED <<twins, together, fit>>
  BY DEF places
<1>2. \A d : GroupOf(d)' = GroupOf(d) /\ IdOf(d)' = IdOf(d)
  BY <1>1 DEF GroupOf, IdOf
<1>3. Groups' = Groups
  BY <1>2 DEF Groups
<1>4. \A g : Members(g)' = Members(g)
  BY <1>2 DEF Members
<1>5. Bindings' = Bindings
  <2>1. {IdOf(d) : d \in Drives}' = {IdOf(d) : d \in Drives}
    BY <1>2
  <2> QED
    BY <1>3, <2>1 DEF Bindings
<1> QED
  BY <1>1, <1>2, <1>3, <1>4, <1>5

LEMMA EndsFacts ==
    ASSUME HostTypes, NEW fn, NEW d, NEW ok, Ends(fn, d, ok)
    PROVE  /\ hostCalls' \in 0 .. MaxHostCalls /\ hostResult'.out \in {"ok", "raised"}
           /\ hostResult'.fn = fn /\ hostResult'.drive = d /\ hostResult'.before = script[d]
           /\ hostResult'.out = "raised" <=> ~ok
           /\ UNCHANGED places
BY MaxHostCallsAssumption DEF Ends, HostTypes

(* Scripts leave the process alone.                                         *)
LEMMA ScriptKeepsSession ==
    ASSUME SessionInv, UNCHANGED <<places, held, object, spoilt>>
    PROVE  SessionInv'
BY PlacesStay DEF SessionInv, InUse

LEMMA ExposeHost ==
    ASSUME HostInv, NEW d \in Drives, Expose(d)
    PROVE  HostInv'
<1>1. PICK taker \in Takers(sys, d) : sys' = Exposed(sys, d, taker)
  BY DEF Expose
<1>2. /\ script' = [script EXCEPT ![d] = IF sys'.raised THEN "failed" ELSE "exposed"]
      /\ UNCHANGED <<held, object, spoilt>>
      /\ Ends("expose", d, ~sys'.raised)
  BY DEF Expose
<1>3. /\ HostTypes /\ ScriptsInv /\ SessionInv /\ PlacesOK /\ sys \in Bindings
      /\ script \in [Drives -> {"reclaimed", "exposed", "failed"}]
  BY DEF HostInv, HostTypes
<1>4. /\ hostCalls' \in 0 .. MaxHostCalls /\ hostResult'.out \in {"ok", "raised"}
      /\ hostResult'.fn = "expose" /\ hostResult'.drive = d /\ hostResult'.before = script[d]
      /\ hostResult'.out = "raised" <=> sys'.raised
      /\ UNCHANGED places
  BY <1>2, <1>3, EndsFacts
<1>5. /\ \A e : GroupOf(e)' = GroupOf(e) /\ IdOf(e)' = IdOf(e)
      /\ Groups' = Groups /\ Bindings' = Bindings
      /\ UNCHANGED <<twins, together, fit>>
  BY <1>4, PlacesStay
<1>6. /\ sys' \in Bindings
      /\ \A e \in Drives : e # d =>
           \/ sys'.driver[e] = sys.driver[e]
           \/ sys.driver[e] = "none" /\ sys'.driver[e] = "vfio_pci" /\ e \in fit /\ IdOf(e) = IdOf(d)
      /\ \A k : k # IdOf(d) => (k \in sys'.ids <=> k \in sys.ids)
      /\ IdOf(d) \in sys'.ids
      /\ sys'.driver[d] # "nvme" /\ (sys'.driver[d] = "vfio_pci" => d \in fit)
      /\ ~sys'.raised => (d \in fit => sys'.driver[d] = "vfio_pci") /\ sys'.owner[GroupOf(d)] = "user"
      /\ d \in fit /\ IdOf(d) \notin sys.ids => ~sys'.raised
      /\ OwnersKept(sys, sys', d)
  BY <1>1, <1>3, ExposedFacts
<1>7. /\ \A e \in Drives : e # d => script'[e] = script[e]
      /\ script'[d] = IF sys'.raised THEN "failed" ELSE "exposed"
      /\ script' \in [Drives -> {"reclaimed", "exposed", "failed"}]
  BY <1>2, <1>3
<1>8. HostTypes'
  BY <1>2, <1>3, <1>4, <1>5, <1>6, <1>7 DEF HostTypes, PlacesOK
<1>9. ScriptsInv'
  <2>1. ASSUME NEW e \in Drives, script'[e] = "exposed"
        PROVE  /\ sys'.driver[e] # "nvme"
               /\ e \in fit => sys'.driver[e] = "vfio_pci" /\ sys'.owner[GroupOf(e)] = "user"
    <3>1. CASE e = d
      BY <1>6, <1>7, <2>1, <3>1
    <3>2. CASE e # d
      <4>1. /\ sys.driver[e] # "nvme"
            /\ e \in fit => sys.driver[e] = "vfio_pci" /\ sys.owner[GroupOf(e)] = "user"
        BY <1>3, <1>7, <2>1, <3>2 DEF ScriptsInv
      <4>2. sys'.driver[e] # "nvme" /\ (e \in fit => sys'.driver[e] = "vfio_pci")
        BY <1>6, <3>2, <4>1
      <4>3. e \in fit => sys'.owner[GroupOf(e)] = "user"
        BY <1>6, <3>2, <4>1, GroupFacts DEF OwnersKept
      <4> QED
        BY <4>2, <4>3
    <3> QED
      BY <3>1, <3>2
  <2>2. ASSUME ~twins, NEW e \in Drives
        PROVE  /\ sys'.driver[e] = "vfio_pci" => e \in sys'.ids /\ e \in fit
               /\ e \in fit /\ script'[e] = "exposed" => e \in sys'.ids
               /\ e \in fit /\ script'[e] = "reclaimed" => e \notin sys'.ids
    <3>1. IdOf(e) = e /\ IdOf(d) = d
      BY <2>2 DEF IdOf
    <3>2. CASE e = d
      BY <1>6, <1>7, <3>1, <3>2
    <3>3. CASE e # d
      BY <1>3, <1>6, <1>7, <2>2, <3>1, <3>3 DEF ScriptsInv
    <3> QED
      BY <3>2, <3>3
  <2> QED
    BY <1>5, <2>1, <2>2 DEF ScriptsInv
<1>10. SessionInv'
  BY <1>2, <1>3, <1>4, ScriptKeepsSession
<1>11. ScriptsSucceed'
  <2>1. ASSUME sys'.raised, ~twins, d \in fit PROVE script[d] # "reclaimed"
    <3>1. IdOf(d) = d
      BY <2>1 DEF IdOf
    <3> QED
      BY <1>3, <1>6, <2>1, <3>1 DEF ScriptsInv
  <2> QED
    BY <1>4, <1>5, <2>1 DEF ScriptsSucceed
<1> QED
  BY <1>8, <1>9, <1>10, <1>11 DEF HostInv

LEMMA ReclaimHost ==
    ASSUME HostInv, NEW d \in Drives, NEW name \in {"nvme", "misspelt"}, Reclaim(d, name)
    PROVE  HostInv'
<1>1. sys' = Reclaimed(sys, d, name)
  BY DEF Reclaim
<1>2. /\ script' = [script EXCEPT ![d] = IF sys'.raised \/ @ = "failed" THEN "failed" ELSE "reclaimed"]
      /\ UNCHANGED <<held, object, spoilt>>
      /\ Ends("reclaim", d, ~sys'.raised)
  BY DEF Reclaim
<1>3. /\ HostTypes /\ ScriptsInv /\ SessionInv /\ PlacesOK /\ sys \in Bindings
      /\ script \in [Drives -> {"reclaimed", "exposed", "failed"}]
  BY DEF HostInv, HostTypes
<1>4. /\ hostCalls' \in 0 .. MaxHostCalls /\ hostResult'.out \in {"ok", "raised"}
      /\ hostResult'.fn = "reclaim" /\ hostResult'.drive = d /\ hostResult'.before = script[d]
      /\ hostResult'.out = "raised" <=> sys'.raised
      /\ UNCHANGED places
  BY <1>2, <1>3, EndsFacts
<1>5. /\ \A e : GroupOf(e)' = GroupOf(e) /\ IdOf(e)' = IdOf(e)
      /\ Groups' = Groups /\ Bindings' = Bindings
      /\ UNCHANGED <<twins, together, fit>>
  BY <1>4, PlacesStay
<1>6. /\ sys' \in Bindings
      /\ \A e \in Drives : e # d => sys'.driver[e] = sys.driver[e]
      /\ sys'.driver[d] # "vfio_pci"
      /\ sys'.ids = IF sys.driver[d] = "vfio_pci" THEN sys.ids \ {IdOf(d)} ELSE sys.ids
      /\ sys'.raised <=> sys.driver[d] = "vfio_pci" /\ IdOf(d) \notin sys.ids
      /\ OwnersKept(sys, sys', d)
  BY <1>1, <1>3, ReclaimedFacts
<1>7. /\ \A e \in Drives : e # d => script'[e] = script[e]
      /\ script'[d] = IF sys'.raised \/ script[d] = "failed" THEN "failed" ELSE "reclaimed"
      /\ script' \in [Drives -> {"reclaimed", "exposed", "failed"}]
  BY <1>2, <1>3
<1>8. HostTypes'
  BY <1>2, <1>3, <1>4, <1>5, <1>6, <1>7 DEF HostTypes, PlacesOK
<1>9. ScriptsInv'
  <2>1. ASSUME NEW e \in Drives, script'[e] = "exposed"
        PROVE  /\ sys'.driver[e] # "nvme"
               /\ e \in fit => sys'.driver[e] = "vfio_pci" /\ sys'.owner[GroupOf(e)] = "user"
    <3>1. e # d
      BY <1>7, <2>1
    <3>2. /\ sys.driver[e] # "nvme"
          /\ e \in fit => sys.driver[e] = "vfio_pci" /\ sys.owner[GroupOf(e)] = "user"
      BY <1>3, <1>7, <2>1, <3>1 DEF ScriptsInv
    <3> QED
      BY <1>6, <3>1, <3>2, GroupFacts DEF OwnersKept
  <2>2. ASSUME ~twins, NEW e \in Drives
        PROVE  /\ sys'.driver[e] = "vfio_pci" => e \in sys'.ids /\ e \in fit
               /\ e \in fit /\ script'[e] = "exposed" => e \in sys'.ids
               /\ e \in fit /\ script'[e] = "reclaimed" => e \notin sys'.ids
    <3>1. IdOf(e) = e /\ IdOf(d) = d
      BY <2>2 DEF IdOf
    <3>2. CASE e = d
      <4>1. sys'.driver[d] # "vfio_pci" /\ script'[d] # "exposed"
        BY <1>6, <1>7
      <4>2. d \in fit /\ script'[d] = "reclaimed" => d \notin sys'.ids
        <5>1. script'[d] = "reclaimed" => script[d] \in {"reclaimed", "exposed"}
          BY <1>3, <1>7
        <5>2. d \in fit /\ script[d] = "exposed" => sys.driver[d] = "vfio_pci"
          BY <1>3 DEF ScriptsInv
        <5>3. d \in fit /\ script[d] = "reclaimed" => d \notin sys.ids
          BY <1>3, <2>2 DEF ScriptsInv
        <5> QED
          BY <1>6, <3>1, <5>1, <5>2, <5>3
      <4> QED
        BY <3>2, <4>1, <4>2
    <3>3. CASE e # d
      BY <1>3, <1>6, <1>7, <2>2, <3>1, <3>3 DEF ScriptsInv
    <3> QED
      BY <3>2, <3>3
  <2> QED
    BY <1>5, <2>1, <2>2 DEF ScriptsInv
<1>10. SessionInv'
  BY <1>2, <1>3, <1>4, ScriptKeepsSession
<1>11. ScriptsSucceed'
  <2>1. ASSUME sys'.raised PROVE twins
    <3> SUFFICES ASSUME ~twins PROVE FALSE
      BY <1>3 DEF PlacesOK
    <3>1. IdOf(d) = d
      BY DEF IdOf
    <3> QED
      BY <1>3, <1>6, <2>1, <3>1 DEF ScriptsInv
  <2> QED
    BY <1>4, <1>5, <2>1 DEF ScriptsSucceed
<1> QED
  BY <1>8, <1>9, <1>10, <1>11 DEF HostInv

(* The process leaves the scripts' bookkeeping alone.                       *)
LEMMA ProcessKeepsScripts ==
    ASSUME HostTypes, ScriptsInv, NEW fn \in {"open", "clean", "exit"}, NEW d, NEW ok, Ends(fn, d, ok),
           UNCHANGED <<sys, script>>,
           held' \in [Groups -> {"closed", "open", "claimed"}],
           object' \in [Drives -> {"none", "open", "broken"}], spoilt' \subseteq Groups
    PROVE  HostTypes' /\ ScriptsInv' /\ ScriptsSucceed'
<1>1. /\ hostCalls' \in 0 .. MaxHostCalls /\ hostResult'.out \in {"ok", "raised"}
      /\ hostResult'.fn = fn /\ UNCHANGED places
  BY EndsFacts
<1>2. /\ \A e : GroupOf(e)' = GroupOf(e) /\ IdOf(e)' = IdOf(e)
      /\ Groups' = Groups /\ Bindings' = Bindings
      /\ UNCHANGED <<twins, together, fit>>
  BY <1>1, PlacesStay
<1> QED
  BY <1>1, <1>2 DEF HostTypes, PlacesOK, ScriptsInv, ScriptsSucceed

LEMMA OpenHost ==
    ASSUME HostInv, NEW d \in Drives, Open(d)
    PROVE  HostInv'
<1> DEFINE g == GroupOf(d)
<1>1. /\ held' = HeldAfter(g)
      /\ object' = IF Opens(d) THEN [object EXCEPT ![d] = "open"] ELSE object
      /\ Spoils(d, ~Opens(d) /\ ~InUse(g))
      /\ Ends("open", d, Opens(d)) /\ UNCHANGED <<sys, script>>
  BY DEF Open
<1>2. /\ HostTypes /\ ScriptsInv /\ SessionInv
      /\ held \in [Groups -> {"closed", "open", "claimed"}]
      /\ object \in [Drives -> {"none", "open", "broken"}] /\ spoilt \subseteq Groups
      /\ g \in Groups
  BY GroupFacts DEF HostInv, HostTypes
<1>3. /\ held' \in [Groups -> {"closed", "open", "claimed"}]
      /\ object' \in [Drives -> {"none", "open", "broken"}] /\ spoilt' \subseteq Groups
  BY <1>1, <1>2 DEF HeldAfter, Spoils
<1>4. HostTypes' /\ ScriptsInv' /\ ScriptsSucceed' /\ UNCHANGED places
  BY <1>1, <1>2, <1>3, ProcessKeepsScripts, EndsFacts
<1>5. SessionInv'
  <2>1. /\ \A e : GroupOf(e)' = GroupOf(e)
        /\ \A h : Members(h)' = Members(h)
        /\ Groups' = Groups
    BY <1>4, PlacesStay
  <2>2. \A h \in Groups : InUse(h) <=> \E e \in Drives : GroupOf(e) = h /\ object[e] # "none"
    BY DEF InUse, Members
  <2>3. \A h \in Groups : InUse(h)' <=> \E e \in Drives : GroupOf(e) = h /\ object'[e] # "none"
    BY <2>1 DEF InUse, Members
  <2>4. CASE ~GroupOpens(g)
    <3>1. held' = held /\ object' = object /\ spoilt \subseteq spoilt'
      BY <1>1, <2>4 DEF HeldAfter, Opens, Spoils
    <3> QED
      BY <1>2, <2>1, <2>2, <2>3, <3>1 DEF SessionInv
  <2>5. CASE GroupOpens(g)
    <3>1. held[g] = "closed" /\ sys.owner[g] = "user" /\ \A e \in Drives : GroupOf(e) = g => object[e] = "none"
      BY <1>2, <2>5 DEF GroupOpens, SessionInv
    <3>2. ~InUse(g)
      BY <1>2, <2>2, <3>1
    <3>3. \A h \in Groups : h # g => held'[h] = held[h]
      BY <1>1, <1>2 DEF HeldAfter
    <3>4. CASE Opens(d)
      <4>1. held'[g] = "claimed" /\ object' = [object EXCEPT ![d] = "open"] /\ spoilt' = spoilt
        BY <1>1, <1>2, <2>5, <3>4 DEF HeldAfter, Opens, Spoils
      <4>2. \A e \in Drives : object'[e] = IF e = d THEN "open" ELSE object[e]
        BY <1>2, <4>1
      <4>3. \A h \in Groups : h # g => (InUse(h)' <=> InUse(h))
        BY <1>2, <2>2, <2>3, <4>2
      <4>4. InUse(g)'
        <5>1. object'[d] = "open" /\ GroupOf(d) = g
          BY <4>2
        <5>2. InUse(g)' <=> \E e \in Drives : GroupOf(e) = g /\ object'[e] # "none"
          BY <1>2, <2>1, <2>3
        <5> QED
          BY <5>1, <5>2
      <4> QED
        BY <1>2, <2>1, <3>1, <3>3, <4>1, <4>2, <4>3, <4>4, GroupFacts DEF SessionInv
    <3>5. CASE ~Opens(d)
      <4>1. object' = object /\ spoilt' = spoilt \union {g}
        BY <1>1, <3>1, <3>2, <3>5 DEF Spoils
      <4>2. \A h \in Groups : InUse(h)' <=> InUse(h)
        BY <2>2, <2>3, <4>1
      <4> QED
        BY <1>2, <2>1, <3>1, <3>3, <4>1, <4>2, GroupFacts DEF SessionInv
    <3> QED
      BY <3>4, <3>5
  <2> QED
    BY <2>4, <2>5
<1> QED
  BY <1>4, <1>5 DEF HostInv

LEMMA CleanHost ==
    ASSUME HostInv, NEW d \in Drives, NEW kept \in BOOLEAN, Clean(d, kept)
    PROVE  HostInv'
<1> DEFINE g == GroupOf(d)
<1>1. /\ object[d] # "none"
      /\ Spoils(d, object'[d] = "broken")
      /\ Ends("clean", d, object'[d] = "none") /\ UNCHANGED <<sys, script>>
      /\ \/ object' = [object EXCEPT ![d] = "none"] /\ held' = [held EXCEPT ![g] = "closed"]
         \/ object' = [object EXCEPT ![d] = "broken"] /\ held' = held
  BY DEF Clean
<1>2. /\ HostTypes /\ ScriptsInv /\ SessionInv
      /\ held \in [Groups -> {"closed", "open", "claimed"}]
      /\ object \in [Drives -> {"none", "open", "broken"}] /\ spoilt \subseteq Groups
      /\ g \in Groups
  BY GroupFacts DEF HostInv, HostTypes
<1>3. /\ held' \in [Groups -> {"closed", "open", "claimed"}]
      /\ object' \in [Drives -> {"none", "open", "broken"}] /\ spoilt' \subseteq Groups
      /\ spoilt \subseteq spoilt'
  BY <1>1, <1>2 DEF Spoils
<1>4. HostTypes' /\ ScriptsInv' /\ ScriptsSucceed' /\ UNCHANGED places
  BY <1>1, <1>2, <1>3, ProcessKeepsScripts, EndsFacts
<1>5. SessionInv'
  <2>1. /\ \A e : GroupOf(e)' = GroupOf(e)
        /\ \A h : Members(h)' = Members(h)
        /\ Groups' = Groups
    BY <1>4, PlacesStay
  <2>2. \A h \in Groups : InUse(h) <=> \E e \in Drives : GroupOf(e) = h /\ object[e] # "none"
    BY DEF InUse, Members
  <2>3. \A h \in Groups : InUse(h)' <=> \E e \in Drives : GroupOf(e) = h /\ object'[e] # "none"
    BY <2>1 DEF InUse, Members
  <2>4. \A e \in Drives : e # d => object'[e] = object[e]
    BY <1>1, <1>2
  <2>5. \A h \in Groups : h # g => held'[h] = held[h] /\ (InUse(h)' <=> InUse(h))
    BY <1>1, <1>2, <2>2, <2>3, <2>4
  <2>6. CASE object' = [object EXCEPT ![d] = "none"] /\ held' = [held EXCEPT ![g] = "closed"]
    <3>1. \A e \in Drives : object'[e] # "none" => object[e] # "none" /\ GroupOf(e) # g
      BY <1>1, <1>2, <2>4, <2>6 DEF SessionInv
    <3>2. held'[g] = "closed"
      BY <1>2, <2>6
    <3> QED
      BY <1>2, <1>3, <2>1, <2>5, <3>1, <3>2, GroupFacts DEF SessionInv
  <2>7. CASE object' = [object EXCEPT ![d] = "broken"] /\ held' = held
    <3>1. \A e \in Drives : object'[e] # "none" <=> object[e] # "none"
      BY <1>1, <1>2, <2>7
    <3>2. \A h \in Groups : InUse(h)' <=> InUse(h)
      BY <2>2, <2>3, <3>1
    <3> QED
      BY <1>2, <1>3, <2>1, <2>7, <3>1, <3>2 DEF SessionInv
  <2> QED
    BY <1>1, <2>6, <2>7
<1> QED
  BY <1>4, <1>5 DEF HostInv

LEMMA ProcessEndsHost ==
    ASSUME HostInv, ProcessEnds
    PROVE  HostInv'
<1>1. /\ held' = NothingHeld /\ object' = NoObjects /\ spoilt' = {}
      /\ Ends("exit", First, TRUE) /\ UNCHANGED <<sys, script>>
  BY DEF ProcessEnds
<1>2. /\ held' \in [Groups -> {"closed", "open", "claimed"}]
      /\ object' \in [Drives -> {"none", "open", "broken"}] /\ spoilt' \subseteq Groups
      /\ \A g \in Groups : held'[g] = "closed"
      /\ \A d \in Drives : object'[d] = "none"
  BY <1>1 DEF NothingHeld, NoObjects
<1>3. HostTypes' /\ ScriptsInv' /\ ScriptsSucceed' /\ UNCHANGED places
  BY <1>1, <1>2, ProcessKeepsScripts, EndsFacts DEF HostInv
<1>4. SessionInv'
  BY <1>2, <1>3, PlacesStay DEF SessionInv
<1> QED
  BY <1>3, <1>4 DEF HostInv

LEMMA HostStep == HostInv /\ HostNext => HostInv'
BY ExposeHost, ReclaimHost, OpenHost, CleanHost, ProcessEndsHost DEF HostNext

LEMMA BootedFacts ==
    ASSUME TRUE
    PROVE  /\ Booted \in Bindings /\ Booted.ids = {}
           /\ \A d \in Drives : Booted.driver[d] = "nvme"
BY DEF Booted, Bindings

LEMMA HostInitHolds == HostInit => HostInv
<1> SUFFICES ASSUME HostInit PROVE HostInv
  OBVIOUS
<1>1. HostTypes
  BY BootedFacts, MaxHostCallsAssumption
  DEF HostInit, PlacesInit, HostTypes, PlacesOK, NothingHeld, NoObjects
<1>2. ScriptsInv
  BY BootedFacts DEF HostInit, ScriptsInv
<1>3. SessionInv /\ ScriptsSucceed
  BY DEF HostInit, SessionInv, ScriptsSucceed, NothingHeld, NoObjects
<1> QED
  BY <1>1, <1>2, <1>3 DEF HostInv

(* The first drive exposed and open, as in a behaviour of the device.       *)
LEMMA OpenedInitHolds == OpenedInit => HostInv
<1> SUFFICES ASSUME OpenedInit PROVE HostInv
  OBVIOUS
<1>1. /\ PlacesOK /\ ~twins /\ First \in Drives /\ "nvme" \in Takers(Booted, First)
      /\ \A d : GroupOf(d) = d /\ IdOf(d) = d
      /\ fit = Drives /\ sys = Exposed(Booted, First, "nvme")
  BY GroupFacts DEF OpenedInit, PlacesOK, Takers, GroupOf, IdOf
<1>2. /\ sys \in Bindings
      /\ \A e \in Drives : e # First => sys.driver[e] = "nvme" /\ e \notin sys.ids
      /\ First \in sys.ids /\ ~sys.raised
      /\ sys.driver[First] = "vfio_pci" /\ sys.owner[First] = "user"
  <2> DEFINE r == Exposed(Booted, First, "nvme")
  <2>1. /\ r \in Bindings
        /\ \A e \in Drives : e # First =>
             \/ r.driver[e] = Booted.driver[e]
             \/ Booted.driver[e] = "none" /\ r.driver[e] = "vfio_pci" /\ e \in fit /\ IdOf(e) = IdOf(First)
        /\ \A k : k # IdOf(First) => (k \in r.ids <=> k \in Booted.ids)
        /\ IdOf(First) \in r.ids
        /\ ~r.raised => (First \in fit => r.driver[First] = "vfio_pci") /\ r.owner[GroupOf(First)] = "user"
        /\ First \in fit /\ IdOf(First) \notin Booted.ids => ~r.raised
    BY <1>1, BootedFacts, ExposedFacts
  <2> HIDE DEF r
  <2>2. sys = r
    BY <1>1 DEF r
  <2> QED
    BY <1>1, <2>1, <2>2, BootedFacts
<1>3. /\ held = [NothingHeld EXCEPT ![First] = "claimed"] /\ First \in Groups
      /\ object = [NoObjects EXCEPT ![First] = "open"]
      /\ script = [d \in Drives |-> IF d = First THEN "exposed" ELSE "reclaimed"] /\ spoilt = {}
      /\ hostCalls = 0 /\ hostResult.fn = "open" /\ hostResult.out = "ok"
  BY <1>1, GroupFacts DEF OpenedInit
<1>4. HostTypes
  BY <1>1, <1>2, <1>3, MaxHostCallsAssumption DEF HostTypes, NothingHeld, NoObjects
<1>5. ScriptsInv
  BY <1>1, <1>2, <1>3 DEF ScriptsInv
<1>6. SessionInv
  <2>1. \A d \in Drives : object[d] # "none" => d = First
    BY <1>3 DEF NoObjects
  <2>2. held[First] = "claimed" /\ object[First] = "open" /\ \A g \in Groups : held[g] # "closed" => g = First
    BY <1>1, <1>3 DEF NothingHeld, NoObjects
  <2>3. InUse(First)
    BY <1>1, <2>2 DEF InUse, Members
  <2> QED
    BY <1>1, <2>1, <2>2, <2>3 DEF SessionInv
<1> QED
  BY <1>3, <1>4, <1>5, <1>6 DEF HostInv, ScriptsSucceed

LEMMA HostIsUsable == HostInv => HostTypeOK /\ ScriptsSucceed /\ ExposedMeansUsable
<1> SUFFICES ASSUME HostInv PROVE HostTypeOK /\ ScriptsSucceed /\ ExposedMeansUsable
  OBVIOUS
<1>1. HostTypeOK /\ ScriptsSucceed
  BY DEF HostInv, HostTypes, HostTypeOK, Bindings
<1>2. ASSUME NEW d \in fit, AllExposed(GroupOf(d)), GroupOf(d) \notin spoilt, ~InUse(GroupOf(d))
      PROVE  Opens(d)
  <2>1. d \in Drives /\ d \in Members(GroupOf(d)) /\ GroupOf(d) \in Groups
    BY GroupFacts DEF HostInv, HostTypes, PlacesOK
  <2>2. held[GroupOf(d)] = "closed"
    BY <1>2, <2>1 DEF HostInv, SessionInv, HostTypes
  <2>3. \A e \in Members(GroupOf(d)) : sys.driver[e] # "nvme"
    BY <1>2 DEF AllExposed, HostInv, ScriptsInv, Members
  <2>4. sys.driver[d] = "vfio_pci" /\ sys.owner[GroupOf(d)] = "user"
    BY <1>2, <2>1 DEF AllExposed, HostInv, ScriptsInv
  <2> QED
    BY <2>2, <2>3, <2>4 DEF Opens, GroupOpens, Viable
<1> QED
  BY <1>1, <1>2 DEF ExposedMeansUsable
-----------------------------------------------------------------------------
(* The device: constants, records and the queue one step changes.           *)
LEMMA ConstantFacts ==
    /\ 0 \in Vectors /\ Vectors \subseteq Nat /\ Cardinality(Vectors) \in Nat
    /\ \A v \in Vectors : \A u \in 0 .. v : u \in Vectors
    /\ Queues = {0, 1} /\ 0 \in Queues /\ 1 \in Queues
    /\ CreateCq \in Objects /\ CreateSq \in Objects /\ CreateCq # CreateSq
    /\ CreateCq \notin Cmds /\ CreateSq \notin Cmds /\ Cmds \subseteq Objects
    /\ NoCmd \notin Objects /\ CreateCmds = {CreateCq, CreateSq}
    /\ CreateCq \notin Bulky /\ CreateSq \notin Bulky
<1>1. Vectors # {} /\ Vectors = 0 .. Cardinality(Vectors) - 1 /\ Cardinality(Vectors) \in Nat
  BY VectorsAssumption, FS_CardinalityType
<1>2. /\ 0 \in Vectors /\ Vectors \subseteq Nat /\ Cardinality(Vectors) \in Nat
      /\ \A v \in Vectors : \A u \in 0 .. v : u \in Vectors
  <2> DEFINE n == Cardinality(Vectors)
  <2>1. Vectors = 0 .. n - 1 /\ Vectors # {} /\ n \in Nat
    BY <1>1
  <2> HIDE DEF n
  <2>2. PICK v \in Vectors : v \in 0 .. n - 1
    BY <2>1
  <2> QED
    BY <1>1, <2>1, <2>2
<1>3. Queues = {0, 1}
  BY DEF Queues
<1>4. /\ CreateCq \in Objects /\ CreateSq \in Objects /\ CreateCq # CreateSq
      /\ CreateCq \notin Cmds /\ CreateSq \notin Cmds /\ Cmds \subseteq Objects
      /\ NoCmd \notin Objects
  BY BoundsAssumption DEF CreateCq, CreateSq, Cmds, Objects, CreateCmds, NoCmd
<1> QED
  BY <1>2, <1>3, <1>4, BulkyAssumption DEF CreateCmds

LEMMA WaitingFacts ==
    /\ Idle \notin Waits
    /\ DevTypes => (Waiting <=> call \in Waits)
<1>1. Idle \notin Waits
  BY DEF Idle, Waits, Waiters
<1> QED
  BY <1>1 DEF DevTypes, Waiting

LEMMA PairFacts ==
    ASSUME NEW vec \in Vectors, NEW iv \in Vectors
    PROVE  /\ NewPair(vec, iv) \in Pairs
           /\ NewPair(vec, iv).there /\ NewPair(vec, iv).vec = vec /\ NewPair(vec, iv).iv = iv
           /\ NewPair(vec, iv).cqes = <<>>
           /\ NoPair \in Pairs /\ ~NoPair.there /\ NoPair.cqes = <<>>
BY ConstantFacts DEF NewPair, NoPair, Pairs

LEMMA EnabledFacts ==
    /\ EnabledQueues \in [Queues -> Pairs]
    /\ EnabledQueues[0].there /\ EnabledQueues[0].vec = 0 /\ EnabledQueues[0].iv = 0
    /\ ~EnabledQueues[1].there
    /\ \A q \in Queues : EnabledQueues[q].cqes = <<>>
BY ConstantFacts, PairFacts DEF EnabledQueues

(* A queue whose completions change keeps all else.                         *)
LEMMA CqesFacts ==
    ASSUME queue \in [Queues -> Pairs], NEW q \in Queues, NEW s \in Seq(Objects)
    PROVE  LET r == [queue EXCEPT ![q].cqes = s]
           IN  /\ r \in [Queues -> Pairs]
               /\ r[q].cqes = s
               /\ \A p \in Queues : /\ r[p].there = queue[p].there /\ r[p].vec = queue[p].vec
                                    /\ r[p].iv = queue[p].iv
                                    /\ p # q => r[p].cqes = queue[p].cqes
<1> DEFINE pair == [queue[q] EXCEPT !.cqes = s]
<1>1. /\ pair \in Pairs /\ pair.cqes = s /\ pair.there = queue[q].there /\ pair.vec = queue[q].vec
      /\ pair.iv = queue[q].iv
  BY DEF Pairs
<1>2. [queue EXCEPT ![q].cqes = s] = [queue EXCEPT ![q] = pair]
  OBVIOUS
<1> HIDE DEF pair
<1> QED
  BY <1>1, <1>2

LEMMA AnswerFacts ==
    ASSUME DevTypes, NEW c \in Objects, DeviceAnswers(c)
    PROVE  /\ c \in device /\ c \in outstanding /\ at[c] \in Queues
           /\ queue' \in [Queues -> Pairs]
           /\ queue'[at[c]].cqes = Append(queue[at[c]].cqes, c)
           /\ \A p \in Queues : /\ queue'[p].there = queue[p].there /\ queue'[p].vec = queue[p].vec
                                /\ queue'[p].iv = queue[p].iv
                                /\ p # at[c] => queue'[p].cqes = queue[p].cqes
<1>1. c \in device /\ c \in outstanding /\ at[c] \in Queues /\ queue \in [Queues -> Pairs]
  BY DEF DeviceAnswers, DevTypes
<1> DEFINE s == Append(queue[at[c]].cqes, c)
<1>2. s \in Seq(Objects)
  BY <1>1 DEF Pairs
<1>3. queue' = [queue EXCEPT ![at[c]].cqes = s]
  BY DEF DeviceAnswers
<1>4. s = Append(queue[at[c]].cqes, c)
  OBVIOUS
<1> HIDE DEF s
<1>5. /\ queue' \in [Queues -> Pairs] /\ queue'[at[c]].cqes = s
      /\ \A p \in Queues : /\ queue'[p].there = queue[p].there /\ queue'[p].vec = queue[p].vec
                           /\ queue'[p].iv = queue[p].iv
                           /\ p # at[c] => queue'[p].cqes = queue[p].cqes
  BY <1>1, <1>2, <1>3, CqesFacts
<1> QED
  BY <1>1, <1>4, <1>5

(* get_completion and complete_command, in their three outcomes.            *)
LEMMA TakeFacts ==
    ASSUME DevTypes, NEW q \in Queues, queue[q].cqes # <<>>, Take(q)
    PROVE  LET c == Head(queue[q].cqes)
           IN  /\ c \in Objects /\ c = queue[q].cqes[1]
               /\ UNCHANGED <<irq, signalled, flying, at, device, orderly, starts, calls>>
               /\ \/ /\ c \notin outstanding
                     /\ EndCall("raised") /\ UNCHANGED <<queue, state, outstanding>>
                  \/ /\ c \in outstanding /\ c \in Bulky
                     /\ state' = [state EXCEPT ![c] = "complete"] /\ outstanding' = outstanding \ {c}
                     /\ EndCall("raised") /\ UNCHANGED queue
                  \/ /\ c \in outstanding /\ c \notin Bulky
                     /\ state' = [state EXCEPT ![c] = "complete"] /\ outstanding' = outstanding \ {c}
                     /\ queue' \in [Queues -> Pairs]
                     /\ queue'[q].cqes = Tail(queue[q].cqes)
                     /\ \A p \in Queues : /\ queue'[p].there = queue[p].there /\ queue'[p].vec = queue[p].vec
                                          /\ queue'[p].iv = queue[p].iv
                                          /\ p # q => queue'[p].cqes = queue[p].cqes
                     /\ call' = AfterTake /\ UNCHANGED result
<1> DEFINE c == Head(queue[q].cqes)
<1>0. queue \in [Queues -> Pairs] /\ queue[q].cqes \in Seq(Objects)
  BY DEF DevTypes, Pairs
<1>1. c \in Objects /\ c = queue[q].cqes[1] /\ Tail(queue[q].cqes) \in Seq(Objects)
  BY <1>0, HeadTailProperties
<1>2. UNCHANGED <<irq, signalled, flying, at, device, orderly, starts, calls>>
  BY DEF Take
<1>3. CASE c \notin outstanding
  BY <1>1, <1>2, <1>3 DEF Take
<1>4. CASE c \in outstanding /\ c \in Bulky
  BY <1>1, <1>2, <1>4 DEF Take, NoMoreOutstanding
<1>5. CASE c \in outstanding /\ c \notin Bulky
  <2>1. /\ state' = [state EXCEPT ![c] = "complete"] /\ outstanding' = outstanding \ {c}
        /\ queue' = [queue EXCEPT ![q].cqes = Tail(queue[q].cqes)]
        /\ call' = AfterTake /\ UNCHANGED result
    BY <1>5 DEF Take, NoMoreOutstanding
  <2> DEFINE s == Tail(queue[q].cqes)
  <2>2. s \in Seq(Objects) /\ queue' = [queue EXCEPT ![q].cqes = s]
    BY <1>1, <2>1
  <2>4. s = Tail(queue[q].cqes)
    OBVIOUS
  <2> HIDE DEF s
  <2>3. /\ queue' \in [Queues -> Pairs] /\ queue'[q].cqes = s
        /\ \A p \in Queues : /\ queue'[p].there = queue[p].there /\ queue'[p].vec = queue[p].vec
                             /\ queue'[p].iv = queue[p].iv
                             /\ p # q => queue'[p].cqes = queue[p].cqes
    BY <1>0, <2>2, CqesFacts
  <2> QED
    BY <1>1, <1>2, <1>5, <2>1, <2>3, <2>4
<1> QED
  BY <1>3, <1>4, <1>5

LEMMA CallFacts ==
    ASSUME call \in Waits
    PROVE  /\ call.todo # <<>> =>
                /\ Head(call.todo) \in Queues /\ Head(call.todo) = call.todo[1] /\ Len(call.todo) \in Nat \ {0}
                /\ Tail(call.todo) \in Seq(Queues) /\ Len(Tail(call.todo)) = Len(call.todo) - 1
                /\ \A i \in 1 .. Len(Tail(call.todo)) : Tail(call.todo)[i] = call.todo[i + 1]
                /\ NextQueue \in Waits /\ AfterTake \in Waits
           /\ NextQueue.todo = Tail(call.todo) /\ NextQueue.drain = FALSE
           /\ NextQueue.c = call.c /\ NextQueue.qs = call.qs /\ NextQueue.iv = call.iv
           /\ NextQueue.others = call.others /\ NextQueue.inTime = call.inTime
           /\ AfterTake.todo = IF irq.msix THEN call.todo ELSE Tail(call.todo)
           /\ AfterTake.c = call.c /\ AfterTake.qs = call.qs /\ AfterTake.iv = call.iv
           /\ AfterTake.drain = call.drain
           /\ AfterTake.others = call.others /\ AfterTake.inTime = call.inTime
<1>1. ASSUME call.todo # <<>>
      PROVE  /\ Head(call.todo) \in Queues /\ Head(call.todo) = call.todo[1] /\ Len(call.todo) \in Nat \ {0}
             /\ Tail(call.todo) \in Seq(Queues) /\ Len(Tail(call.todo)) = Len(call.todo) - 1
             /\ \A i \in 1 .. Len(Tail(call.todo)) : Tail(call.todo)[i] = call.todo[i + 1]
  <2>1. call.todo \in Seq(Queues)
    BY DEF Waits
  <2>2. Head(call.todo) = call.todo[1]
    BY <1>1, <2>1
  <2> QED
    BY <1>1, <2>1, <2>2, HeadTailProperties, EmptySeq
<1>2. ASSUME call.todo # <<>>
      PROVE  NextQueue \in Waits /\ AfterTake \in Waits
  <2>1. Tail(call.todo) \in Seq(Queues) /\ call.found + 1 \in Nat
    BY <1>1, <1>2 DEF Waits
  <2>2. NextQueue \in Waits
    BY <2>1 DEF NextQueue, Waits
  <2>3. CASE irq.msix
    BY <2>1, <2>2, <2>3 DEF AfterTake, Waits
  <2>4. CASE ~irq.msix
    BY <2>1, <2>2, <2>4 DEF AfterTake, Waits
  <2> QED
    BY <2>2, <2>3, <2>4
<1>3. /\ NextQueue.todo = Tail(call.todo) /\ NextQueue.drain = FALSE
      /\ NextQueue.c = call.c /\ NextQueue.qs = call.qs /\ NextQueue.iv = call.iv
      /\ NextQueue.others = call.others /\ NextQueue.inTime = call.inTime
  BY DEF NextQueue, Waits
<1>4. /\ AfterTake.todo = IF irq.msix THEN call.todo ELSE Tail(call.todo)
      /\ AfterTake.c = call.c /\ AfterTake.qs = call.qs /\ AfterTake.iv = call.iv
      /\ AfterTake.drain = call.drain
      /\ AfterTake.others = call.others /\ AfterTake.inTime = call.inTime
  BY DEF AfterTake, Waits
<1> QED
  BY <1>1, <1>2, <1>3, <1>4

(* A call that ends leaves nothing to look at.                              *)
LEMMA EndFacts ==
    ASSUME NEW out \in {"raised", "not complete", "ok"}, EndCall(out)
    PROVE  /\ call' = Idle /\ ~Waiting' /\ result'.out = out
           /\ result'.others = call.others /\ result'.inTime = call.inTime
BY DEF EndCall, Waiting, Idle

(* Submitting a command that was not outstanding.                           *)
LEMMA SubmitFacts ==
    ASSUME DevTypes, NEW c \in Objects, NEW q \in Queues, Submit(c, q)
    PROVE  /\ state' \in [Objects -> {"new", "posted", "complete"}] /\ at' \in [Objects -> Queues]
           /\ device' \subseteq outstanding' /\ outstanding' \subseteq Objects
           /\ outstanding' = outstanding \union {c} /\ device' = device \union {c}
           /\ state'[c] = "posted" /\ at'[c] = q
           /\ \A o \in Objects : o # c => state'[o] = state[o] /\ at'[o] = at[o]
BY DEF DevTypes, Submit
-----------------------------------------------------------------------------
(* Types and books, one action at a time.                                   *)
LEMMA StartBooks ==
    ASSUME DevTypes, BooksInv, NEW q \in Queues, NEW fn \in {"start_cmd", "sync_cmd"}, Start(q, fn)
    PROVE  DevTypes' /\ BooksInv'
<1> DEFINE c == starts + 1
<1>1. /\ call = Idle /\ c \in Cmds /\ c + calls <= MaxCalls /\ queue[q].there
      /\ starts' = c /\ Submit(c, q)
      /\ call' = IF fn = "sync_cmd" THEN Wait(fn, c, <<q>>, 1, 0) ELSE Idle
      /\ orderly' = (orderly /\ c \notin Bulky) /\ result' = NoResult
      /\ UNCHANGED <<irq, signalled, flying, queue, calls>>
  BY DEF Start, UserCalls
<1>2. /\ c \in Objects /\ c \in Nat /\ starts \in Nat /\ calls \in Nat /\ c # CreateCq /\ c # CreateSq
      /\ CreateCq \in Objects /\ CreateSq \in Objects
  <2>1. starts \in Nat /\ calls \in Nat
    BY DEF DevTypes
  <2>2. c \in Nat
    BY <2>1
  <2> HIDE DEF c
  <2> QED
    BY <1>1, <2>1, <2>2, ConstantFacts
<1>3. <<q>> \in Seq(Queues) /\ Len(<<q>>) = 1 /\ <<q>>[1] = q
  OBVIOUS
<1>4. call' = Idle \/ (call' \in Waits /\ call'.c = c /\ call'.qs = <<q>> /\ call'.todo = <<q>>)
  <2>1. CASE fn = "sync_cmd"
    <3>1. fn \in Waiters /\ 0 \in Vectors /\ c \in Objects
      BY <1>2, <2>1, ConstantFacts DEF Waiters
    <3> DEFINE b == c # NoCmd /\ Others(Head(<<q>>))
    <3>2. call' = [fn |-> fn, c |-> c, qs |-> <<q>>, todo |-> <<q>>, found |-> 0, max |-> 1, drain |-> FALSE,
                   iv |-> 0, others |-> b, inTime |-> FALSE]
      BY <1>1, <2>1 DEF Wait
    <3>3. b \in BOOLEAN
      OBVIOUS
    <3> HIDE DEF c, b
    <3> QED
      BY <1>3, <3>1, <3>2, <3>3 DEF Waits
  <2> QED
    BY <1>1, <2>1
<1>5. /\ state' \in [Objects -> {"new", "posted", "complete"}] /\ at' \in [Objects -> Queues]
      /\ device' \subseteq outstanding' /\ outstanding' \subseteq Objects
      /\ outstanding' = outstanding \union {c} /\ device' = device \union {c}
      /\ state'[c] = "posted" /\ at'[c] = q
      /\ \A o \in Objects : o # c => state'[o] = state[o] /\ at'[o] = at[o]
  BY <1>1, <1>2, SubmitFacts
<1>6. starts' \in Nat /\ starts' + calls' <= MaxCalls /\ c > starts
  BY <1>1, <1>2
<1>7. orderly' \in BOOLEAN /\ result'.out = "ok"
  BY <1>1 DEF NoResult
<1> HIDE DEF c
<1>8. DevTypes'
  BY <1>1, <1>4, <1>5, <1>6, <1>7 DEF DevTypes
<1>9. BooksInv'
  <2>1. ASSUME NEW o \in outstanding'
        PROVE  state'[o] = "posted" /\ queue'[at'[o]].there /\ (o \in Cmds => o <= starts')
    <3>1. CASE o = c
      BY <1>1, <1>2, <1>5, <3>1
    <3>2. CASE o # c
      <4>1. o \in outstanding /\ o \in Objects
        BY <1>5, <2>1, <3>2
      <4>2. state[o] = "posted" /\ queue[at[o]].there /\ (o \in Cmds => o <= starts)
        BY <4>1 DEF BooksInv
      <4>3. o \in Cmds => o <= starts'
        BY <1>1, <1>2, <1>6, <4>2 DEF Cmds
      <4> QED
        BY <1>1, <1>5, <3>2, <4>1, <4>2, <4>3
    <3> QED
      BY <3>1, <3>2
  <2>2. Waiting' => /\ call'.c = CreateCq => state'[CreateSq] = "new"
                    /\ \A i \in 1 .. Len(call'.qs) : queue'[call'.qs[i]].there
                    /\ \A i \in 1 .. Len(call'.todo) : queue'[call'.todo[i]].there
    <3> SUFFICES ASSUME call' # Idle
                 PROVE  /\ call'.c = CreateCq => state'[CreateSq] = "new"
                        /\ \A i \in 1 .. Len(call'.qs) : queue'[call'.qs[i]].there
                        /\ \A i \in 1 .. Len(call'.todo) : queue'[call'.todo[i]].there
      BY DEF Waiting
    <3>1. call'.c # CreateCq /\ call'.qs = <<q>> /\ call'.todo = <<q>>
      BY <1>2, <1>4
    <3>2. queue'[q].there
      BY <1>1
    <3> QED
      BY <1>3, <3>1, <3>2
  <2> QED
    BY <1>1, <1>2, <1>5, <2>1, <2>2 DEF BooksInv
<1> QED
  BY <1>8, <1>9

LEMMA ProcessBooks ==
    ASSUME DevTypes, BooksInv, NEW qs \in Seq(Queues), \A i \in 1 .. Len(qs) : queue[qs[i]].there,
           Process(qs, 1)
    PROVE  DevTypes' /\ BooksInv'
<1>1. /\ call' = Wait("process_completions", NoCmd, qs, 1, 0) /\ result' = NoResult
      /\ UNCHANGED <<irq, signalled, flying, queue, state, at, device, outstanding, orderly, starts, calls>>
  BY DEF Process
<1>2. call' \in Waits /\ call'.c = NoCmd /\ call'.qs = qs /\ call'.todo = qs
  <2>1. "process_completions" \in Waiters /\ 1 \in Nat /\ 0 \in Vectors /\ NoCmd \in Objects \union {NoCmd}
    BY ConstantFacts DEF Waiters
  <2> DEFINE b == NoCmd # NoCmd /\ Others(Head(qs))
  <2>2. call' = [fn |-> "process_completions", c |-> NoCmd, qs |-> qs, todo |-> qs, found |-> 0, max |-> 1,
                 drain |-> FALSE, iv |-> 0, others |-> b, inTime |-> FALSE]
    BY <1>1 DEF Wait
  <2>3. b \in BOOLEAN
    OBVIOUS
  <2> HIDE DEF b
  <2> QED
    BY <2>1, <2>2, <2>3 DEF Waits
<1>3. DevTypes'
  BY <1>1, <1>2 DEF DevTypes, NoResult
<1>4. NoCmd # CreateCq
  BY ConstantFacts
<1>5. BooksInv'
  BY <1>1, <1>2, <1>4 DEF BooksInv
<1> QED
  BY <1>3, <1>5

LEMMA GetCqsFacts ==
    ASSUME BooksInv
    PROVE  GetCqs \in Seq(Queues) /\ \A i \in 1 .. Len(GetCqs) : queue[GetCqs[i]].there
<1>1. <<0, 1>> \in Seq(Queues) /\ <<0>> \in Seq(Queues)
  BY ConstantFacts
<1>2. CASE queue[1].there
  BY <1>1, <1>2 DEF GetCqs, BooksInv
<1>3. CASE ~queue[1].there
  BY <1>1, <1>3 DEF GetCqs, BooksInv
<1> QED
  BY <1>2, <1>3

LEMMA MsixBooks ==
    ASSUME DevTypes, BooksInv, NEW num \in 1 .. Cardinality(Vectors), NEW start \in {0, 1},
           NEW refused \in BOOLEAN, InitMsix(num, start, refused)
    PROVE  DevTypes' /\ BooksInv'
<1>1. /\ call = Idle /\ starts + calls < MaxCalls /\ calls' = calls + 1
      /\ irq' = [msix |-> TRUE, num |-> start + num, fds |-> irq.fds + num,
                 trigger |-> [v \in Vectors |->
                     IF ~refused /\ v \in start .. start + num - 1 THEN irq.fds + v - start + 1
                     ELSE irq.trigger[v]]]
      /\ orderly' = (orderly /\ ~irq.msix /\ start = 0 /\ outstanding = {} /\ ~queue[1].there)
      /\ UNCHANGED <<signalled, flying, queue, state, at, device, outstanding, call, result, starts>>
  BY DEF InitMsix, UserCalls
<1>2. /\ irq.fds \in Nat /\ irq.trigger \in [Vectors -> Nat] /\ Vectors \subseteq Nat
      /\ \A v \in Vectors : irq.trigger[v] <= irq.fds
      /\ num \in Nat /\ start \in Nat /\ starts \in Nat /\ calls \in Nat /\ signalled \subseteq 1 .. irq.fds
  <2>1. /\ irq.fds \in Nat /\ irq.trigger \in [Vectors -> Nat]
        /\ \A v \in Vectors : irq.trigger[v] <= irq.fds
        /\ starts \in Nat /\ calls \in Nat /\ signalled \subseteq 1 .. irq.fds
    BY DEF DevTypes
  <2>2. Vectors \subseteq Nat /\ Cardinality(Vectors) \in Nat
    BY ConstantFacts
  <2>3. num \in Nat /\ start \in Nat
    BY <2>2
  <2> QED
    BY <2>1, <2>2, <2>3
<1> DEFINE trigger == [v \in Vectors |->
                     IF ~refused /\ v \in start .. start + num - 1 THEN irq.fds + v - start + 1
                     ELSE irq.trigger[v]]
<1>3. ASSUME NEW v \in Vectors
      PROVE  trigger[v] \in Nat /\ trigger[v] <= irq.fds + num
  <2>1. v \in Nat /\ irq.trigger[v] \in Nat /\ irq.trigger[v] <= irq.fds
    BY <1>2
  <2>2. CASE ~refused /\ v \in start .. start + num - 1
    <3>1. trigger[v] = irq.fds + v - start + 1
      BY <2>2
    <3> HIDE DEF trigger
    <3> QED
      BY <1>2, <2>1, <2>2, <3>1
  <2>3. CASE ~(~refused /\ v \in start .. start + num - 1)
    <3>1. trigger[v] = irq.trigger[v]
      BY <2>3
    <3> HIDE DEF trigger
    <3> QED
      BY <1>2, <2>1, <3>1
  <2> QED
    BY <2>2, <2>3
<1>4. trigger \in [Vectors -> Nat]
  BY <1>3
<1>5. irq'.trigger = trigger /\ irq'.fds = irq.fds + num /\ irq'.num = start + num /\ irq'.msix = TRUE
      /\ irq' \in [msix : BOOLEAN, num : Nat, fds : Nat, trigger : [Vectors -> Nat]]
  <2> HIDE DEF trigger
  <2>1. irq' = [msix |-> TRUE, num |-> start + num, fds |-> irq.fds + num, trigger |-> trigger]
    BY <1>1 DEF trigger
  <2> QED
    BY <1>2, <1>4, <2>1
<1>6. /\ \A v \in Vectors : irq'.trigger[v] <= irq'.fds
      /\ signalled' \subseteq 1 .. irq'.fds
      /\ calls' \in Nat /\ starts' + calls' <= MaxCalls
  <2> HIDE DEF trigger
  <2> QED
    BY <1>1, <1>2, <1>3, <1>5, BoundsAssumption
<1>7. orderly' \in BOOLEAN
  BY <1>1
<1> HIDE DEF trigger
<1>8. DevTypes'
  BY <1>1, <1>5, <1>6, <1>7 DEF DevTypes
<1>9. BooksInv'
  BY <1>1 DEF BooksInv, Waiting
<1> QED
  BY <1>8, <1>9

LEMMA CreateBooks ==
    ASSUME DevTypes, BooksInv, NEW iv \in Vectors, CreatePair(iv)
    PROVE  DevTypes' /\ BooksInv'
<1>1. ~queue[1].there /\ state[CreateCq] = "new" /\ call = Idle /\ UNCHANGED <<starts, calls>>
  BY DEF CreatePair, UserCalls
<1>2. CASE irq.msix /\ iv > irq.num
  <2>1. /\ result' = [NoResult EXCEPT !.out = "refused"]
        /\ UNCHANGED <<irq, signalled, flying, queue, state, at, device, outstanding, call, orderly>>
    BY <1>2 DEF CreatePair, Refuse
  <2>2. result'.out = "refused"
    BY <2>1 DEF NoResult
  <2> QED
    BY <1>1, <2>1, <2>2 DEF DevTypes, BooksInv, Waiting
<1>3. CASE ~(irq.msix /\ iv > irq.num)
  <2>1. /\ Submit(CreateCq, 0)
        /\ call' = Wait("create_io_queue_pair", CreateCq, <<0>>, 1, iv)
        /\ orderly' = (orderly /\ (irq.msix => iv \in 1 .. irq.num - 1))
        /\ result' = NoResult
        /\ UNCHANGED <<irq, signalled, flying, queue>>
    BY <1>3 DEF CreatePair
  <2>2. /\ CreateCq \in Objects /\ CreateSq \in Objects /\ CreateCq # CreateSq /\ CreateCq \notin Cmds
        /\ 0 \in Queues
    BY ConstantFacts
  <2>3. <<0>> \in Seq(Queues) /\ Len(<<0>>) = 1 /\ <<0>>[1] = 0
    BY <2>2
  <2>4. call' \in Waits /\ call'.c = CreateCq /\ call'.qs = <<0>> /\ call'.todo = <<0>>
    <3>1. "create_io_queue_pair" \in Waiters
      BY DEF Waiters
    <3> DEFINE b == CreateCq # NoCmd /\ Others(Head(<<0>>))
    <3>2. call' = [fn |-> "create_io_queue_pair", c |-> CreateCq, qs |-> <<0>>, todo |-> <<0>>, found |-> 0,
                   max |-> 1, drain |-> FALSE, iv |-> iv, others |-> b, inTime |-> FALSE]
      BY <2>1 DEF Wait
    <3>3. b \in BOOLEAN
      OBVIOUS
    <3> HIDE DEF b
    <3> QED
      BY <2>2, <2>3, <3>1, <3>2, <3>3 DEF Waits
  <2>5. /\ state' \in [Objects -> {"new", "posted", "complete"}] /\ at' \in [Objects -> Queues]
        /\ device' \subseteq outstanding' /\ outstanding' \subseteq Objects
        /\ outstanding' = outstanding \union {CreateCq}
        /\ state'[CreateCq] = "posted" /\ at'[CreateCq] = 0
        /\ \A o \in Objects : o # CreateCq => state'[o] = state[o] /\ at'[o] = at[o]
    BY <2>1, <2>2, SubmitFacts
  <2>6. DevTypes'
    BY <1>1, <2>1, <2>4, <2>5 DEF DevTypes, NoResult
  <2>7. BooksInv'
    <3>1. ASSUME NEW o \in outstanding'
          PROVE  state'[o] = "posted" /\ queue'[at'[o]].there /\ (o \in Cmds => o <= starts')
      <4>1. CASE o = CreateCq
        BY <2>1, <2>2, <2>5, <4>1 DEF BooksInv
      <4>2. CASE o # CreateCq
        BY <1>1, <2>1, <2>5, <3>1, <4>2 DEF BooksInv
      <4> QED
        BY <4>1, <4>2
    <3>2. state'[CreateSq] = "new"
      BY <1>1, <2>2, <2>5 DEF BooksInv
    <3> QED
      BY <2>1, <2>3, <2>4, <3>1, <3>2 DEF BooksInv
  <2> QED
    BY <2>6, <2>7
<1> QED
  BY <1>2, <1>3

LEMMA DisableBooks ==
    ASSUME DevTypes, BooksInv, Disable
    PROVE  DevTypes' /\ BooksInv'
<1>1. /\ call = Idle /\ starts + calls < MaxCalls /\ calls' = calls + 1
      /\ queue' = EnabledQueues /\ device' = {} /\ outstanding' = {}
      /\ state' = [c \in Objects |-> IF c \in CreateCmds THEN "new" ELSE state[c]]
      /\ UNCHANGED <<irq, signalled, flying, at, call, result, orderly, starts>>
  BY DEF Disable, UserCalls
<1>2. calls' \in Nat /\ starts' + calls' <= MaxCalls
  <2>1. starts \in Nat /\ calls \in Nat /\ MaxCalls \in Nat
    BY BoundsAssumption DEF DevTypes
  <2>2. starts + calls < MaxCalls /\ calls' = calls + 1 /\ starts' = starts
    BY <1>1
  <2> QED
    BY <2>1, <2>2
<1>3. state' \in [Objects -> {"new", "posted", "complete"}] /\ state'[CreateSq] = "new"
  BY <1>1, ConstantFacts DEF DevTypes
<1>4. DevTypes'
  BY <1>1, <1>2, <1>3, EnabledFacts DEF DevTypes
<1>5. BooksInv'
  BY <1>1, <1>3, EnabledFacts DEF BooksInv, Waiting
<1> QED
  BY <1>4, <1>5
LEMMA AgainBooks ==
    ASSUME DevTypes, BooksInv, NEW c \in Cmds, StartAgain(c)
    PROVE  DevTypes' /\ BooksInv'
<1>1. /\ result' = [NoResult EXCEPT !.out = "refused"]
      /\ UNCHANGED <<irq, signalled, flying, queue, state, at, device, outstanding, call, orderly, starts, calls>>
  BY DEF StartAgain, Refuse
<1>2. result'.out = "refused"
  BY <1>1 DEF NoResult
<1> QED
  BY <1>1, <1>2 DEF DevTypes, BooksInv, Waiting

LEMMA AnswerBooks ==
    ASSUME DevTypes, BooksInv, NEW c \in Objects, DeviceAnswers(c)
    PROVE  DevTypes' /\ BooksInv'
<1>1. /\ at[c] \in Queues
      /\ queue' \in [Queues -> Pairs]
      /\ \A p \in Queues : queue'[p].there = queue[p].there
  BY AnswerFacts
<1>2. /\ device' = device \ {c}
      /\ flying' = IF irq.msix THEN flying \union {queue[at[c]].iv} ELSE flying
      /\ UNCHANGED <<irq, signalled, state, at, outstanding, call, result, orderly, starts, calls>>
  BY DEF DeviceAnswers
<1>3. queue[at[c]].iv \in Vectors
  BY <1>1 DEF DevTypes, Pairs
<1>4. DevTypes'
  BY <1>1, <1>2, <1>3 DEF DevTypes
<1>5. BooksInv'
  <2>1. /\ queue'[0].there /\ \A o \in outstanding' : queue'[at'[o]].there
    BY <1>1, <1>2, ConstantFacts DEF BooksInv, DevTypes
  <2>2. ASSUME Waiting'
        PROVE  /\ \A i \in 1 .. Len(call'.qs) : queue'[call'.qs[i]].there
               /\ \A i \in 1 .. Len(call'.todo) : queue'[call'.todo[i]].there
    <3>1. Waiting /\ call' = call /\ call.qs \in Seq(Queues) /\ call.todo \in Seq(Queues)
      BY <1>2, <2>2, WaitingFacts DEF Waiting, Waits
    <3>2. /\ \A i \in 1 .. Len(call.qs) : queue[call.qs[i]].there /\ call.qs[i] \in Queues
          /\ \A i \in 1 .. Len(call.todo) : queue[call.todo[i]].there /\ call.todo[i] \in Queues
      BY <3>1 DEF BooksInv
    <3> QED
      BY <1>1, <3>1, <3>2
  <2> QED
    BY <1>2, <2>1, <2>2 DEF BooksInv, Waiting
<1> QED
  BY <1>4, <1>5

LEMMA DeliverBooks ==
    ASSUME DevTypes, BooksInv, NEW v \in Vectors, Deliver(v)
    PROVE  DevTypes' /\ BooksInv'
<1>1. /\ v \in flying /\ flying' = flying \ {v}
      /\ signalled' = IF irq.trigger[v] = 0 THEN signalled ELSE signalled \union {irq.trigger[v]}
      /\ UNCHANGED <<irq, queue, state, at, device, outstanding, call, result, orderly, starts, calls>>
  BY DEF Deliver
<1>2. /\ irq.trigger[v] \in Nat /\ irq.trigger[v] <= irq.fds /\ irq.fds \in Nat
      /\ signalled \subseteq 1 .. irq.fds
  BY DEF DevTypes
<1>3. signalled' \subseteq 1 .. irq.fds
  <2>1. CASE irq.trigger[v] = 0
    BY <1>1, <1>2, <2>1
  <2>2. CASE irq.trigger[v] # 0
    <3>1. irq.trigger[v] \in 1 .. irq.fds
      BY <1>2, <2>2
    <3> QED
      BY <1>1, <1>2, <2>2, <3>1
  <2> QED
    BY <2>1, <2>2
<1> QED
  BY <1>1, <1>3 DEF DevTypes, BooksInv, Waiting

(* While a call goes on it waits for the same command and queues.           *)
LEMMA WaitingKept ==
    ASSUME DevTypes, BooksInv, Waiting,
           queue' \in [Queues -> Pairs], \A p \in Queues : queue'[p].there = queue[p].there,
           call.c = CreateCq => state'[CreateSq] = "new",
           \/ call' = Idle
           \/ /\ call' \in Waits /\ call'.c = call.c /\ call'.qs = call.qs
              /\ \/ call'.todo = call.todo
                 \/ call'.todo = call.qs
                 \/ call.todo # <<>> /\ call'.todo = Tail(call.todo)
    PROVE  Waiting' => /\ call'.c = CreateCq => state'[CreateSq] = "new"
                       /\ \A i \in 1 .. Len(call'.qs) : queue'[call'.qs[i]].there
                       /\ \A i \in 1 .. Len(call'.todo) : queue'[call'.todo[i]].there
<1> SUFFICES ASSUME Waiting'
             PROVE  /\ call'.c = CreateCq => state'[CreateSq] = "new"
                    /\ \A i \in 1 .. Len(call'.qs) : queue'[call'.qs[i]].there
                    /\ \A i \in 1 .. Len(call'.todo) : queue'[call'.todo[i]].there
  OBVIOUS
<1>1. call \in Waits /\ call.qs \in Seq(Queues) /\ call.todo \in Seq(Queues)
  BY WaitingFacts DEF Waits
<1>2. /\ call'.c = call.c /\ call'.qs = call.qs
      /\ \/ call'.todo = call.todo
         \/ call'.todo = call.qs
         \/ call.todo # <<>> /\ call'.todo = Tail(call.todo)
  BY DEF Waiting
<1>3. \A i \in 1 .. Len(call.qs) : queue'[call.qs[i]].there
  BY <1>1 DEF BooksInv
<1>4. \A i \in 1 .. Len(call.todo) : queue'[call.todo[i]].there
  BY <1>1 DEF BooksInv
<1>5. ASSUME call.todo # <<>>
      PROVE  \A i \in 1 .. Len(Tail(call.todo)) : queue'[Tail(call.todo)[i]].there
  <2>1. /\ Len(call.todo) \in Nat \ {0} /\ Len(Tail(call.todo)) = Len(call.todo) - 1
        /\ \A i \in 1 .. Len(Tail(call.todo)) : Tail(call.todo)[i] = call.todo[i + 1]
    BY <1>1, <1>5, CallFacts
  <2>2. \A i \in 1 .. Len(Tail(call.todo)) : i + 1 \in 1 .. Len(call.todo)
    BY <2>1
  <2> QED
    BY <1>4, <2>1, <2>2
<1> QED
  BY <1>2, <1>3, <1>4, <1>5

(* A step that changes the call, and the queues in their completions only.  *)
LEMMA CallBooks ==
    ASSUME DevTypes, BooksInv, Waiting,
           UNCHANGED <<irq, flying, state, at, device, outstanding, orderly, starts, calls, queue>>,
           signalled' \subseteq signalled,
           result'.out \in {"ok", "refused", "not complete", "raised"},
           \/ call' = Idle
           \/ /\ call' \in Waits /\ call'.c = call.c /\ call'.qs = call.qs
              /\ \/ call'.todo = call.todo
                 \/ call'.todo = call.qs
                 \/ call.todo # <<>> /\ call'.todo = Tail(call.todo)
    PROVE  DevTypes' /\ BooksInv'
<1>1. DevTypes'
  BY DEF DevTypes
<1>2. Waiting' => /\ call'.c = CreateCq => state'[CreateSq] = "new"
                  /\ \A i \in 1 .. Len(call'.qs) : queue'[call'.qs[i]].there
                  /\ \A i \in 1 .. Len(call'.todo) : queue'[call'.todo[i]].there
  <2>1. /\ queue' \in [Queues -> Pairs] /\ \A p \in Queues : queue'[p].there = queue[p].there
        /\ call.c = CreateCq => state'[CreateSq] = "new"
    BY DEF DevTypes, BooksInv
  <2> QED
    BY <2>1, WaitingKept
<1> QED
  BY <1>1, <1>2 DEF BooksInv

LEMMA TakeBooks ==
    ASSUME DevTypes, BooksInv, AnsweredInv, Waiting, call.todo # <<>>, queue[Head(call.todo)].cqes # <<>>,
           Take(Head(call.todo))
    PROVE  DevTypes' /\ BooksInv'
<1> DEFINE q == Head(call.todo)
           c == Head(queue[q].cqes)
<1>1. call \in Waits
  BY WaitingFacts
<1>2. q \in Queues /\ AfterTake \in Waits
      /\ AfterTake.todo = (IF irq.msix THEN call.todo ELSE Tail(call.todo))
      /\ AfterTake.c = call.c /\ AfterTake.qs = call.qs
  BY <1>1, CallFacts
<1>3. /\ c \in Objects
      /\ UNCHANGED <<irq, signalled, flying, at, device, orderly, starts, calls>>
      /\ \/ /\ c \notin outstanding
            /\ EndCall("raised") /\ UNCHANGED <<queue, state, outstanding>>
         \/ /\ c \in outstanding /\ c \in Bulky
            /\ state' = [state EXCEPT ![c] = "complete"] /\ outstanding' = outstanding \ {c}
            /\ EndCall("raised") /\ UNCHANGED queue
         \/ /\ c \in outstanding /\ c \notin Bulky
            /\ state' = [state EXCEPT ![c] = "complete"] /\ outstanding' = outstanding \ {c}
            /\ queue' \in [Queues -> Pairs]
            /\ \A p \in Queues : queue'[p].there = queue[p].there
            /\ call' = AfterTake /\ UNCHANGED result
  BY <1>2, TakeFacts
<1> HIDE DEF q, c
<1>4. CASE c \notin outstanding
  <2>1. call' = Idle /\ result'.out = "raised" /\ UNCHANGED <<queue, state, outstanding>>
    BY <1>3, <1>4, EndFacts
  <2> QED
    BY <1>3, <2>1, CallBooks
<1>5. CASE c \in outstanding
  <2>1. /\ state' = [state EXCEPT ![c] = "complete"] /\ outstanding' = outstanding \ {c}
        /\ queue' \in [Queues -> Pairs]
        /\ \A p \in Queues : queue'[p].there = queue[p].there
        /\ \/ call' = Idle /\ result'.out = "raised"
           \/ call' = AfterTake /\ result' = result
    <3>1. CASE c \in Bulky
      <4>1. EndCall("raised") /\ UNCHANGED queue
        BY <1>3, <1>5, <3>1
      <4>2. call' = Idle /\ result'.out = "raised"
        BY <4>1, EndFacts
      <4> QED
        BY <1>3, <1>5, <4>1, <4>2 DEF DevTypes
    <3>2. CASE c \notin Bulky
      BY <1>3, <1>5, <3>2
    <3> QED
      BY <3>1, <3>2
  <2>2. device' \subseteq outstanding'
    <3>1. queue[q].cqes \in Seq(Objects) /\ c = queue[q].cqes[1] /\ 1 \in 1 .. Len(queue[q].cqes)
      <4>1. queue[q].cqes \in Seq(Objects) /\ queue[q].cqes # <<>>
        BY <1>2 DEF DevTypes, Pairs, q
      <4> QED
        BY <4>1, EmptySeq DEF c
    <3>2. Entered(c)
      BY <1>2, <3>1 DEF Entered
    <3> QED
      BY <1>3, <2>1, <3>2 DEF DevTypes, AnsweredInv
  <2>3. state' \in [Objects -> {"new", "posted", "complete"}] /\ outstanding' \subseteq Objects
    BY <1>3, <2>1 DEF DevTypes
  <2>4. call' = Idle \/ call' \in Waits
    BY <1>2, <2>1
  <2>5. DevTypes'
    BY <1>3, <2>1, <2>2, <2>3, <2>4 DEF DevTypes
  <2>6. ASSUME NEW o \in outstanding'
        PROVE  state'[o] = "posted" /\ queue'[at'[o]].there /\ (o \in Cmds => o <= starts')
    BY <1>3, <2>1, <2>6 DEF BooksInv, DevTypes
  <2>7. state[c] = "posted"
    BY <1>5 DEF BooksInv
  <2>8. /\ state'[CreateCq] = "new" => state'[CreateSq] = "new"
        /\ call.c = CreateCq => state'[CreateSq] = "new"
    <3>1. \A o \in Objects : state'[o] = IF o = c THEN "complete" ELSE state[o]
      BY <1>3, <2>1 DEF DevTypes
    <3>2. /\ state[CreateCq] = "new" => state[CreateSq] = "new"
          /\ call.c = CreateCq => state[CreateSq] = "new"
      BY DEF BooksInv
    <3> QED
      BY <2>7, <3>1, <3>2, ConstantFacts
  <2>9. Waiting' => /\ call'.c = CreateCq => state'[CreateSq] = "new"
                    /\ \A i \in 1 .. Len(call'.qs) : queue'[call'.qs[i]].there
                    /\ \A i \in 1 .. Len(call'.todo) : queue'[call'.todo[i]].there
    <3>1. \/ call' = Idle
          \/ /\ call' \in Waits /\ call'.c = call.c /\ call'.qs = call.qs
             /\ \/ call'.todo = call.todo
                \/ call.todo # <<>> /\ call'.todo = Tail(call.todo)
      BY <1>2, <2>1
    <3> QED
      BY <2>1, <2>8, <3>1, WaitingKept
  <2>10. queue'[0].there
    BY <2>1, ConstantFacts DEF BooksInv
  <2> QED
    BY <2>5, <2>6, <2>8, <2>9, <2>10 DEF BooksInv
<1> QED
  BY <1>4, <1>5

LEMMA GoesBooks ==
    ASSUME DevTypes, BooksInv, Waiting, call.todo # <<>>, Goes(NextQueue), signalled' \subseteq signalled
    PROVE  DevTypes' /\ BooksInv'
<1>1. /\ call' = NextQueue
      /\ UNCHANGED <<irq, flying, queue, state, at, device, outstanding, result, orderly, starts, calls>>
  BY DEF Goes
<1>2. NextQueue \in Waits /\ NextQueue.todo = Tail(call.todo) /\ NextQueue.c = call.c /\ NextQueue.qs = call.qs
  BY WaitingFacts, CallFacts
<1>3. result'.out \in {"ok", "refused", "not complete", "raised"}
  BY <1>1 DEF DevTypes
<1> QED
  BY <1>1, <1>2, <1>3, CallBooks

LEMMA LookBooks ==
    ASSUME DevTypes, BooksInv, AnsweredInv, Look \/ Drain
    PROVE  DevTypes' /\ BooksInv'
<1>1. /\ Waiting /\ call.todo # <<>>
      /\ IF queue[Head(call.todo)].cqes # <<>> THEN Take(Head(call.todo))
         ELSE Goes(NextQueue) /\ UNCHANGED signalled
  BY DEF Look, Drain
<1>2. CASE queue[Head(call.todo)].cqes # <<>>
  BY <1>1, <1>2, TakeBooks
<1>3. CASE queue[Head(call.todo)].cqes = <<>>
  <2>1. Goes(NextQueue) /\ signalled' \subseteq signalled
    BY <1>1, <1>3
  <2> QED
    BY <1>1, <2>1, GoesBooks
<1> QED
  BY <1>2, <1>3

LEMMA CountBooks ==
    ASSUME DevTypes, BooksInv, ReadCount
    PROVE  DevTypes' /\ BooksInv'
<1> DEFINE fd == queue[Head(call.todo)].vec + 1
<1>1. Waiting /\ irq.msix /\ call.todo # <<>> /\ ~call.drain /\ call \in Waits
  BY WaitingFacts DEF ReadCount
<1>2. \/ /\ EndCall("raised")
         /\ UNCHANGED <<irq, signalled, flying, queue, state, at, device, outstanding, orderly, starts, calls>>
      \/ /\ signalled' = signalled \ {fd}
         /\ Goes([call EXCEPT !.drain = TRUE])
      \/ Goes(NextQueue) /\ UNCHANGED signalled
  BY DEF ReadCount
<1> HIDE DEF fd
<1>3. CASE /\ EndCall("raised")
           /\ UNCHANGED <<irq, signalled, flying, queue, state, at, device, outstanding, orderly, starts, calls>>
  <2>1. call' = Idle /\ result'.out = "raised"
    BY <1>3, EndFacts
  <2> QED
    BY <1>1, <1>3, <2>1, CallBooks
<1>4. CASE /\ signalled' = signalled \ {fd}
           /\ Goes([call EXCEPT !.drain = TRUE])
  <2>1. /\ call' = [call EXCEPT !.drain = TRUE] /\ signalled' \subseteq signalled
        /\ UNCHANGED <<irq, flying, queue, state, at, device, outstanding, result, orderly, starts, calls>>
    BY <1>4 DEF Goes
  <2>2. call' \in Waits /\ call'.c = call.c /\ call'.qs = call.qs /\ call'.todo = call.todo
    BY <1>1, <2>1 DEF Waits
  <2>3. result'.out \in {"ok", "refused", "not complete", "raised"}
    BY <2>1 DEF DevTypes
  <2> QED
    BY <1>1, <2>1, <2>2, <2>3, CallBooks
<1>5. CASE Goes(NextQueue) /\ UNCHANGED signalled
  <2>1. Goes(NextQueue) /\ signalled' \subseteq signalled
    BY <1>5
  <2> QED
    BY <1>1, <2>1, GoesBooks
<1> QED
  BY <1>2, <1>3, <1>4, <1>5

LEMMA PassBooks ==
    ASSUME DevTypes, BooksInv, PassAgain
    PROVE  DevTypes' /\ BooksInv'
<1>1. /\ Waiting /\ call \in Waits /\ UNCHANGED signalled
      /\ call' = [call EXCEPT !.todo = call.qs, !.inTime = Visible(call.c)]
      /\ UNCHANGED <<irq, flying, queue, state, at, device, outstanding, result, orderly, starts, calls>>
  BY WaitingFacts DEF PassAgain, Goes
<1> DEFINE b == Visible(call.c)
<1>2. b \in BOOLEAN /\ call' = [call EXCEPT !.todo = call.qs, !.inTime = b]
  <2>1. b \in BOOLEAN
    BY DEF Visible
  <2> QED
    BY <1>1, <2>1
<1> HIDE DEF b
<1>3. call' \in Waits /\ call'.c = call.c /\ call'.qs = call.qs /\ call'.todo = call.qs
  BY <1>1, <1>2 DEF Waits
<1>4. result'.out \in {"ok", "refused", "not complete", "raised"}
  BY <1>1 DEF DevTypes
<1>5. signalled' \subseteq signalled
  BY <1>1
<1> QED
  BY <1>1, <1>3, <1>4, <1>5, CallBooks
(* The second command of create_io_queue_pair.                              *)
LEMMA SecondCommand ==
    ASSUME DevTypes, BooksInv, PassReturns, Completed, call.c = CreateCq
    PROVE  /\ Submit(CreateSq, 0) /\ state[CreateSq] = "new" /\ state[CreateCq] = "complete"
           /\ call' \in Waits /\ call'.c = CreateSq /\ call'.qs = <<0>> /\ call'.todo = <<0>>
           /\ call'.iv = call.iv /\ call'.inTime = FALSE /\ call'.drain = FALSE
           /\ call'.others <=> Others(0)
           /\ UNCHANGED <<irq, signalled, flying, queue, result, orderly, starts, calls>>
<1>1. /\ Waiting /\ Submit(CreateSq, 0)
      /\ call' = Wait(call.fn, CreateSq, <<0>>, 1, call.iv)
      /\ UNCHANGED <<irq, signalled, flying, queue, result, orderly, starts, calls>>
  BY DEF PassReturns
<1>2. call.fn \in Waiters /\ call.iv \in Vectors
  BY <1>1, WaitingFacts DEF Waits
<1>3. CreateSq \in Objects /\ CreateSq # NoCmd /\ 0 \in Queues
  BY ConstantFacts
<1>4. <<0>> \in Seq(Queues) /\ Head(<<0>>) = 0
  BY <1>3
<1> DEFINE b == CreateSq # NoCmd /\ Others(Head(<<0>>))
<1>5. call' = [fn |-> call.fn, c |-> CreateSq, qs |-> <<0>>, todo |-> <<0>>, found |-> 0,
               max |-> 1, drain |-> FALSE, iv |-> call.iv, others |-> b, inTime |-> FALSE]
  BY <1>1 DEF Wait
<1>6. b \in BOOLEAN /\ (b <=> Others(0))
  BY <1>3, <1>4
<1> HIDE DEF b
<1>7. /\ call' \in Waits /\ call'.c = CreateSq /\ call'.qs = <<0>> /\ call'.todo = <<0>>
      /\ call'.iv = call.iv /\ call'.inTime = FALSE /\ call'.drain = FALSE
      /\ call'.others = b
  BY <1>2, <1>3, <1>4, <1>5, <1>6 DEF Waits
<1>8. state[CreateSq] = "new" /\ state[CreateCq] = "complete"
  BY <1>1, ConstantFacts DEF BooksInv, Completed
<1> QED
  BY <1>1, <1>6, <1>7, <1>8

LEMMA ReturnBooks ==
    ASSUME DevTypes, BooksInv, PassReturns
    PROVE  DevTypes' /\ BooksInv'
<1>1. Waiting /\ call \in Waits /\ UNCHANGED <<irq, signalled, flying, orderly, starts, calls>>
  BY WaitingFacts DEF PassReturns
<1>2. CASE ~Completed
  <2>1. EndCall("not complete") /\ UNCHANGED <<queue, state, at, device, outstanding>>
    BY <1>2 DEF PassReturns
  <2>2. call' = Idle /\ result'.out = "not complete" /\ signalled' \subseteq signalled
    BY <1>1, <2>1, EndFacts
  <2> QED
    BY <1>1, <2>1, <2>2, CallBooks
<1>3. CASE Completed /\ call.c = CreateCq
  <2>1. /\ Submit(CreateSq, 0) /\ state[CreateCq] = "complete"
        /\ call' \in Waits /\ call'.c = CreateSq /\ call'.qs = <<0>> /\ call'.todo = <<0>>
        /\ UNCHANGED <<irq, signalled, flying, queue, result, orderly, starts, calls>>
    BY <1>3, SecondCommand
  <2>2. CreateSq \in Objects /\ CreateCq \in Objects /\ CreateCq # CreateSq /\ CreateSq \notin Cmds /\ 0 \in Queues
    BY ConstantFacts
  <2>3. /\ state' \in [Objects -> {"new", "posted", "complete"}] /\ at' \in [Objects -> Queues]
        /\ device' \subseteq outstanding' /\ outstanding' \subseteq Objects
        /\ outstanding' = outstanding \union {CreateSq}
        /\ state'[CreateSq] = "posted" /\ at'[CreateSq] = 0
        /\ \A o \in Objects : o # CreateSq => state'[o] = state[o] /\ at'[o] = at[o]
    BY <2>1, <2>2, SubmitFacts
  <2>4. DevTypes'
    BY <2>1, <2>3 DEF DevTypes
  <2>5. ASSUME NEW o \in outstanding'
        PROVE  state'[o] = "posted" /\ queue'[at'[o]].there /\ (o \in Cmds => o <= starts')
    <3>1. CASE o = CreateSq
      BY <2>1, <2>2, <2>3, <3>1 DEF BooksInv
    <3>2. CASE o # CreateSq
      BY <2>1, <2>3, <2>5, <3>2 DEF BooksInv
    <3> QED
      BY <3>1, <3>2
  <2>6. Len(<<0>>) = 1 /\ <<0>>[1] = 0
    OBVIOUS
  <2>7. Waiting' => /\ call'.c = CreateCq => state'[CreateSq] = "new"
                    /\ \A i \in 1 .. Len(call'.qs) : queue'[call'.qs[i]].there
                    /\ \A i \in 1 .. Len(call'.todo) : queue'[call'.todo[i]].there
    BY <2>1, <2>2, <2>6 DEF BooksInv
  <2>8. state'[CreateCq] # "new"
    BY <2>1, <2>2, <2>3
  <2> QED
    BY <2>1, <2>4, <2>5, <2>7, <2>8 DEF BooksInv
<1>4. CASE Completed /\ call.c # CreateCq
  <2>1. /\ queue' = IF call.c = CreateSq
                    THEN [queue EXCEPT ![1] = NewPair(call.iv, IF irq.msix THEN call.iv ELSE 0)]
                    ELSE queue
        /\ EndCall("ok")
        /\ UNCHANGED <<state, at, device, outstanding>>
    BY <1>4 DEF PassReturns
  <2>2. call' = Idle /\ result'.out = "ok"
    BY <2>1, EndFacts
  <2>3. CASE call.c = CreateSq
    <3> DEFINE iv == IF irq.msix THEN call.iv ELSE 0
               pair == NewPair(call.iv, iv)
    <3>1. call.iv \in Vectors /\ iv \in Vectors
      BY <1>1, ConstantFacts DEF Waits
    <3>2. queue' = [queue EXCEPT ![1] = pair]
      BY <2>1, <2>3
    <3> HIDE DEF iv
    <3>3. pair \in Pairs /\ pair.there
      BY <3>1, PairFacts
    <3> HIDE DEF pair
    <3>4. /\ queue' \in [Queues -> Pairs] /\ queue'[0] = queue[0]
          /\ \A p \in Queues : queue[p].there => queue'[p].there
      <4>1. queue \in [Queues -> Pairs] /\ Queues = {0, 1}
        BY ConstantFacts DEF DevTypes
      <4> QED
        BY <3>2, <3>3, <4>1
    <3>5. DevTypes'
      BY <1>1, <2>1, <2>2, <3>4 DEF DevTypes
    <3>6. /\ queue'[0].there
          /\ \A o \in outstanding' : queue'[at'[o]].there
      BY <2>1, <3>4 DEF BooksInv, DevTypes
    <3> QED
      BY <1>1, <2>1, <2>2, <3>5, <3>6 DEF BooksInv, Waiting
  <2>4. CASE call.c # CreateSq
    <3>1. queue' = queue /\ signalled' \subseteq signalled
      BY <1>1, <2>1, <2>4
    <3> QED
      BY <1>1, <2>1, <2>2, <3>1, CallBooks
  <2> QED
    BY <2>3, <2>4
<1> QED
  BY <1>2, <1>3, <1>4

LEMMA DevBooks == DevTypes /\ BooksInv /\ AnsweredInv /\ DevNext => DevTypes' /\ BooksInv'
<1> SUFFICES ASSUME DevTypes, BooksInv, AnsweredInv, DevNext
             PROVE  DevTypes' /\ BooksInv'
  OBVIOUS
<1>1. CASE \E q \in Queues, fn \in {"start_cmd", "sync_cmd"} : Start(q, fn)
  BY <1>1, StartBooks
<1>2. CASE \E c \in Cmds : StartAgain(c)
  BY <1>2, AgainBooks
<1>3. CASE ProcessAll
  BY <1>3, GetCqsFacts, ProcessBooks DEF ProcessAll
<1>4. CASE \E q \in Queues : queue[q].there /\ Process(<<q>>, 1)
  <2>1. PICK q \in Queues : queue[q].there /\ Process(<<q>>, 1)
    BY <1>4
  <2> DEFINE qs == <<q>>
  <2>2. qs \in Seq(Queues) /\ \A i \in 1 .. Len(qs) : queue[qs[i]].there
    BY <2>1
  <2>3. Process(qs, 1)
    BY <2>1
  <2> HIDE DEF qs
  <2> QED
    BY <2>2, <2>3, ProcessBooks
<1>5. CASE \E num \in 1 .. Cardinality(Vectors), start \in {0, 1}, refused \in BOOLEAN : InitMsix(num, start, refused)
  BY <1>5, MsixBooks
<1>6. CASE \E iv \in Vectors : CreatePair(iv)
  BY <1>6, CreateBooks
<1>7. CASE Disable
  BY <1>7, DisableBooks
<1>8. CASE WaitStep
  BY <1>8, LookBooks, CountBooks, PassBooks, ReturnBooks DEF WaitStep
<1>9. CASE \E c \in Objects : DeviceAnswers(c)
  BY <1>9, AnswerBooks
<1>10. CASE \E v \in Vectors : Deliver(v)
  BY <1>10, DeliverBooks
<1> QED
  BY <1>1, <1>2, <1>3, <1>4, <1>5, <1>6, <1>7, <1>8, <1>9, <1>10 DEF DevNext, UserStep
-----------------------------------------------------------------------------
(* Completions and their commands.                                          *)
NoneEnters ==
    \A q \in Queues :
        \/ queue'[q].cqes = queue[q].cqes
        \/ queue[q].cqes # <<>> /\ queue'[q].cqes = Tail(queue[q].cqes)
        \/ queue'[q].cqes = <<>>

LEMMA EntriesOnlyLeave ==
    ASSUME queue \in [Queues -> Pairs], NoneEnters
    PROVE  \A c \in Objects : Entered(c)' => Entered(c)
<1> SUFFICES ASSUME NEW c \in Objects, NEW q \in Queues, NEW i \in 1 .. Len(queue'[q].cqes), queue'[q].cqes[i] = c
             PROVE  Entered(c)
  BY DEF Entered
<1>0. \/ queue'[q].cqes = queue[q].cqes
      \/ queue[q].cqes # <<>> /\ queue'[q].cqes = Tail(queue[q].cqes)
      \/ queue'[q].cqes = <<>>
  BY DEF NoneEnters
<1>1. queue[q].cqes \in Seq(Objects)
  BY DEF Pairs
<1>2. CASE queue'[q].cqes = queue[q].cqes
  BY <1>2 DEF Entered
<1>3. CASE queue[q].cqes # <<>> /\ queue'[q].cqes = Tail(queue[q].cqes)
  <2>1. /\ Len(queue[q].cqes) \in Nat /\ Len(Tail(queue[q].cqes)) = Len(queue[q].cqes) - 1
        /\ \A j \in 1 .. Len(Tail(queue[q].cqes)) : Tail(queue[q].cqes)[j] = queue[q].cqes[j + 1]
    BY <1>1, <1>3, HeadTailProperties
  <2>2. i \in 1 .. Len(Tail(queue[q].cqes)) /\ Tail(queue[q].cqes)[i] = c
    BY <1>3
  <2>3. i + 1 \in 1 .. Len(queue[q].cqes) /\ queue[q].cqes[i + 1] = c
    BY <2>1, <2>2
  <2> QED
    BY <2>3 DEF Entered
<1>4. CASE queue'[q].cqes = <<>>
  BY <1>4
<1> QED
  BY <1>0, <1>2, <1>3, <1>4

LEMMA AnsweredKept ==
    ASSUME DevTypes, AnsweredInv, \A c \in Objects : Entered(c)' => Entered(c),
           \A c \in Objects : Entered(c) /\ c \notin device => c \notin device',
           \A c \in Objects : Entered(c)' /\ state[c] # "new" => state'[c] # "new",
           starts' \in Nat, starts <= starts'
    PROVE  AnsweredInv'
<1> SUFFICES ASSUME NEW c \in Objects, Entered(c)'
             PROVE  c \notin device' /\ state'[c] # "new" /\ (c \in Cmds => c <= starts')
  BY DEF AnsweredInv
<1>1. Entered(c) /\ c \notin device /\ state[c] # "new" /\ (c \in Cmds => c <= starts)
  BY DEF AnsweredInv
<1>2. c \in Cmds => c <= starts'
  <2> SUFFICES ASSUME c \in Cmds PROVE c <= starts'
    OBVIOUS
  <2>1. c \in Nat
    BY BoundsAssumption DEF Cmds
  <2>2. starts \in Nat
    BY DEF DevTypes
  <2> QED
    BY <1>1, <2>1, <2>2
<1> QED
  BY <1>1, <1>2

(* A command that is submitted has no completion yet.                       *)
LEMMA NotEntered ==
    ASSUME DevTypes, AnsweredInv, NEW c \in Objects, state[c] = "new" \/ (c \in Cmds /\ c = starts + 1)
    PROVE  ~Entered(c)
<1>1. CASE state[c] = "new"
  BY <1>1 DEF AnsweredInv
<1>2. CASE c \in Cmds /\ c = starts + 1
  <2>0. starts \in Nat
    BY DEF DevTypes
  <2>1. ~(c <= starts)
    BY <1>2, <2>0
  <2> QED
    BY <1>2, <2>1 DEF AnsweredInv
<1> QED
  BY <1>1, <1>2

LEMMA SubmitAnswered ==
    ASSUME DevTypes, AnsweredInv, NEW c \in Objects, NEW q \in Queues, Submit(c, q),
           ~Entered(c), queue' = queue, starts' \in Nat, starts <= starts'
    PROVE  AnsweredInv'
<1>1. \A o \in Objects : Entered(o)' => Entered(o)
  BY DEF Entered
<1>2. /\ device' = device \union {c}
      /\ \A o \in Objects : o # c => state'[o] = state[o]
  BY SubmitFacts
<1>3. \A o \in Objects : Entered(o) => o # c
  OBVIOUS
<1>4. \A o \in Objects : Entered(o) /\ o \notin device => o \notin device'
  BY <1>2, <1>3
<1>5. \A o \in Objects : Entered(o)' /\ state[o] # "new" => state'[o] # "new"
  BY <1>1, <1>2, <1>3
<1> QED
  BY <1>1, <1>4, <1>5, AnsweredKept

LEMMA TakeAnswered ==
    ASSUME DevTypes, AnsweredInv, NEW q \in Queues, queue[q].cqes # <<>>, Take(q)
    PROVE  AnsweredInv'
<1> DEFINE c == Head(queue[q].cqes)
<1>0. /\ c \in Objects /\ UNCHANGED <<device, starts>>
      /\ \/ c \notin outstanding /\ UNCHANGED <<queue, state>>
         \/ state' = [state EXCEPT ![c] = "complete"] /\ UNCHANGED queue
         \/ /\ state' = [state EXCEPT ![c] = "complete"]
            /\ queue'[q].cqes = Tail(queue[q].cqes)
            /\ \A p \in Queues : p # q => queue'[p].cqes = queue[p].cqes
  BY TakeFacts
<1> HIDE DEF c
<1>1. /\ UNCHANGED <<device, starts>>
      /\ c \in Objects
      /\ state' = state \/ state' = [state EXCEPT ![c] = "complete"]
      /\ \A p \in Queues : queue'[p].cqes = queue[p].cqes \/ (p = q /\ queue'[q].cqes = Tail(queue[q].cqes))
  <2>1. CASE UNCHANGED <<queue, state>>
    BY <1>0, <2>1
  <2>2. CASE state' = [state EXCEPT ![c] = "complete"] /\ UNCHANGED queue
    BY <1>0, <2>2
  <2>3. CASE /\ state' = [state EXCEPT ![c] = "complete"]
             /\ queue'[q].cqes = Tail(queue[q].cqes)
             /\ \A p \in Queues : p # q => queue'[p].cqes = queue[p].cqes
    BY <1>0, <2>3
  <2> QED
    BY <1>0, <2>1, <2>2, <2>3
<1>2. NoneEnters
  BY <1>1 DEF NoneEnters
<1>3. queue \in [Queues -> Pairs] /\ starts' \in Nat /\ starts <= starts'
  <2>1. queue \in [Queues -> Pairs] /\ starts \in Nat
    BY DEF DevTypes
  <2> QED
    BY <1>1, <2>1
<1>4. \A o \in Objects : Entered(o)' => Entered(o)
  BY <1>2, <1>3, EntriesOnlyLeave
<1>5. \A o \in Objects : state[o] # "new" => state'[o] # "new"
  BY <1>1 DEF DevTypes
<1> QED
  BY <1>1, <1>3, <1>4, <1>5, AnsweredKept

LEMMA QuietAnswered ==
    ASSUME DevTypes, AnsweredInv, UNCHANGED <<queue, device, state, starts>>
    PROVE  AnsweredInv'
BY DEF AnsweredInv, Entered

LEMMA DevAnswered ==
    ASSUME DevTypes, BooksInv, AnsweredInv, DevNext, DevTypes'
    PROVE  AnsweredInv'
<1>0. starts \in Nat /\ starts' \in Nat
  BY DEF DevTypes
<1>1. CASE \E q \in Queues, fn \in {"start_cmd", "sync_cmd"} : Start(q, fn)
  <2>1. PICK q \in Queues, fn \in {"start_cmd", "sync_cmd"} : Start(q, fn)
    BY <1>1
  <2> DEFINE c == starts + 1
  <2>2. c \in Cmds /\ Submit(c, q) /\ queue' = queue /\ starts' = c
    BY <2>1 DEF Start
  <2>3. c = starts + 1 /\ starts <= starts'
    BY <1>0, <2>2
  <2> HIDE DEF c
  <2>4. c \in Objects /\ ~Entered(c)
    BY <2>2, <2>3, NotEntered, ConstantFacts
  <2> QED
    BY <1>0, <2>2, <2>3, <2>4, SubmitAnswered
<1>2. CASE \E c \in Cmds : StartAgain(c)
  BY <1>2, QuietAnswered DEF StartAgain, Refuse
<1>3. CASE ProcessAll \/ \E q \in Queues : queue[q].there /\ Process(<<q>>, 1)
  BY <1>3, QuietAnswered DEF Process, ProcessAll
<1>4. CASE \E num \in 1 .. Cardinality(Vectors), start \in {0, 1}, refused \in BOOLEAN : InitMsix(num, start, refused)
  BY <1>4, QuietAnswered DEF InitMsix
<1>5. CASE \E iv \in Vectors : CreatePair(iv)
  <2>1. PICK iv \in Vectors : CreatePair(iv)
    BY <1>5
  <2>2. state[CreateCq] = "new" /\ UNCHANGED <<queue, starts>> /\ (Submit(CreateCq, 0) \/ UNCHANGED <<device, state>>)
    BY <2>1 DEF CreatePair, Refuse
  <2>3. CASE Submit(CreateCq, 0)
    <3>1. CreateCq \in Objects /\ 0 \in Queues /\ ~Entered(CreateCq) /\ starts <= starts'
      BY <1>0, <2>2, NotEntered, ConstantFacts
    <3> QED
      BY <1>0, <2>2, <2>3, <3>1, SubmitAnswered
  <2> QED
    BY <2>2, <2>3, QuietAnswered
<1>6. CASE Disable
  <2>1. queue' = EnabledQueues
    BY <1>6 DEF Disable
  <2>2. \A q \in Queues : queue'[q].cqes = <<>>
    BY <2>1, EnabledFacts
  <2>3. \A c \in Objects : ~Entered(c)'
    BY <2>2 DEF Entered
  <2> QED
    BY <2>3 DEF AnsweredInv
<1>7. CASE Look \/ Drain
  <2>1. Waiting /\ call.todo # <<>> /\ Head(call.todo) \in Queues
    BY <1>7, WaitingFacts, CallFacts DEF Look, Drain
  <2>2. CASE queue[Head(call.todo)].cqes # <<>>
    <3> DEFINE q == Head(call.todo)
    <3>1. q \in Queues /\ queue[q].cqes # <<>> /\ Take(q)
      BY <1>7, <2>1, <2>2 DEF Look, Drain
    <3> HIDE DEF q
    <3> QED
      BY <3>1, TakeAnswered
  <2>3. CASE queue[Head(call.todo)].cqes = <<>>
    BY <1>7, <2>3, QuietAnswered DEF Look, Drain, Goes
  <2> QED
    BY <2>2, <2>3
<1>8. CASE ReadCount
  BY <1>8, QuietAnswered DEF ReadCount, Goes
<1>9. CASE PassAgain
  BY <1>9, QuietAnswered DEF PassAgain, Goes
<1>10. CASE PassReturns
  <2>1. CASE Completed /\ call.c = CreateCq
    <3>1. Submit(CreateSq, 0) /\ state[CreateSq] = "new" /\ queue' = queue /\ starts' = starts
      BY <1>10, <2>1, SecondCommand
    <3>2. CreateSq \in Objects /\ 0 \in Queues /\ ~Entered(CreateSq) /\ starts <= starts'
      BY <1>0, <3>1, NotEntered, ConstantFacts
    <3> QED
      BY <1>0, <3>1, <3>2, SubmitAnswered
  <2>2. CASE ~(Completed /\ call.c = CreateCq)
    <3>1. /\ UNCHANGED <<device, state, starts>>
          /\ \/ queue' = queue
             \/ call.c = CreateSq /\ queue' = [queue EXCEPT ![1] = NewPair(call.iv, IF irq.msix THEN call.iv ELSE 0)]
      BY <1>10, <2>2 DEF PassReturns
    <3>2. NoneEnters
      <4>1. queue \in [Queues -> Pairs] /\ 1 \in Queues
        BY ConstantFacts DEF DevTypes
      <4> QED
        <5>1. CASE queue' = queue
          BY <5>1 DEF NoneEnters
        <5>2. CASE queue' = [queue EXCEPT ![1] = NewPair(call.iv, IF irq.msix THEN call.iv ELSE 0)]
          <6>1. /\ queue'[1].cqes = <<>>
                /\ \A q \in Queues : q # 1 => queue'[q] = queue[q]
            BY <4>1, <5>2 DEF NewPair
          <6> QED
            BY <6>1 DEF NoneEnters
        <5> QED
          BY <3>1, <5>1, <5>2
    <3>3. queue \in [Queues -> Pairs] /\ starts <= starts'
      <4>1. queue \in [Queues -> Pairs]
        BY DEF DevTypes
      <4> QED
        BY <1>0, <3>1, <4>1
    <3>4. \A c \in Objects : Entered(c)' => Entered(c)
      BY <3>2, <3>3, EntriesOnlyLeave
    <3> QED
      BY <1>0, <3>1, <3>3, <3>4, AnsweredKept
  <2> QED
    BY <2>1, <2>2
<1>11. CASE \E c \in Objects : DeviceAnswers(c)
  <2>1. PICK c \in Objects : DeviceAnswers(c)
    BY <1>11
  <2>2. /\ c \in device /\ c \in outstanding /\ at[c] \in Queues
        /\ queue'[at[c]].cqes = Append(queue[at[c]].cqes, c)
        /\ \A p \in Queues : p # at[c] => queue'[p].cqes = queue[p].cqes
    BY <2>1, AnswerFacts
  <2>3. device' = device \ {c} /\ UNCHANGED <<state, starts>>
    BY <2>1 DEF DeviceAnswers
  <2>4. ASSUME NEW o \in Objects, Entered(o)', o # c
        PROVE  Entered(o)
    <3>1. PICK q \in Queues : \E i \in 1 .. Len(queue'[q].cqes) : queue'[q].cqes[i] = o
      BY <2>4 DEF Entered
    <3>2. CASE q = at[c]
      <4> DEFINE s == queue[q].cqes
      <4>1. s \in Seq(Objects) /\ queue'[q].cqes = Append(s, c)
        BY <2>2, <3>2 DEF DevTypes, Pairs
      <4>2. PICK i \in 1 .. Len(queue'[q].cqes) : queue'[q].cqes[i] = o
        BY <3>1
      <4>3. s = queue[q].cqes
        OBVIOUS
      <4> HIDE DEF s
      <4>4. i \in 1 .. Len(s) + 1 /\ Append(s, c)[i] = o
        BY <4>1, <4>2
      <4>5. i \in 1 .. Len(s) /\ s[i] = o
        BY <2>4, <4>1, <4>4
      <4> QED
        BY <4>3, <4>5 DEF Entered
    <3>3. CASE q # at[c]
      BY <2>2, <3>1, <3>3 DEF Entered
    <3> QED
      BY <3>2, <3>3
  <2>5. state[c] = "posted" /\ (c \in Cmds => c <= starts)
    BY <2>2 DEF BooksInv
  <2> QED
    BY <2>3, <2>4, <2>5 DEF AnsweredInv
<1>12. CASE \E v \in Vectors : Deliver(v)
  BY <1>12, QuietAnswered DEF Deliver
<1> QED
  BY <1>1, <1>2, <1>3, <1>4, <1>5, <1>6, <1>7, <1>8, <1>9, <1>10, <1>11, <1>12 DEF DevNext, UserStep, WaitStep
-----------------------------------------------------------------------------
(* Steps that leave completions, vectors or interrupts as they are.         *)
Patient == result.out # "raised" /\ (result.out = "not complete" => result.others \/ ~result.inTime)

SamePairs ==
    \A p \in Queues : queue'[p].there = queue[p].there /\ queue'[p].vec = queue[p].vec /\ queue'[p].iv = queue[p].iv

SameEntries == \A p \in Queues : queue'[p].cqes = queue[p].cqes \/ queue'[p].cqes = <<>>

LEMMA EntriesKept ==
    ASSUME DevTypes, EntriesInv, SameEntries,
           \A o \in outstanding \ device : o \in outstanding' \ device' /\ at'[o] = at[o],
           outstanding' \intersect Bulky = {}
    PROVE  EntriesInv'
<1>1. ASSUME NEW q \in Queues, NEW i \in 1 .. Len(queue'[q].cqes)
      PROVE  queue'[q].cqes = queue[q].cqes /\ i \in 1 .. Len(queue[q].cqes)
  <2>1. CASE queue'[q].cqes = <<>>
    BY <1>1, <2>1
  <2>2. CASE queue'[q].cqes = queue[q].cqes
    BY <1>1, <2>2
  <2> QED
    BY <2>1, <2>2 DEF SameEntries
<1>2. ASSUME NEW q \in Queues, NEW i \in 1 .. Len(queue'[q].cqes)
      PROVE  queue'[q].cqes[i] \in outstanding' \ device' /\ at'[queue'[q].cqes[i]] = q
  <2>1. queue'[q].cqes = queue[q].cqes /\ i \in 1 .. Len(queue[q].cqes)
    BY <1>1
  <2> QED
    BY <2>1 DEF EntriesInv
<1>3. ASSUME NEW q \in Queues, NEW i \in 1 .. Len(queue'[q].cqes), NEW j \in 1 .. Len(queue'[q].cqes),
             queue'[q].cqes[i] = queue'[q].cqes[j]
      PROVE  i = j
  <2>1. queue'[q].cqes = queue[q].cqes /\ i \in 1 .. Len(queue[q].cqes) /\ j \in 1 .. Len(queue[q].cqes)
    BY <1>1
  <2> QED
    BY <1>3, <2>1 DEF EntriesInv
<1> QED
  BY <1>2, <1>3 DEF EntriesInv

LEMMA VectorsKept ==
    ASSUME VectorsInv, SamePairs, irq' = irq,
           Waiting' /\ call'.c \in CreateCmds => Waiting /\ call.c \in CreateCmds /\ call'.iv = call.iv
    PROVE  VectorsInv'
BY ConstantFacts DEF VectorsInv, SamePairs

LEMMA SignalsKept ==
    ASSUME DevTypes, SignalsInv, SamePairs, SameEntries, irq'.msix = irq.msix,
           flying \subseteq flying', signalled \subseteq signalled',
           \A q \in Queues : Draining(q) => queue[q].cqes = <<>>
    PROVE  SignalsInv'
<1> SUFFICES ASSUME irq'.msix, NEW q \in Queues, queue'[q].there, queue'[q].cqes # <<>>
             PROVE  queue'[q].iv \in flying' \/ queue'[q].vec + 1 \in signalled'
  BY DEF SignalsInv
<1>1. queue'[q].cqes = queue[q].cqes /\ queue[q].cqes # <<>>
  BY DEF SameEntries
<1>2. queue[q].there /\ queue'[q].iv = queue[q].iv /\ queue'[q].vec = queue[q].vec
  BY DEF SamePairs
<1>3. queue[q].iv \in flying \/ queue[q].vec + 1 \in signalled
  BY <1>1, <1>2 DEF SignalsInv
<1> QED
  BY <1>2, <1>3

(* The call goes on as it was.                                              *)
LEMMA WaitsKept ==
    ASSUME DevTypes, WaitsInv, SamePairs, UNCHANGED <<call, at, state, outstanding, irq>>,
           \A q \in Queues : queue[q].cqes # <<>> => queue'[q].cqes # <<>>,
           signalled \subseteq signalled'
    PROVE  WaitsInv'
<1> SUFFICES ASSUME Waiting'
             PROVE  /\ call'.drain => irq'.msix /\ call'.todo # <<>>
                    /\ call'.c \in Objects =>
                         /\ call'.qs = <<at'[call'.c]>>
                         /\ call'.todo = <<>> \/ call'.todo = call'.qs
                         /\ ~call'.others => \A o \in outstanding' : at'[o] = at'[call'.c] => o = call'.c
                         /\ ~call'.others /\ call'.inTime =>
                              \/ state'[call'.c] = "complete"
                              \/ /\ call'.todo = call'.qs
                                 /\ queue'[at'[call'.c]].cqes # <<>>
                                 /\ irq'.msix => call'.drain \/ queue'[at'[call'.c]].vec + 1 \in signalled'
  BY DEF WaitsInv
<1>1. Waiting
  BY DEF Waiting
<1>2. ASSUME call.c \in Objects
      PROVE  /\ at[call.c] \in Queues /\ queue'[at[call.c]].vec = queue[at[call.c]].vec
             /\ queue[at[call.c]].cqes # <<>> => queue'[at[call.c]].cqes # <<>>
  BY <1>2 DEF DevTypes, SamePairs
<1> QED
  BY <1>1, <1>2 DEF WaitsInv

(* Between two calls there is nothing to keep.                              *)
LEMMA NoCallFacts ==
    ASSUME ~Waiting
    PROVE  \A q : ~Draining(q)
BY DEF Draining

LEMMA SameFacts ==
    ASSUME queue' = queue
    PROVE  SamePairs /\ SameEntries
BY DEF SamePairs, SameEntries

(* A call for one command that begins.                                      *)
LEMMA BeginsWaiting ==
    ASSUME DevTypes, NEW c \in Objects, NEW q \in Queues, Submit(c, q),
           call' \in Waits, call'.c = c, call'.qs = <<q>>, call'.todo = <<q>>,
           call'.others <=> Others(q), call'.inTime = FALSE, call'.drain = FALSE
    PROVE  WaitsInv'
<1>1. /\ outstanding' = outstanding \union {c} /\ at'[c] = q
      /\ \A o \in Objects : o # c => at'[o] = at[o]
  BY SubmitFacts
<1>2. ~call'.others => \A o \in outstanding' : at'[o] = q => o = c
  BY <1>1 DEF Others, DevTypes
<1> QED
  BY <1>1, <1>2 DEF WaitsInv
-----------------------------------------------------------------------------
(* Orderly use, one action at a time.                                       *)
LEMMA StartOrder ==
    ASSUME DevTypes, BooksInv, Order, NEW q \in Queues, NEW fn \in {"start_cmd", "sync_cmd"}, Start(q, fn),
           orderly'
    PROVE  Order' /\ Patient'
<1> DEFINE c == starts + 1
<1>1. /\ call = Idle /\ c \in Cmds
      /\ Submit(c, q)
      /\ call' = IF fn = "sync_cmd" THEN Wait(fn, c, <<q>>, 1, 0) ELSE Idle
      /\ orderly' = (orderly /\ c \notin Bulky) /\ result' = NoResult
      /\ UNCHANGED <<irq, signalled, flying, queue>>
  BY DEF Start, UserCalls
<1>2. c = starts + 1 /\ starts \in Nat
  BY DEF DevTypes
<1> HIDE DEF c
<1>3. c \in Objects /\ c # NoCmd /\ c \notin CreateCmds /\ ~(c <= starts) /\ c \notin Bulky
  <2>1. c \in Objects /\ c # NoCmd /\ c \notin CreateCmds
    BY <1>1, ConstantFacts
  <2>2. ~(c <= starts)
    BY <1>2
  <2> QED
    BY <1>1, <2>1, <2>2
<1>4. c \notin outstanding
  BY <1>1, <1>3 DEF BooksInv
<1>5. /\ outstanding' = outstanding \union {c} /\ device' = device \union {c}
      /\ \A o \in Objects : o # c => at'[o] = at[o]
  BY <1>1, <1>3, SubmitFacts
<1>6. ~Waiting /\ SamePairs /\ SameEntries
  BY <1>1, SameFacts DEF Waiting
<1>7. EntriesInv'
  <2>1. \A o \in outstanding \ device : o \in outstanding' \ device' /\ at'[o] = at[o]
    BY <1>4, <1>5 DEF DevTypes
  <2>2. outstanding' \intersect Bulky = {}
    BY <1>3, <1>5 DEF Order, EntriesInv
  <2> QED
    BY <1>6, <2>1, <2>2, EntriesKept DEF Order
<1>8. /\ SignalsInv'
  <2>1. flying \subseteq flying' /\ signalled \subseteq signalled' /\ irq'.msix = irq.msix
    BY <1>1
  <2> QED
    BY <1>6, <2>1, SignalsKept, NoCallFacts DEF Order
<1>9. CASE fn = "sync_cmd"
  <2> DEFINE b == c # NoCmd /\ Others(Head(<<q>>))
  <2>1. call' = [fn |-> fn, c |-> c, qs |-> <<q>>, todo |-> <<q>>, found |-> 0, max |-> 1, drain |-> FALSE,
                 iv |-> 0, others |-> b, inTime |-> FALSE]
    BY <1>1, <1>9 DEF Wait
  <2>2. <<q>> \in Seq(Queues) /\ Head(<<q>>) = q
    OBVIOUS
  <2>3. b \in BOOLEAN /\ (b <=> Others(q))
    BY <1>3, <2>2
  <2>4. fn \in Waiters /\ 0 \in Vectors
    BY <1>9, ConstantFacts DEF Waiters
  <2> HIDE DEF b
  <2>5. /\ call' \in Waits /\ call'.c = c /\ call'.qs = <<q>> /\ call'.todo = <<q>> /\ call'.others = b
        /\ call'.inTime = FALSE /\ call'.drain = FALSE
    BY <1>3, <2>1, <2>2, <2>3, <2>4 DEF Waits
  <2>6. WaitsInv'
    BY <1>1, <1>3, <2>3, <2>5, BeginsWaiting
  <2>7. VectorsInv'
    <3>1. irq' = irq /\ ~(call'.c \in CreateCmds)
      BY <1>1, <1>3, <2>5
    <3> QED
      BY <1>6, <3>1, VectorsKept DEF Order
  <2> QED
    BY <1>1, <1>7, <1>8, <2>6, <2>7 DEF Order, Patient, NoResult
<1>10. CASE fn # "sync_cmd"
  <2>1. ~Waiting' /\ irq' = irq
    BY <1>1, <1>10 DEF Waiting
  <2>2. WaitsInv'
    BY <2>1 DEF WaitsInv
  <2>3. VectorsInv'
    BY <1>6, <2>1, VectorsKept DEF Order
  <2> QED
    BY <1>1, <1>7, <1>8, <2>2, <2>3 DEF Order, Patient, NoResult
<1> QED
  BY <1>9, <1>10

LEMMA CreateOrder ==
    ASSUME DevTypes, BooksInv, Order, Patient, NEW iv \in Vectors, CreatePair(iv), orderly'
    PROVE  Order' /\ Patient'
<1>1. ~Waiting /\ ~queue[1].there /\ state[CreateCq] = "new" /\ call = Idle
  BY DEF CreatePair, UserCalls, Waiting
<1>2. CASE irq.msix /\ iv > irq.num
  <2>1. /\ result' = [NoResult EXCEPT !.out = "refused"]
        /\ UNCHANGED <<irq, signalled, flying, queue, state, at, device, outstanding, call>>
    BY <1>2 DEF CreatePair, Refuse
  <2>2. Patient'
    BY <2>1 DEF Patient, NoResult
  <2> QED
    BY <2>1, <2>2 DEF Order, EntriesInv, VectorsInv, SignalsInv, WaitsInv, Waiting, Draining
<1>3. CASE ~(irq.msix /\ iv > irq.num)
  <2>1. /\ Submit(CreateCq, 0)
        /\ call' = Wait("create_io_queue_pair", CreateCq, <<0>>, 1, iv)
        /\ orderly' = (orderly /\ (irq.msix => iv \in 1 .. irq.num - 1))
        /\ result' = NoResult
        /\ UNCHANGED <<irq, signalled, flying, queue>>
    BY <1>3 DEF CreatePair
  <2>2. /\ CreateCq \in Objects /\ CreateCq \in CreateCmds /\ CreateCq \notin Bulky /\ CreateCq # NoCmd
        /\ 0 \in Queues
    BY ConstantFacts
  <2>3. <<0>> \in Seq(Queues) /\ Head(<<0>>) = 0
    BY <2>2
  <2> DEFINE b == CreateCq # NoCmd /\ Others(Head(<<0>>))
  <2>4. call' = [fn |-> "create_io_queue_pair", c |-> CreateCq, qs |-> <<0>>, todo |-> <<0>>, found |-> 0,
                 max |-> 1, drain |-> FALSE, iv |-> iv, others |-> b, inTime |-> FALSE]
    BY <2>1 DEF Wait
  <2>5. b \in BOOLEAN /\ (b <=> Others(0))
    BY <2>2, <2>3
  <2> HIDE DEF b
  <2>6. "create_io_queue_pair" \in Waiters
    BY DEF Waiters
  <2>7. /\ call' \in Waits /\ call'.c = CreateCq /\ call'.qs = <<0>> /\ call'.todo = <<0>> /\ call'.iv = iv
        /\ call'.others = b /\ call'.inTime = FALSE /\ call'.drain = FALSE
    BY <2>2, <2>3, <2>4, <2>5, <2>6 DEF Waits
  <2>8. WaitsInv'
    BY <2>1, <2>2, <2>5, <2>7, BeginsWaiting
  <2>9. CreateCq \notin outstanding
    BY <1>1 DEF BooksInv
  <2>10. /\ outstanding' = outstanding \union {CreateCq} /\ device' = device \union {CreateCq}
         /\ \A o \in Objects : o # CreateCq => at'[o] = at[o]
    BY <2>1, <2>2, SubmitFacts
  <2>11. SamePairs /\ SameEntries
    BY <2>1, SameFacts
  <2>12. EntriesInv'
    <3>1. \A o \in outstanding \ device : o \in outstanding' \ device' /\ at'[o] = at[o]
      BY <2>9, <2>10 DEF DevTypes
    <3>2. outstanding' \intersect Bulky = {}
      BY <2>2, <2>10 DEF Order, EntriesInv
    <3> QED
      BY <2>11, <3>1, <3>2, EntriesKept DEF Order
  <2>13. SignalsInv'
    <3>1. flying \subseteq flying' /\ signalled \subseteq signalled' /\ irq'.msix = irq.msix
      BY <2>1
    <3> QED
      BY <1>1, <2>11, <3>1, SignalsKept, NoCallFacts DEF Order
  <2>14. VectorsInv'
    BY <1>1, <2>1, <2>7 DEF Order, VectorsInv
  <2>15. Patient'
    BY <2>1 DEF Patient, NoResult
  <2> QED
    BY <2>8, <2>12, <2>13, <2>14, <2>15 DEF Order
<1> QED
  BY <1>2, <1>3

LEMMA ProcessOrder ==
    ASSUME DevTypes, Order, NEW qs \in Seq(Queues), Process(qs, 1)
    PROVE  Order' /\ Patient'
<1>1. /\ call = Idle /\ call' = Wait("process_completions", NoCmd, qs, 1, 0) /\ result' = NoResult
      /\ UNCHANGED <<irq, signalled, flying, queue, state, at, device, outstanding>>
  BY DEF Process, UserCalls
<1> DEFINE b == NoCmd # NoCmd /\ Others(Head(qs))
<1>2. call' = [fn |-> "process_completions", c |-> NoCmd, qs |-> qs, todo |-> qs, found |-> 0, max |-> 1,
               drain |-> FALSE, iv |-> 0, others |-> b, inTime |-> FALSE]
  BY <1>1 DEF Wait
<1> HIDE DEF b
<1>3. call'.c = NoCmd /\ call'.drain = FALSE
  BY <1>2
<1>4. NoCmd \notin Objects /\ NoCmd \notin CreateCmds
  BY ConstantFacts
<1>5. WaitsInv'
  BY <1>3, <1>4 DEF WaitsInv
<1>6. ~Waiting /\ SamePairs /\ SameEntries
  BY <1>1, SameFacts DEF Waiting
<1>7. VectorsInv'
  <2>1. irq' = irq /\ ~(call'.c \in CreateCmds)
    BY <1>1, <1>3, <1>4
  <2> QED
    BY <1>6, <2>1, VectorsKept DEF Order
<1>8. SignalsInv'
  <2>1. flying \subseteq flying' /\ signalled \subseteq signalled' /\ irq'.msix = irq.msix
    BY <1>1
  <2> QED
    BY <1>6, <2>1, SignalsKept, NoCallFacts DEF Order
<1>9. EntriesInv'
  BY <1>1 DEF Order, EntriesInv
<1> QED
  BY <1>1, <1>5, <1>7, <1>8, <1>9 DEF Order, Patient, NoResult

(* Set up once, and before everything else.                                 *)
LEMMA MsixOrder ==
    ASSUME DevTypes, Order, Patient, NEW num \in 1 .. Cardinality(Vectors), NEW start \in {0, 1},
           NEW refused \in BOOLEAN, InitMsix(num, start, refused), orderly'
    PROVE  Order' /\ Patient'
<1>1. /\ call = Idle /\ (refused => irq.msix)
      /\ irq' = [msix |-> TRUE, num |-> start + num, fds |-> irq.fds + num,
                 trigger |-> [v \in Vectors |->
                     IF ~refused /\ v \in start .. start + num - 1 THEN irq.fds + v - start + 1
                     ELSE irq.trigger[v]]]
      /\ orderly' = (orderly /\ ~irq.msix /\ start = 0 /\ outstanding = {} /\ ~queue[1].there)
      /\ UNCHANGED <<signalled, flying, queue, state, at, device, outstanding, call, result>>
  BY DEF InitMsix, UserCalls
<1>2. /\ ~irq.msix /\ start = 0 /\ outstanding = {} /\ ~queue[1].there /\ ~refused /\ irq.fds = 0
      /\ num \in Nat /\ num > 0 /\ Vectors \subseteq Nat
  <2>1. ~irq.msix /\ start = 0 /\ outstanding = {} /\ ~queue[1].there /\ ~refused
    BY <1>1
  <2>2. irq.fds = 0
    BY <2>1 DEF Order, VectorsInv
  <2>3. Cardinality(Vectors) \in Nat /\ Vectors \subseteq Nat
    BY ConstantFacts
  <2> QED
    BY <2>1, <2>2, <2>3
<1>3. ~Waiting /\ ~Waiting'
  BY <1>1 DEF Waiting
<1>4. VectorsInv'
  <2>1. irq'.msix /\ irq'.fds = num /\ irq'.num = num
    BY <1>1, <1>2
  <2>2. ASSUME NEW v \in Vectors, v < num
        PROVE  irq'.trigger[v] = v + 1
    <3>1. v \in Nat /\ v \in start .. start + num - 1
      BY <1>2, <2>2
    <3>2. irq'.trigger[v] = irq.fds + v - start + 1
      BY <1>1, <1>2, <3>1
    <3> QED
      BY <1>2, <3>1, <3>2
  <2>3. queue' = queue /\ ~queue'[1].there /\ queue[0].vec = 0 /\ queue[0].iv = 0
    BY <1>1, <1>2 DEF Order, VectorsInv
  <2> QED
    BY <1>2, <1>3, <2>1, <2>2, <2>3 DEF VectorsInv
<1>5. EntriesInv'
  BY <1>1 DEF Order, EntriesInv
<1>6. SignalsInv'
  <2>1. \A q \in Queues : queue[q].cqes = <<>>
    <3> SUFFICES ASSUME NEW q \in Queues, queue[q].cqes # <<>> PROVE FALSE
      OBVIOUS
    <3>1. queue[q].cqes \in Seq(Objects)
      BY DEF DevTypes, Pairs
    <3>2. 1 \in 1 .. Len(queue[q].cqes)
      BY <3>1, EmptySeq
    <3> QED
      BY <1>2, <3>2 DEF Order, EntriesInv
  <2> QED
    BY <1>1, <2>1 DEF SignalsInv
<1>7. WaitsInv'
  BY <1>3 DEF WaitsInv
<1> QED
  BY <1>1, <1>4, <1>5, <1>6, <1>7 DEF Order, Patient

LEMMA DisableOrder ==
    ASSUME DevTypes, Order, Patient, Disable
    PROVE  Order' /\ Patient'
<1>1. /\ call = Idle /\ queue' = EnabledQueues /\ device' = {} /\ outstanding' = {}
      /\ UNCHANGED <<irq, signalled, flying, at, call, result>>
  BY DEF Disable, UserCalls
<1>2. ~Waiting'
  BY <1>1 DEF Waiting
<1>3. /\ queue'[0].vec = 0 /\ queue'[0].iv = 0 /\ ~queue'[1].there
      /\ \A q \in Queues : queue'[q].cqes = <<>>
  BY <1>1, EnabledFacts
<1>4. EntriesInv'
  BY <1>1, <1>3 DEF EntriesInv
<1>5. SignalsInv' /\ WaitsInv'
  BY <1>2, <1>3 DEF SignalsInv, WaitsInv
<1>6. VectorsInv'
  BY <1>1, <1>2, <1>3 DEF Order, VectorsInv
<1> QED
  BY <1>1, <1>4, <1>5, <1>6 DEF Order, Patient

LEMMA AgainOrder ==
    ASSUME Order, NEW c \in Cmds, StartAgain(c)
    PROVE  Order' /\ Patient'
<1>1. /\ result' = [NoResult EXCEPT !.out = "refused"]
      /\ UNCHANGED <<irq, signalled, flying, queue, state, at, device, outstanding, call>>
  BY DEF StartAgain, Refuse
<1>2. Patient'
  BY <1>1 DEF Patient, NoResult
<1> QED
  BY <1>1, <1>2 DEF Order, EntriesInv, VectorsInv, SignalsInv, WaitsInv, Waiting, Draining

(* The device's answer comes with its interrupt.                            *)
LEMMA AnswerOrder ==
    ASSUME DevTypes, Order, Patient, NEW c \in Objects, DeviceAnswers(c)
    PROVE  Order' /\ Patient'
<1> DEFINE q == at[c]
           old == queue[q].cqes
<1>1. /\ c \in device /\ c \in outstanding /\ q \in Queues
      /\ queue' \in [Queues -> Pairs]
      /\ queue'[q].cqes = Append(old, c)
      /\ \A p \in Queues : queue'[p].there = queue[p].there /\ queue'[p].vec = queue[p].vec /\ queue'[p].iv = queue[p].iv
      /\ \A p \in Queues : p # q => queue'[p].cqes = queue[p].cqes
  BY AnswerFacts
<1>2. /\ device' = device \ {c}
      /\ flying' = IF irq.msix THEN flying \union {queue[q].iv} ELSE flying
      /\ UNCHANGED <<irq, signalled, state, at, outstanding, call, result>>
  BY DEF DeviceAnswers
<1>3. old \in Seq(Objects) /\ old = queue[q].cqes /\ q = at[c]
  BY <1>1 DEF DevTypes, Pairs
<1> HIDE DEF q, old
<1>4. SamePairs
  BY <1>1 DEF SamePairs
<1>5. ASSUME NEW p \in Queues, NEW i \in 1 .. Len(queue'[p].cqes)
      PROVE  \/ p = q /\ i = Len(old) + 1 /\ queue'[p].cqes[i] = c
             \/ i \in 1 .. Len(queue[p].cqes) /\ queue'[p].cqes[i] = queue[p].cqes[i]
  <2>1. CASE p = q
    <3> DEFINE new == Append(old, c)
    <3>1. /\ Len(new) = Len(old) + 1 /\ new[Len(old) + 1] = c /\ Len(old) \in Nat
          /\ \A j \in 1 .. Len(old) : new[j] = old[j]
      BY <1>3, AppendProperties
    <3>2. queue'[p].cqes = new
      BY <1>1, <2>1
    <3> HIDE DEF new
    <3>3. i \in 1 .. Len(old) + 1
      BY <1>5, <3>1, <3>2
    <3>4. CASE i = Len(old) + 1
      BY <2>1, <3>1, <3>2, <3>4
    <3>5. CASE i # Len(old) + 1
      <4>1. i \in 1 .. Len(old)
        BY <3>1, <3>3, <3>5
      <4> QED
        BY <1>3, <2>1, <3>1, <3>2, <4>1
    <3> QED
      BY <3>4, <3>5
  <2>2. CASE p # q
    BY <1>1, <1>5, <2>2
  <2> QED
    BY <2>1, <2>2
<1>6. \A p \in Queues : \A i \in 1 .. Len(queue[p].cqes) : queue[p].cqes[i] \in outstanding \ device /\ at[queue[p].cqes[i]] = p
  BY DEF Order, EntriesInv
<1>7. EntriesInv'
  <2>1. ASSUME NEW p \in Queues, NEW i \in 1 .. Len(queue'[p].cqes)
        PROVE  queue'[p].cqes[i] \in outstanding' \ device' /\ at'[queue'[p].cqes[i]] = p
    <3>1. outstanding' = outstanding /\ device' = device \ {c} /\ at' = at
      BY <1>2
    <3>2. CASE p = q /\ queue'[p].cqes[i] = c
      <4>1. c \in outstanding /\ c \notin device' /\ at[c] = p
        BY <1>1, <1>3, <3>1, <3>2
      <4> QED
        BY <3>1, <3>2, <4>1
    <3>3. CASE i \in 1 .. Len(queue[p].cqes) /\ queue'[p].cqes[i] = queue[p].cqes[i]
      <4>1. queue[p].cqes[i] \in outstanding \ device /\ at[queue[p].cqes[i]] = p
        BY <1>6, <3>3
      <4> QED
        BY <3>1, <3>3, <4>1
    <3> QED
      BY <1>5, <3>2, <3>3
  <2>2. ASSUME NEW p \in Queues, NEW i \in 1 .. Len(queue'[p].cqes), NEW j \in 1 .. Len(queue'[p].cqes),
               queue'[p].cqes[i] = queue'[p].cqes[j]
        PROVE  i = j
    <3>1. CASE i \in 1 .. Len(queue[p].cqes) /\ j \in 1 .. Len(queue[p].cqes)
               /\ queue'[p].cqes[i] = queue[p].cqes[i] /\ queue'[p].cqes[j] = queue[p].cqes[j]
      BY <2>2, <3>1 DEF Order, EntriesInv
    <3>2. CASE p = q /\ i = Len(old) + 1 /\ j = Len(old) + 1
      BY <3>2
    <3>3. CASE queue'[p].cqes[i] = c /\ j \in 1 .. Len(queue[p].cqes) /\ queue'[p].cqes[j] = queue[p].cqes[j]
      <4>1. queue[p].cqes[j] = c
        BY <2>2, <3>3
      <4>2. queue[p].cqes[j] \notin device
        BY <1>6, <3>3
      <4> QED
        BY <1>1, <4>1, <4>2
    <3>4. CASE queue'[p].cqes[j] = c /\ i \in 1 .. Len(queue[p].cqes) /\ queue'[p].cqes[i] = queue[p].cqes[i]
      BY <1>1, <1>6, <2>2, <3>4
    <3> QED
      BY <1>5, <3>1, <3>2, <3>3, <3>4
  <2>3. outstanding' \intersect Bulky = {}
    BY <1>2 DEF Order, EntriesInv
  <2> QED
    BY <2>1, <2>2, <2>3 DEF EntriesInv
<1>8. VectorsInv'
  <2>1. irq' = irq /\ (Waiting' /\ call'.c \in CreateCmds => Waiting /\ call.c \in CreateCmds /\ call'.iv = call.iv)
    BY <1>2 DEF Waiting
  <2> QED
    BY <1>4, <2>1, VectorsKept DEF Order
<1>9. SignalsInv'
  <2> SUFFICES ASSUME irq'.msix, NEW p \in Queues, queue'[p].there, queue'[p].cqes # <<>>
               PROVE  queue'[p].iv \in flying' \/ queue'[p].vec + 1 \in signalled' \/ Draining(p)'
    BY DEF SignalsInv
  <2>1. CASE p = q
    BY <1>1, <1>2, <2>1
  <2>2. CASE p # q
    <3>1. queue[p].there /\ queue[p].cqes # <<>> /\ irq.msix
      BY <1>1, <1>2, <2>2
    <3>2. queue[p].iv \in flying \/ queue[p].vec + 1 \in signalled \/ Draining(p)
      BY <3>1 DEF Order, SignalsInv
    <3>3. Draining(p)' <=> Draining(p)
      BY <1>2 DEF Draining, Waiting
    <3> QED
      BY <1>1, <1>2, <3>2, <3>3
  <2> QED
    BY <2>1, <2>2
<1>10. WaitsInv'
  <2>1. \A p \in Queues : queue[p].cqes # <<>> => queue'[p].cqes # <<>>
    <3>1. Append(old, c) # <<>>
      BY <1>3, AppendProperties
    <3> QED
      BY <1>1, <3>1
  <2>2. signalled \subseteq signalled' /\ UNCHANGED <<call, at, state, outstanding, irq>>
    BY <1>2
  <2> QED
    BY <1>4, <2>1, <2>2, WaitsKept DEF Order
<1> QED
  BY <1>2, <1>7, <1>8, <1>9, <1>10 DEF Order, Patient

(* An interrupt arrives at the descriptor the driver reads.                 *)
LEMMA DeliverOrder ==
    ASSUME DevTypes, Order, Patient, NEW v \in Vectors, Deliver(v)
    PROVE  Order' /\ Patient'
<1>1. /\ flying' = flying \ {v}
      /\ signalled' = IF irq.trigger[v] = 0 THEN signalled ELSE signalled \union {irq.trigger[v]}
      /\ UNCHANGED <<irq, queue, state, at, device, outstanding, call, result>>
  BY DEF Deliver
<1>2. SamePairs /\ SameEntries /\ signalled \subseteq signalled'
  BY <1>1, SameFacts
<1>3. EntriesInv' /\ VectorsInv'
  BY <1>1 DEF Order, EntriesInv, VectorsInv, Waiting
<1>4. SignalsInv'
  <2> SUFFICES ASSUME irq'.msix, NEW p \in Queues, queue'[p].there, queue'[p].cqes # <<>>
               PROVE  queue'[p].iv \in flying' \/ queue'[p].vec + 1 \in signalled' \/ Draining(p)'
    BY DEF SignalsInv
  <2>1. irq.msix /\ queue[p].there /\ queue[p].cqes # <<>> /\ queue' = queue
    BY <1>1
  <2>2. queue[p].iv \in flying \/ queue[p].vec + 1 \in signalled \/ Draining(p)
    BY <2>1 DEF Order, SignalsInv
  <2>3. Draining(p)' <=> Draining(p)
    BY <1>1 DEF Draining, Waiting
  <2>4. CASE queue[p].iv = v
    <3>1. p = 0 \/ p = 1
      BY ConstantFacts
    <3>2. queue[p].vec = queue[p].iv /\ v < irq.num
      <4>1. CASE p = 0
        <5>1. queue[0].vec = 0 /\ queue[0].iv = 0 /\ irq.num > 0 /\ irq.num \in Nat
          BY <2>1 DEF Order, VectorsInv, DevTypes
        <5> QED
          BY <2>4, <4>1, <5>1
      <4>2. CASE p = 1
        <5>1. queue[1].vec \in 1 .. irq.num - 1 /\ queue[1].iv = queue[1].vec /\ irq.num \in Nat
          BY <2>1, <4>2 DEF Order, VectorsInv, DevTypes
        <5> QED
          BY <2>4, <4>2, <5>1
      <4> QED
        BY <3>1, <4>1, <4>2
    <3>3. irq.trigger[v] = v + 1 /\ v \in Nat
      BY <2>1, <3>2, ConstantFacts DEF Order, VectorsInv
    <3>4. irq.trigger[v] # 0 /\ irq.trigger[v] = queue[p].vec + 1
      BY <2>4, <3>2, <3>3
    <3> QED
      BY <1>1, <3>4
  <2>5. CASE queue[p].iv # v
    BY <1>1, <1>2, <2>2, <2>3, <2>5
  <2> QED
    BY <2>4, <2>5
<1>5. WaitsInv'
  <2>1. UNCHANGED <<call, at, state, outstanding, irq>> /\ \A p \in Queues : queue[p].cqes # <<>> => queue'[p].cqes # <<>>
    BY <1>1
  <2> QED
    BY <1>2, <2>1, WaitsKept DEF Order
<1> QED
  BY <1>1, <1>3, <1>4, <1>5 DEF Order, Patient

(* A step of a call that touches nothing but the call, and perhaps a count. *)
LEMMA SameBooks ==
    ASSUME Order, UNCHANGED <<irq, queue, state, at, device, outstanding>>,
           Waiting', Waiting, call'.c = call.c, call'.iv = call.iv
    PROVE  EntriesInv' /\ VectorsInv'
BY DEF Order, EntriesInv, VectorsInv

(* Nothing is left in the queue the call looked at: on to the next.         *)
LEMMA NextOrder ==
    ASSUME DevTypes, BooksInv, Order, Patient, Waiting, call.todo # <<>>, Goes(NextQueue), signalled' = signalled,
           \/ queue[Head(call.todo)].cqes = <<>>
           \/ ~call.drain /\ irq.msix /\ queue[Head(call.todo)].vec + 1 \notin signalled
    PROVE  Order' /\ Patient'
<1> DEFINE q == Head(call.todo)
<1>1. /\ call' = NextQueue
      /\ UNCHANGED <<irq, flying, queue, state, at, device, outstanding, result>>
  BY DEF Goes
<1>2. /\ q \in Queues /\ q = call.todo[1] /\ call \in Waits /\ NextQueue \in Waits
      /\ NextQueue.todo = Tail(call.todo) /\ NextQueue.drain = FALSE
      /\ NextQueue.c = call.c /\ NextQueue.qs = call.qs /\ NextQueue.iv = call.iv
      /\ NextQueue.others = call.others /\ NextQueue.inTime = call.inTime
  BY WaitingFacts, CallFacts
<1>3. SamePairs /\ SameEntries
  BY <1>1, SameFacts
<1>4. Waiting'
  BY <1>1, <1>2, WaitingFacts DEF Waiting
<1>5. EntriesInv' /\ VectorsInv'
  BY <1>1, <1>2, <1>4, SameBooks
<1>6. SignalsInv'
  <2>1. CASE queue[q].cqes = <<>>
    <3>1. \A p \in Queues : Draining(p) => queue[p].cqes = <<>>
      BY <2>1 DEF Draining
    <3>2. flying \subseteq flying' /\ signalled \subseteq signalled' /\ irq'.msix = irq.msix
      BY <1>1
    <3> QED
      BY <1>3, <3>1, <3>2, SignalsKept DEF Order
  <2>2. CASE ~call.drain
    <3>1. \A p \in Queues : Draining(p) => queue[p].cqes = <<>>
      BY <2>2 DEF Draining
    <3>2. flying \subseteq flying' /\ signalled \subseteq signalled' /\ irq'.msix = irq.msix
      BY <1>1
    <3> QED
      BY <1>3, <3>1, <3>2, SignalsKept DEF Order
  <2> QED
    BY <2>1, <2>2
<1>7. WaitsInv'
  <2>1. ASSUME call.c \in Objects
        PROVE  /\ call.qs = <<at[call.c]>> /\ call.todo = <<at[call.c]>>
               /\ q = at[call.c] /\ Tail(call.todo) = <<>>
               /\ ~call.others => \A o \in outstanding : at[o] = at[call.c] => o = call.c
               /\ ~call.others /\ call.inTime =>
                    \/ state[call.c] = "complete"
                    \/ /\ queue[at[call.c]].cqes # <<>>
                       /\ irq.msix => call.drain \/ queue[at[call.c]].vec + 1 \in signalled
    <3>1. call.qs = <<at[call.c]>> /\ call.todo = <<at[call.c]>>
      BY <2>1 DEF Order, WaitsInv
    <3>2. at[call.c] \in Queues
      BY <2>1 DEF DevTypes
    <3>3. q = at[call.c] /\ Tail(call.todo) = <<>>
      BY <3>1, <3>2
    <3> QED
      BY <2>1, <3>1, <3>3 DEF Order, WaitsInv
  <2>2. ASSUME call.c \in Objects, ~call.others, call.inTime
        PROVE  state[call.c] = "complete"
    BY <2>1, <2>2
  <2>3. call'.c = call.c /\ call'.qs = call.qs /\ call'.todo = Tail(call.todo) /\ call'.drain = FALSE
        /\ call'.others = call.others /\ call'.inTime = call.inTime
    BY <1>1, <1>2
  <2> QED
    BY <1>1, <2>1, <2>2, <2>3 DEF WaitsInv
<1> QED
  BY <1>1, <1>5, <1>6, <1>7 DEF Order, Patient

(* The completion at the head of a queue is that of an outstanding command  *)
(* of this queue, the only one where there were no others.                  *)
LEMMA TakeOrder ==
    ASSUME DevTypes, BooksInv, Order, Patient, Waiting, call.todo # <<>>,
           queue[Head(call.todo)].cqes # <<>>, Take(Head(call.todo)), irq.msix => call.drain
    PROVE  Order' /\ Patient'
<1> DEFINE q == Head(call.todo)
           c == Head(queue[q].cqes)
<1>1. /\ q \in Queues /\ q = call.todo[1] /\ call \in Waits /\ AfterTake \in Waits
      /\ AfterTake.todo = (IF irq.msix THEN call.todo ELSE Tail(call.todo))
      /\ AfterTake.c = call.c /\ AfterTake.qs = call.qs /\ AfterTake.iv = call.iv
      /\ AfterTake.drain = call.drain
      /\ AfterTake.others = call.others /\ AfterTake.inTime = call.inTime
  BY WaitingFacts, CallFacts
<1>2. queue[q].cqes \in Seq(Objects) /\ c = queue[q].cqes[1] /\ 1 \in 1 .. Len(queue[q].cqes)
  <2>1. queue[q].cqes \in Seq(Objects) /\ queue[q].cqes # <<>>
    BY <1>1 DEF DevTypes, Pairs
  <2> QED
    BY <2>1, EmptySeq
<1>3. c \in outstanding \ device /\ at[c] = q /\ c \notin Bulky /\ c \in Objects
  <2>1. queue[q].cqes[1] \in outstanding \ device /\ at[queue[q].cqes[1]] = q
    BY <1>1, <1>2 DEF Order, EntriesInv
  <2> HIDE DEF q, c
  <2>2. c \in outstanding \ device /\ at[c] = q
    BY <1>2, <2>1
  <2> QED
    BY <2>2 DEF Order, EntriesInv, DevTypes
<1>4. /\ UNCHANGED <<irq, signalled, flying, at, device>>
      /\ state' = [state EXCEPT ![c] = "complete"] /\ outstanding' = outstanding \ {c}
      /\ queue' \in [Queues -> Pairs]
      /\ queue'[q].cqes = Tail(queue[q].cqes)
      /\ \A p \in Queues : queue'[p].there = queue[p].there /\ queue'[p].vec = queue[p].vec /\ queue'[p].iv = queue[p].iv
      /\ \A p \in Queues : p # q => queue'[p].cqes = queue[p].cqes
      /\ call' = AfterTake /\ UNCHANGED result
  BY <1>1, <1>3, TakeFacts
<1>5. q = Head(call.todo)
  OBVIOUS
<1> HIDE DEF q, c
<1>6. /\ Len(queue[q].cqes) \in Nat /\ Len(Tail(queue[q].cqes)) = Len(queue[q].cqes) - 1
      /\ \A i \in 1 .. Len(Tail(queue[q].cqes)) : Tail(queue[q].cqes)[i] = queue[q].cqes[i + 1]
  BY <1>2, EmptySeq, HeadTailProperties
<1>7. SamePairs
  BY <1>4 DEF SamePairs
<1>8. Waiting'
  BY <1>1, <1>4, WaitingFacts DEF Waiting
<1>9. EntriesInv'
  <2>1. \A p \in Queues : \A i \in 1 .. Len(queue[p].cqes) : queue[p].cqes[i] \in outstanding \ device /\ at[queue[p].cqes[i]] = p
    BY DEF Order, EntriesInv
  <2>2. \A p \in Queues : \A i, j \in 1 .. Len(queue[p].cqes) : queue[p].cqes[i] = queue[p].cqes[j] => i = j
    BY DEF Order, EntriesInv
  <2>3. ASSUME NEW i \in 1 .. Len(queue'[q].cqes)
        PROVE  /\ i + 1 \in 1 .. Len(queue[q].cqes) /\ queue'[q].cqes[i] = queue[q].cqes[i + 1]
               /\ queue'[q].cqes[i] # c
    <3>1. i + 1 \in 1 .. Len(queue[q].cqes) /\ queue'[q].cqes[i] = queue[q].cqes[i + 1] /\ i + 1 # 1
      BY <1>4, <1>6, <2>3
    <3> QED
      BY <1>1, <1>2, <2>2, <3>1
  <2>4. ASSUME NEW p \in Queues, NEW i \in 1 .. Len(queue'[p].cqes)
        PROVE  queue'[p].cqes[i] \in outstanding' \ device' /\ at'[queue'[p].cqes[i]] = p
    <3>1. CASE p = q
      <4>1. i + 1 \in 1 .. Len(queue[q].cqes) /\ queue'[q].cqes[i] = queue[q].cqes[i + 1] /\ queue'[q].cqes[i] # c
        BY <2>3, <2>4, <3>1
      <4> QED
        <5>1. /\ queue[q].cqes[i + 1] \in outstanding \ device /\ at[queue[q].cqes[i + 1]] = q
              /\ queue[q].cqes[i + 1] # c
          BY <1>1, <2>1, <4>1
        <5>2. queue[q].cqes[i + 1] \in outstanding' \ device' /\ at'[queue[q].cqes[i + 1]] = q
          BY <1>4, <5>1
        <5> QED
          BY <3>1, <4>1, <5>2
    <3>2. CASE p # q
      <4>1. queue'[p].cqes = queue[p].cqes /\ i \in 1 .. Len(queue[p].cqes)
        BY <1>4, <2>4, <3>2
      <4>2. queue[p].cqes[i] # c
        BY <1>3, <2>1, <3>2, <4>1
      <4> QED
        BY <1>4, <2>1, <4>1, <4>2
    <3> QED
      BY <3>1, <3>2
  <2>5. ASSUME NEW p \in Queues, NEW i \in 1 .. Len(queue'[p].cqes), NEW j \in 1 .. Len(queue'[p].cqes),
               queue'[p].cqes[i] = queue'[p].cqes[j]
        PROVE  i = j
    <3>1. CASE p = q
      <4>1. /\ i + 1 \in 1 .. Len(queue[q].cqes) /\ queue'[q].cqes[i] = queue[q].cqes[i + 1]
            /\ j + 1 \in 1 .. Len(queue[q].cqes) /\ queue'[q].cqes[j] = queue[q].cqes[j + 1]
        BY <2>3, <2>5, <3>1
      <4>2. i + 1 = j + 1
        BY <1>1, <2>2, <2>5, <3>1, <4>1
      <4>3. i \in Int /\ j \in Int
        OBVIOUS
      <4> QED
        BY <4>2, <4>3
    <3>2. CASE p # q
      <4>1. queue'[p].cqes = queue[p].cqes
        BY <1>4, <3>2
      <4> QED
        BY <2>2, <2>5, <4>1
    <3> QED
      BY <3>1, <3>2
  <2>6. outstanding' \intersect Bulky = {}
    BY <1>4 DEF Order, EntriesInv
  <2> QED
    BY <2>4, <2>5, <2>6 DEF EntriesInv
<1>10. VectorsInv'
  <2>1. call'.c = call.c /\ call'.iv = call.iv /\ irq' = irq
    BY <1>1, <1>4
  <2> QED
    BY <1>7, <2>1, VectorsKept DEF Order
<1>11. SignalsInv'
  <2> SUFFICES ASSUME irq'.msix, NEW p \in Queues, queue'[p].there, queue'[p].cqes # <<>>
               PROVE  queue'[p].iv \in flying' \/ queue'[p].vec + 1 \in signalled' \/ Draining(p)'
    BY DEF SignalsInv
  <2>1. irq.msix /\ call.drain /\ call'.drain /\ call'.todo = call.todo
    BY <1>1, <1>4
  <2>2. CASE p = q
    <3>1. Draining(p)'
      BY <1>5, <1>8, <2>1, <2>2 DEF Draining
    <3> QED
      BY <3>1
  <2>3. CASE p # q
    <3>1. queue[p].there /\ queue[p].cqes # <<>>
      BY <1>4, <2>3
    <3>2. queue[p].iv \in flying \/ queue[p].vec + 1 \in signalled
      BY <1>5, <2>1, <2>3, <3>1 DEF Order, SignalsInv, Draining
    <3> QED
      BY <1>4, <3>2
  <2> QED
    BY <2>2, <2>3
<1>12. WaitsInv'
  <2>1. /\ call'.c = call.c /\ call'.qs = call.qs /\ call'.drain = call.drain
        /\ call'.others = call.others /\ call'.inTime = call.inTime
        /\ call'.todo = (IF irq.msix THEN call.todo ELSE Tail(call.todo))
    BY <1>1, <1>4
  <2>2. call'.drain => irq'.msix /\ call'.todo # <<>>
    BY <1>4, <2>1 DEF Order, WaitsInv
  <2>3. ASSUME call.c \in Objects
        PROVE  /\ call.qs = <<at[call.c]>> /\ call.todo = call.qs
               /\ q = at[call.c] /\ Tail(call.todo) = <<>>
               /\ ~call.others => \A o \in outstanding : at[o] = at[call.c] => o = call.c
    <3>1. call.qs = <<at[call.c]>> /\ call.todo = call.qs
      BY <2>3 DEF Order, WaitsInv
    <3>2. at[call.c] \in Queues
      BY <2>3 DEF DevTypes
    <3>3. q = at[call.c] /\ Tail(call.todo) = <<>>
      BY <1>5, <3>1, <3>2
    <3> QED
      BY <2>3, <3>1, <3>3 DEF Order, WaitsInv
  <2>4. ASSUME call.c \in Objects, ~call.others
        PROVE  state'[call.c] = "complete"
    <3>1. c = call.c
      BY <1>3, <2>3, <2>4
    <3>2. state \in [Objects -> {"new", "posted", "complete"}]
      BY DEF DevTypes
    <3> QED
      BY <1>4, <2>4, <3>1, <3>2
  <2>5. ASSUME call.c \in Objects
        PROVE  /\ call'.qs = <<at'[call'.c]>>
               /\ call'.todo = <<>> \/ call'.todo = call'.qs
               /\ ~call'.others => \A o \in outstanding' : at'[o] = at'[call'.c] => o = call'.c
               /\ ~call'.others /\ call'.inTime => state'[call'.c] = "complete"
    BY <1>4, <2>1, <2>3, <2>4, <2>5
  <2> QED
    BY <2>1, <2>2, <2>5 DEF WaitsInv
<1> QED
  BY <1>4, <1>9, <1>10, <1>11, <1>12 DEF Order, Patient

LEMMA LookOrder ==
    ASSUME DevTypes, BooksInv, Order, Patient, Look \/ Drain
    PROVE  Order' /\ Patient'
<1>1. /\ Waiting /\ call.todo # <<>> /\ (irq.msix => call.drain)
      /\ IF queue[Head(call.todo)].cqes # <<>> THEN Take(Head(call.todo))
         ELSE Goes(NextQueue) /\ UNCHANGED signalled
  BY DEF Look, Drain
<1>2. CASE queue[Head(call.todo)].cqes # <<>>
  BY <1>1, <1>2, TakeOrder
<1>3. CASE queue[Head(call.todo)].cqes = <<>>
  BY <1>1, <1>3, NextOrder
<1> QED
  BY <1>2, <1>3

LEMMA CountOrder ==
    ASSUME DevTypes, BooksInv, Order, Patient, ReadCount
    PROVE  Order' /\ Patient'
<1> DEFINE q == Head(call.todo)
           fd == queue[q].vec + 1
<1>1. Waiting /\ irq.msix /\ call.todo # <<>> /\ ~call.drain /\ call \in Waits /\ q \in Queues /\ q = call.todo[1]
  BY WaitingFacts, CallFacts DEF ReadCount
<1>2. \/ fd > irq.fds
      \/ /\ fd \in signalled /\ signalled' = signalled \ {fd}
         /\ Goes([call EXCEPT !.drain = TRUE])
      \/ fd \notin signalled /\ Goes(NextQueue) /\ signalled' = signalled
  BY DEF ReadCount
<1>3. queue[q].there
  <2>1. 1 \in 1 .. Len(call.todo)
    BY <1>1, CallFacts
  <2> QED
    BY <1>1, <2>1 DEF BooksInv
<1>4. /\ queue[0].vec = 0 /\ irq.fds = irq.num /\ irq.num > 0 /\ irq.num \in Nat
      /\ queue[1].there => queue[1].vec \in 1 .. irq.num - 1
  BY <1>1 DEF Order, VectorsInv, DevTypes
<1>5. q = 0 \/ q = 1
  BY <1>1, ConstantFacts
<1>6. ~(fd > irq.fds)
  BY <1>3, <1>4, <1>5
<1>7. CASE /\ fd \in signalled /\ signalled' = signalled \ {fd}
           /\ Goes([call EXCEPT !.drain = TRUE])
  <2>1. /\ call' = [call EXCEPT !.drain = TRUE]
        /\ UNCHANGED <<irq, flying, queue, state, at, device, outstanding, result>>
    BY <1>7 DEF Goes
  <2>2. /\ call' \in Waits /\ call'.c = call.c /\ call'.qs = call.qs /\ call'.todo = call.todo /\ call'.iv = call.iv
        /\ call'.drain = TRUE /\ call'.others = call.others /\ call'.inTime = call.inTime
    BY <1>1, <2>1 DEF Waits
  <2>3. Waiting'
    BY <2>2, WaitingFacts DEF Waiting
  <2>4. EntriesInv' /\ VectorsInv'
    BY <1>1, <2>1, <2>2, <2>3, SameBooks
  <2>5. SignalsInv'
    <3> SUFFICES ASSUME irq'.msix, NEW p \in Queues, queue'[p].there, queue'[p].cqes # <<>>
                 PROVE  queue'[p].iv \in flying' \/ queue'[p].vec + 1 \in signalled' \/ Draining(p)'
      BY DEF SignalsInv
    <3>1. CASE p = q
      <4>1. Draining(p)'
        BY <1>1, <2>2, <2>3, <3>1 DEF Draining
      <4> QED
        BY <4>1
    <3>2. CASE p # q
      <4>1. queue[p].there /\ queue[p].cqes # <<>>
        BY <2>1
      <4>2. queue[p].iv \in flying \/ queue[p].vec + 1 \in signalled
        BY <1>1, <4>1 DEF Order, SignalsInv, Draining
      <4>3. queue[p].vec + 1 # fd
        <5>1. p = 0 \/ p = 1
          BY ConstantFacts
        <5> QED
          BY <1>3, <1>4, <1>5, <3>2, <4>1, <5>1
      <4> HIDE DEF fd
      <4> QED
        BY <1>7, <2>1, <4>2, <4>3
    <3> QED
      BY <3>1, <3>2
  <2>6. WaitsInv'
    <3>1. ASSUME call.c \in Objects
          PROVE  /\ call.qs = <<at[call.c]>> /\ call.todo = call.qs
                 /\ ~call.others => \A o \in outstanding : at[o] = at[call.c] => o = call.c
                 /\ ~call.others /\ call.inTime => state[call.c] = "complete" \/ queue[at[call.c]].cqes # <<>>
      BY <1>1, <3>1 DEF Order, WaitsInv
    <3> QED
      BY <1>1, <2>1, <2>2, <3>1 DEF WaitsInv
  <2> QED
    BY <2>1, <2>4, <2>5, <2>6 DEF Order, Patient
<1>8. CASE fd \notin signalled /\ Goes(NextQueue) /\ signalled' = signalled
  BY <1>1, <1>8, NextOrder
<1> QED
  BY <1>2, <1>6, <1>7, <1>8

LEMMA PassOrder ==
    ASSUME DevTypes, Order, Patient, PassAgain
    PROVE  Order' /\ Patient'
<1> DEFINE b == Visible(call.c)
<1>1. /\ Waiting /\ call \in Waits /\ signalled' = signalled /\ call.todo = <<>>
      /\ call' = [call EXCEPT !.todo = call.qs, !.inTime = b]
      /\ UNCHANGED <<irq, flying, queue, state, at, device, outstanding, result>>
  BY WaitingFacts DEF PassAgain, Goes
<1>2. b \in BOOLEAN
  BY DEF Visible
<1>3. b => queue[at[call.c]].there /\ Contains(queue[at[call.c]].cqes, call.c) /\ (irq.msix => queue[at[call.c]].iv \notin flying)
  BY DEF Visible, InQueue
<1> HIDE DEF b
<1>4. /\ call' \in Waits /\ call'.c = call.c /\ call'.qs = call.qs /\ call'.todo = call.qs /\ call'.iv = call.iv
      /\ call'.drain = call.drain /\ call'.others = call.others /\ call'.inTime = b
  BY <1>1, <1>2 DEF Waits
<1>5. Waiting'
  BY <1>4, WaitingFacts DEF Waiting
<1>6. EntriesInv' /\ VectorsInv'
  BY <1>1, <1>4, <1>5, SameBooks
<1>7. ~call.drain
  BY <1>1 DEF Order, WaitsInv
<1>8. SignalsInv'
  <2>1. SamePairs /\ SameEntries
    BY <1>1, SameFacts
  <2>2. flying \subseteq flying' /\ signalled \subseteq signalled' /\ irq'.msix = irq.msix
    BY <1>1
  <2>3. \A q \in Queues : Draining(q) => queue[q].cqes = <<>>
    BY <1>7 DEF Draining
  <2> QED
    BY <2>1, <2>2, <2>3, SignalsKept DEF Order
<1>9. WaitsInv'
  <2>1. ASSUME call.c \in Objects
        PROVE  /\ call.qs = <<at[call.c]>>
               /\ ~call.others => \A o \in outstanding : at[o] = at[call.c] => o = call.c
               /\ b => /\ queue[at[call.c]].cqes # <<>>
                       /\ irq.msix => queue[at[call.c]].vec + 1 \in signalled
    <3>1. at[call.c] \in Queues
      BY <2>1 DEF DevTypes
    <3>2. ASSUME b
          PROVE  queue[at[call.c]].cqes # <<>>
      <4> SUFFICES ASSUME queue[at[call.c]].cqes = <<>> PROVE FALSE
        OBVIOUS
      <4>1. PICK i \in 1 .. Len(queue[at[call.c]].cqes) : TRUE
        BY <1>3, <3>2 DEF Contains
      <4> QED
        BY <4>1
    <3>3. ASSUME b, irq.msix
          PROVE  queue[at[call.c]].vec + 1 \in signalled
      <4>1. queue[at[call.c]].there /\ queue[at[call.c]].iv \notin flying /\ queue[at[call.c]].cqes # <<>>
        BY <1>3, <3>2, <3>3
      <4> QED
        BY <1>7, <3>1, <3>3, <4>1 DEF Order, SignalsInv, Draining
    <3> QED
      BY <1>1, <2>1, <3>2, <3>3 DEF Order, WaitsInv
  <2> QED
    BY <1>1, <1>4, <1>7, <2>1 DEF WaitsInv
<1> QED
  BY <1>1, <1>6, <1>8, <1>9 DEF Order, Patient

LEMMA ReturnOrder ==
    ASSUME DevTypes, BooksInv, Order, Patient, PassReturns
    PROVE  Order' /\ Patient'
<1>1. Waiting /\ call.todo = <<>> /\ call \in Waits /\ UNCHANGED <<irq, signalled, flying>>
  BY WaitingFacts DEF PassReturns
<1>2. \A q \in Queues : Draining(q) => queue[q].cqes = <<>>
  BY <1>1 DEF Draining
<1>3. CASE Completed /\ call.c = CreateCq
  <2>1. /\ Submit(CreateSq, 0) /\ state[CreateSq] = "new"
        /\ call' \in Waits /\ call'.c = CreateSq /\ call'.qs = <<0>> /\ call'.todo = <<0>>
        /\ call'.iv = call.iv /\ call'.inTime = FALSE /\ call'.drain = FALSE
        /\ call'.others <=> Others(0)
        /\ UNCHANGED <<irq, signalled, flying, queue, result>>
    BY <1>3, SecondCommand
  <2>2. CreateSq \in Objects /\ CreateSq \in CreateCmds /\ CreateCq \in CreateCmds /\ CreateSq \notin Bulky /\ 0 \in Queues
    BY ConstantFacts
  <2>3. CreateSq \notin outstanding
    BY <2>1 DEF BooksInv
  <2>4. /\ outstanding' = outstanding \union {CreateSq} /\ device' = device \union {CreateSq}
        /\ \A o \in Objects : o # CreateSq => at'[o] = at[o]
    BY <2>1, <2>2, SubmitFacts
  <2>5. SamePairs /\ SameEntries
    BY <2>1, SameFacts
  <2>6. EntriesInv'
    <3>1. \A o \in outstanding \ device : o \in outstanding' \ device' /\ at'[o] = at[o]
      BY <2>3, <2>4 DEF DevTypes
    <3>2. outstanding' \intersect Bulky = {}
      BY <2>2, <2>4 DEF Order, EntriesInv
    <3> QED
      BY <2>5, <3>1, <3>2, EntriesKept DEF Order
  <2>7. VectorsInv'
    BY <1>1, <1>3, <2>1, <2>2, <2>5, VectorsKept DEF Order
  <2>8. SignalsInv'
    <3>1. flying \subseteq flying' /\ signalled \subseteq signalled' /\ irq'.msix = irq.msix
      BY <1>1
    <3> QED
      BY <1>2, <2>5, <3>1, SignalsKept DEF Order
  <2>9. WaitsInv'
    BY <2>1, <2>2, BeginsWaiting
  <2> QED
    BY <2>1, <2>6, <2>7, <2>8, <2>9 DEF Order, Patient
<1>4. CASE ~(Completed /\ call.c = CreateCq)
  <2>1. /\ UNCHANGED <<state, at, device, outstanding>>
        /\ \/ ~Completed /\ EndCall("not complete") /\ queue' = queue
           \/ /\ Completed /\ EndCall("ok")
              /\ queue' = IF call.c = CreateSq
                          THEN [queue EXCEPT ![1] = NewPair(call.iv, IF irq.msix THEN call.iv ELSE 0)]
                          ELSE queue
    BY <1>4 DEF PassReturns
  <2>2. call' = Idle /\ ~Waiting'
    BY <2>1, EndFacts
  <2>3. WaitsInv'
    BY <2>2 DEF WaitsInv
  <2>4. CASE queue' = queue
    <3>1. SamePairs /\ SameEntries
      BY <2>4, SameFacts
    <3>2. EntriesInv'
      BY <2>1, <2>4 DEF Order, EntriesInv
    <3>3. VectorsInv'
      BY <1>1, <2>2, <3>1, VectorsKept DEF Order
    <3>4. SignalsInv'
      <4>1. flying \subseteq flying' /\ signalled \subseteq signalled' /\ irq'.msix = irq.msix
        BY <1>1
      <4> QED
        BY <1>2, <3>1, <4>1, SignalsKept DEF Order
    <3>5. Patient'
      <4>1. CASE ~Completed /\ EndCall("not complete")
        <5>1. result'.out = "not complete" /\ result'.others = call.others /\ result'.inTime = call.inTime
          BY <4>1, EndFacts
        <5>2. call.c \in Objects /\ state[call.c] # "complete"
          BY <4>1 DEF Completed
        <5>3. call.qs = <<at[call.c]>> /\ (~call.others /\ call.inTime => call.todo = call.qs)
          BY <1>1, <5>2 DEF Order, WaitsInv
        <5>4. call.others \/ ~call.inTime
          BY <1>1, <5>3
        <5>5. result'.out # "raised"
          BY <5>1
        <5>6. result'.others \/ ~result'.inTime
          BY <5>1, <5>4
        <5> QED
          BY <5>5, <5>6 DEF Patient
      <4>2. CASE EndCall("ok")
        <5>1. result'.out = "ok"
          BY <4>2, EndFacts
        <5> QED
          BY <5>1 DEF Patient
      <4> QED
        BY <2>1, <4>1, <4>2
    <3> QED
      BY <2>3, <3>2, <3>3, <3>4, <3>5 DEF Order
  <2>5. CASE queue' # queue
    <3>1. /\ Completed /\ EndCall("ok") /\ call.c = CreateSq
          /\ queue' = [queue EXCEPT ![1] = NewPair(call.iv, IF irq.msix THEN call.iv ELSE 0)]
      BY <2>1, <2>5
    <3> DEFINE iv == IF irq.msix THEN call.iv ELSE 0
               pair == NewPair(call.iv, iv)
    <3>2. call.iv \in Vectors /\ iv \in Vectors
      BY <1>1, ConstantFacts DEF Waits
    <3>3. queue' = [queue EXCEPT ![1] = pair] /\ queue \in [Queues -> Pairs] /\ Queues = {0, 1} /\ (irq.msix => iv = call.iv)
      BY <3>1, ConstantFacts DEF DevTypes
    <3> HIDE DEF iv
    <3>4. pair.there /\ pair.vec = call.iv /\ pair.iv = iv /\ pair.cqes = <<>>
      BY <3>2, PairFacts
    <3> HIDE DEF pair
    <3>5. queue'[0] = queue[0] /\ queue'[1] = pair
      BY <3>3
    <3>6. SameEntries
      BY <3>3, <3>4, <3>5 DEF SameEntries
    <3>7. EntriesInv'
      <4>1. /\ \A o \in outstanding \ device : o \in outstanding' \ device' /\ at'[o] = at[o]
            /\ outstanding' \intersect Bulky = {}
        BY <2>1 DEF Order, EntriesInv
      <4> QED
        BY <3>6, <4>1, EntriesKept DEF Order
    <3>8. VectorsInv'
      <4>1. irq.msix => call.iv \in 1 .. irq.num - 1
        BY <1>1, <3>1, ConstantFacts DEF Order, VectorsInv
      <4> QED
        BY <1>1, <2>2, <3>3, <3>4, <3>5, <4>1 DEF Order, VectorsInv
    <3>9. SignalsInv'
      <4> SUFFICES ASSUME irq'.msix, NEW p \in Queues, queue'[p].there, queue'[p].cqes # <<>>
                   PROVE  queue'[p].iv \in flying' \/ queue'[p].vec + 1 \in signalled'
        BY DEF SignalsInv
      <4>1. p = 0 /\ queue'[p] = queue[p]
        BY <3>3, <3>4, <3>5
      <4>2. queue[p].iv \in flying \/ queue[p].vec + 1 \in signalled
        BY <1>1, <1>2, <4>1 DEF Order, SignalsInv
      <4> QED
        BY <1>1, <4>1, <4>2
    <3>10. Patient'
      <4>1. result'.out = "ok"
        BY <3>1, EndFacts
      <4> QED
        BY <4>1 DEF Patient
    <3> QED
      BY <2>3, <3>7, <3>8, <3>9, <3>10 DEF Order
  <2> QED
    BY <2>4, <2>5
<1> QED
  BY <1>3, <1>4

LEMMA DevOrder ==
    ASSUME DevTypes, BooksInv, Order, Patient, DevNext, orderly'
    PROVE  Order' /\ Patient'
<1>1. CASE \E q \in Queues, fn \in {"start_cmd", "sync_cmd"} : Start(q, fn)
  BY <1>1, StartOrder
<1>2. CASE \E c \in Cmds : StartAgain(c)
  BY <1>2, AgainOrder
<1>3. CASE ProcessAll
  BY <1>3, GetCqsFacts, ProcessOrder DEF ProcessAll
<1>4. CASE \E q \in Queues : queue[q].there /\ Process(<<q>>, 1)
  <2>1. PICK q \in Queues : Process(<<q>>, 1)
    BY <1>4
  <2> DEFINE qs == <<q>>
  <2>2. qs \in Seq(Queues) /\ Process(qs, 1)
    BY <2>1
  <2> HIDE DEF qs
  <2> QED
    BY <2>2, ProcessOrder
<1>5. CASE \E num \in 1 .. Cardinality(Vectors), start \in {0, 1}, refused \in BOOLEAN : InitMsix(num, start, refused)
  BY <1>5, MsixOrder
<1>6. CASE \E iv \in Vectors : CreatePair(iv)
  BY <1>6, CreateOrder
<1>7. CASE Disable
  BY <1>7, DisableOrder
<1>8. CASE WaitStep
  BY <1>8, LookOrder, CountOrder, PassOrder, ReturnOrder DEF WaitStep
<1>9. CASE \E c \in Objects : DeviceAnswers(c)
  BY <1>9, AnswerOrder
<1>10. CASE \E v \in Vectors : Deliver(v)
  BY <1>10, DeliverOrder
<1> QED
  BY <1>1, <1>2, <1>3, <1>4, <1>5, <1>6, <1>7, <1>8, <1>9, <1>10 DEF DevNext, UserStep

(* Use that was not orderly does not become so.                             *)
LEMMA OrderlyEnds == DevNext /\ orderly' => orderly
BY DEF DevNext, UserStep, WaitStep, Start, StartAgain, Refuse, ProcessAll, Process, InitMsix, CreatePair, Disable,
       Look, Drain, Take, ReadCount, PassAgain, PassReturns, Goes, DeviceAnswers, Deliver

LEMMA DevStep == DevInv /\ DevNext => DevInv'
<1> SUFFICES ASSUME DevInv, DevNext PROVE DevInv'
  OBVIOUS
<1>1. DevTypes /\ BooksInv /\ AnsweredInv /\ (orderly => Order /\ Patient)
  BY DEF DevInv, OrderlyInv, GivesUpOnlyWhenLate, Patient
<1>2. DevTypes' /\ BooksInv'
  BY <1>1, DevBooks
<1>3. AnsweredInv'
  BY <1>1, <1>2, DevAnswered
<1>4. orderly' => Order' /\ Patient'
  BY <1>1, DevOrder, OrderlyEnds
<1> QED
  BY <1>2, <1>3, <1>4 DEF DevInv, OrderlyInv, GivesUpOnlyWhenLate, Patient

LEMMA DevInitHolds == DevInit => DevInv
<1> SUFFICES ASSUME DevInit PROVE DevInv
  OBVIOUS
<1>1. ~Waiting /\ call = Idle
  BY DEF DevInit, Waiting
<1>2. /\ irq = [msix |-> FALSE, num |-> 0, fds |-> 0, trigger |-> [v \in Vectors |-> 0]]
      /\ queue = EnabledQueues /\ outstanding = {} /\ device = {} /\ result = NoResult
      /\ state = [c \in Objects |-> "new"]
  BY DEF DevInit
<1>3. /\ irq \in [msix : BOOLEAN, num : Nat, fds : Nat, trigger : [Vectors -> Nat]] /\ ~irq.msix /\ irq.fds = 0
      /\ \A v \in Vectors : irq.trigger[v] <= irq.fds
  BY <1>2
<1>4. 0 \in Nat /\ 0 + 0 <= MaxCalls
  BY BoundsAssumption
<1>5. DevTypes
  BY <1>1, <1>2, <1>3, <1>4, EnabledFacts, ConstantFacts DEF DevInit, DevTypes, NoResult
<1>6. BooksInv
  BY <1>1, <1>2, EnabledFacts, ConstantFacts DEF BooksInv
<1>7. \A q \in Queues : queue[q].cqes = <<>>
  BY <1>2, EnabledFacts
<1>8. AnsweredInv
  BY <1>7 DEF AnsweredInv, Entered
<1>9. Order
  BY <1>1, <1>2, <1>3, <1>7, EnabledFacts DEF Order, EntriesInv, VectorsInv, SignalsInv, WaitsInv
<1>10. GivesUpOnlyWhenLate
  BY <1>2 DEF GivesUpOnlyWhenLate, NoResult
<1> QED
  BY <1>5, <1>6, <1>8, <1>9, <1>10 DEF DevInv, OrderlyInv

LEMMA DevIsTyped == DevInv => DevTypeOK /\ GivesUpOnlyWhenLate
<1> SUFFICES ASSUME DevInv PROVE DevTypeOK
  BY DEF DevInv
<1>1. DevTypes /\ BooksInv
  BY DEF DevInv
<1>2. irq.msix \in BOOLEAN /\ irq.num \in Nat /\ irq.trigger \in [Vectors -> 0 .. irq.fds]
  <2>1. irq.fds \in Nat /\ irq.trigger \in [Vectors -> Nat] /\ \A v \in Vectors : irq.trigger[v] <= irq.fds
    BY <1>1 DEF DevTypes
  <2>2. \A v \in Vectors : irq.trigger[v] \in 0 .. irq.fds
    BY <2>1
  <2>3. irq.trigger \in [Vectors -> 0 .. irq.fds]
    BY <2>1, <2>2
  <2> QED
    BY <1>1, <2>3 DEF DevTypes
<1>3. \A q \in Queues : queue[q].cqes \in Seq(Objects) /\ queue[q].vec \in Vectors
  BY <1>1 DEF DevTypes, Pairs
<1> QED
  BY <1>1, <1>2, <1>3 DEF DevTypeOK, DevTypes, BooksInv
-----------------------------------------------------------------------------
(***************************************************************************)
(* The theorems.                                                            *)
(***************************************************************************)
Inv == scene \in {"host", "device"} /\ HostInv /\ DevInv

LEMMA HostStays == HostInv /\ UNCHANGED hostVars => HostInv'
BY DEF HostInv, HostTypes, PlacesOK, Bindings, ScriptsInv, SessionInv, ScriptsSucceed, hostVars, places,
       GroupOf, IdOf, Groups, InUse, Members

LEMMA DevStays == DevInv /\ UNCHANGED devVars => DevInv'
<1> SUFFICES ASSUME DevInv, UNCHANGED devVars PROVE DevInv'
  OBVIOUS
<1>1. UNCHANGED <<irq, signalled, flying, queue, state, at, device, outstanding, call, result, orderly, starts, calls>>
  BY DEF devVars
<1>2. DevTypes'
  BY <1>1 DEF DevInv, DevTypes
<1>3. BooksInv' /\ AnsweredInv'
  BY <1>1 DEF DevInv, BooksInv, AnsweredInv, Entered, Waiting
<1>4. Order => Order'
  BY <1>1 DEF Order, EntriesInv, VectorsInv, SignalsInv, WaitsInv, Waiting, Draining
<1>5. OrderlyInv' /\ GivesUpOnlyWhenLate'
  BY <1>1, <1>4 DEF DevInv, OrderlyInv, GivesUpOnlyWhenLate
<1> QED
  BY <1>2, <1>3, <1>5 DEF DevInv

(* The strengthening is inductive: a host's step leaves the device alone    *)
(* and the other way round.                                                 *)
THEOREM Inductive == Spec => []Inv
<1>1. Init => Inv
  BY DevInitHolds, HostInitHolds, OpenedInitHolds DEF Init, Inv
<1>2. Inv /\ [Next]_vars => Inv'
  <2> SUFFICES ASSUME Inv, [Next]_vars PROVE Inv'
    OBVIOUS
  <2>1. CASE scene = "host" /\ HostNext /\ UNCHANGED <<scene, devVars>>
    BY <2>1, HostStep, DevStays DEF Inv
  <2>2. CASE AtWork(DevNext)
    BY <2>2, DevStep, HostStays DEF Inv, AtWork
  <2>3. CASE UNCHANGED vars
    BY <2>3, HostStays, DevStays DEF Inv, vars
  <2> QED
    BY <2>1, <2>2, <2>3 DEF Next
<1> QED
  BY <1>1, <1>2, PTL DEF Spec

(* Types of what kernel, scripts and process keep, and the books of         *)
(* start_cmd and complete_command: what the drive has is in                 *)
(* outstanding_commands, posted once, on a queue that exists, and a call    *)
(* that waits looks at such queues only.                                    *)
THEOREM TypesCorrect == Spec => []TypeOK
<1>1. Inv => TypeOK
  BY HostIsUsable, DevIsTyped DEF Inv, HostInv, TypeOK
<1> QED
  BY <1>1, Inductive, PTL

(* lone_setup succeeds and NVMeDevicePhysical opens what it exposed; and in *)
(* orderly use no call fails in the middle, and sync_cmd and                *)
(* create_io_queue_pair give up only on a completion that is late.          *)
THEOREM OrderlyUseCorrect == Spec => []OrderlyUseSucceeds
<1>1. Inv => OrderlyUseSucceeds
  BY HostIsUsable, DevIsTyped DEF Inv, OrderlyUseSucceeds
<1> QED
  BY <1>1, Inductive, PTL
=============================================================================

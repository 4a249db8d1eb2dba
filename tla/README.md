# A formal model of lone and nvsim

`lone` is an NVMe driver in user space, written in Python on top of VFIO and
hugepages. `nvsim` is an NVMe controller simulated in the same process, used to
test the driver and the code written with it. This directory holds TLA+ modules
of the parts whose correctness depends on order, interleaving and wrap-around,
TLC configurations that check them on small instances, and TLAPS proofs that
hold for every size.

Paths are relative to `src/python3/` unless they begin with `src/`.

## 1. Inventory

### Components

| Component | Source | State it keeps | Operations | Modules |
|---|---|---|---|---|
| Rings and doorbells | `lone/nvme/spec/queues.py` (`NVMeHeadTail`, `NVMeQueue`, `NVMeSubmissionQueue`, `NVMeCompletionQueue`) | head and tail, one of them a doorbell register; phase; queue memory | `advance`, `peek`, `is_full`, `num_entries`, `post_command`, `get_command`, `post_completion`, `consume_completion` | `NVMeRing`, `QueuePair` |
| Driver commands | `lone/nvme/device/__init__.py`, `CidMgr` | next CID, `outstanding_commands`, `posted`, `complete`, `CID`, `cqe` of each command object | `start_cmd`, `post_command`, `get_completion`, `complete_command` | `QueuePair`, `CommandService` |
| Driver waiting | `lone/nvme/device/__init__.py` | none of its own | `sync_cmd`, `process_completions`, `poll_cq_completions`, `get_msix_completions`, `init_msix_interrupts` | `Completions` |
| Driver life cycle | `lone/nvme/device/__init__.py` | `CC.EN`, ASQ, ACQ, AQA, `PXDC.IFLR`; its `queue_mgr` | `cc_disable`, `init_admin_queues`, `cc_enable`, `initiate_flr` | `SimHandshake` |
| Simulator thread | `nvsim/simulators/nvsim_thread.py`, `nvsim/simulators/generic.py` | two events, copies of the registers, `CSTS.RDY` | `run`, `nvsim_pcie_regs_changed`, `nvsim_nvme_regs_changed`, `enable`, `disable` | `SimHandshake` |
| Simulator dispatch | `nvsim/simulators/generic.py` | local variables of `check_commands` | `check_commands`, `posted_command` | `SimDispatch` |
| Queue directory | `lone/nvme/spec/queues.py` (`QueueMgr`) | `nvme_queues`, `io_sqids`, `io_cqids`, `io_sqid_index` | `add`, `remove_sq`, `remove_cq`, `get`, `next_iosq_id` | `QueueMgr` |
| I/O queues | `lone/nvme/device/__init__.py`, `nvsim/cmd_handlers/admin.py` | two directories, `completion_queues` | `create_io_queue_pair`, `delete_io_queues`, the four create and delete handlers | `IoQueues` |
| Simulator handlers | `nvsim/cmd_handlers/admin.py`, `nvm.py` | namespaces, power state | identify, log pages, features, format, read, write, flush | `SimStorage`, `BlockStore` |
| Device memory | `lone/system/linux/hugepages_mgr.py`, `lone/system/__init__.py` | pages, links, IOVA list | `malloc`, `malloc_pages`, `free`, `free_all` | `PageMgr`, `DeviceMemory` |
| PRP lists | `lone/nvme/spec/prp.py` | `mem_list`, `prp1`, `prp2` | `alloc`, `from_address`, `get_data_segments`, `set_data_buffer`, `free_all_memory` | `DeviceMemory`, `PrpCopy` |
| LBA generator | `lone/util/lba_gen.py` | shift register, period | `next`, `__next__`, `reset` | `LbaGen` |
| Physical device | `lone/system/linux/vfio.py`, `pci.py`, `scripts/lone_setup.py` | file descriptors, event descriptors, sysfs | `initialize`, `clean`, `enable_msix`, `expose`, `reclaim` | `DriverBinding`, `VfioSession`, `Completions` |
| Register access | `lone/nvme/spec/registers/__init__.py` | none | read-modify-write, `set_notify` | notification in `SimHandshake` |
| Layouts, tables | `lone/nvme/spec/structures`, `commands`, `registers` | none | `ctypes` declarations, status code table | not modelled |
| Identify data | `lone/nvme/device/identify.py` | tables | a sequence of identify commands | `SimStorage` |
| Tools | `lone/injection`, `lone/util`, `nvtest`, `src/examples` | little | - | as users of the driver only |

### How they interact

- Driver and controller share queue memory, the two doorbells of each pair and
  the registers. There is no lock anywhere.
- A register write through `RegsStructAccess.__setattr__` stores the value, then
  calls `set_notify`, which sets an event the simulator's thread polls. The
  doorbells of `NVMeHeadTail` are written through raw `ctypes` pointers and set
  no event.
- With the simulated device `post_command` calls `posted_command`, which runs
  `check_commands` **in the caller's thread**: the command is executed before
  `start_cmd` returns. The simulator's own thread runs the same function from its
  register handler while `RDY` is set.
- Driver and simulator each keep a `QueueMgr`. Admin commands sent by the driver
  change the simulator's; the driver changes its own after they complete.
- Queues and the PRPs of commands get their memory from one manager, which maps each
  area for the device; commands and queues carry IOVAs, the driver looks for the
  memory behind them in its own lists.
- `complete_command` is reached only through a CID the controller returns, looked
  up in `outstanding_commands`.

### What is hard, and what makes each component correct

- *Rings.* Both sides must agree on what is pending from indices that wrap, one
  phase bit, and a head the host learns late (`SQHD`). Correct: an entry is
  consumed exactly once, never overwritten before it is, and no side mistakes an
  old entry for a new one.
- *Driver commands.* CIDs are a cycle with no test for reuse; completions come in
  any order; objects are used again. Correct: a completion reaches the command
  whose execution it reports, every started command is reported, once.
- *Life cycle.* Two threads, registers written one by one, edge-triggered tests
  against copies taken at another time. Correct: `cc_enable` returns only with
  the simulator serving the driver's new queues, calls return, resets happen.
- *Dispatch.* Two threads over the same unlocked heads and tails, loops with a
  count taken earlier. Correct: each command is executed once, calls end.
- *Directories and I/O queues.* An index kept across changes of its list, a list
  that is never thinned, doorbells and heads that outlive their queues. Correct:
  both sides hold the same pairs over the same memory, the round robin passes
  nobody over.
- *Memory, PRPs.* Contiguity is read off the sizes of free pages, links are all
  that protects the rest of an area, each call of `malloc` can raise at several
  points and leaves its work behind; a PRP is many calls. Correct: what is held is
  disjoint, has an IOVA of its own and can be freed; a controller reaches exactly
  the data of a command, and the driver finds the same pages.
- *Waiting.* A completion found by one caller may be another's, or of a command
  whose caller has given up; an event count says that there was an interrupt, not
  for which queue, and is gone once read. Correct: a call gives up only when its
  completion is late, and no completion is left in its queue for good.
- *Storage and handlers.* Data goes through segments of pages, in slices computed
  twice; handlers raise in the middle of the user's call. Correct: namespaces are
  arrays of blocks that nothing but an accepted write changes.
- *LBA generator.* A register of more states than there are positions, which never
  reaches 0. Correct: every position once, then the end.
- *Drivers and descriptors.* sysfs refuses what it knows already, the kernel's
  drivers race in a rescan, descriptors outlive the call that failed. Correct:
  after an expose the drive can be opened, after a reclaim it is nvme's again.

The list `hazards` of `PROJECT.json` gives each of these at its line, with the
properties that cover it or the reason why none does yet.

## 2. The modules

| Module | What it is |
|---|---|
| `NVMeRing` | Ring arithmetic: `Peek`, `IsFull`, `NumEntries` as in the code, `Dist` and `Holds` as the reference. |
| `CommandService` | The abstract promise of a queue pair: started, executed, reported, used again. |
| `QueuePair` | One pair, driver and controller. |
| `MCQueuePair` | `QueuePair` with the symmetry TLC uses. |
| `QueuePairProofs` | Theorems on `NVMeRing` and `QueuePair`. |
| `SimHandshake` | Enable, disable and reset between driver and simulator thread. |
| `SimHandshakeProofs` | Theorems on `SimHandshake`. |
| `SimDispatch` | `check_commands` in two threads; extends `QueuePair` and implements it. |
| `SimDispatchProofs` | Theorems on `SimDispatch` while its threads take turns. |
| `Lists` | Python's list comprehension with a condition: `Keep`. |
| `ListTheorems` | What `Keep` returns, by induction over the list; division and products. |
| `QueueMgr` | The directory of queue pairs as operators on a record. |
| `IoQueues` | Two `QueueMgr`s through create, delete, reset and I/O. |
| `IoQueuesProofs` | Theorems on `IoQueues`. |
| `PageMgr` | The memory and IOVA managers as operators on a record. |
| `DeviceMemory` | Their users: areas, borrowed pages and the PRPs of commands. |
| `MCDeviceMemory` | `DeviceMemory` with the symmetry TLC uses. |
| `DeviceMemoryProofs` | Theorems on `DeviceMemory`. |
| `LbaGen` | The shift register of the LBA generator as functions on a record. |
| `PrpCopy` | `get_data_buffer` and `set_data_buffer` over pages. |
| `BlockStore` | The abstract promise of namespaces: an array of blocks. |
| `SimStorage` | The simulator's other commands, with a user at a shell or a program that sweeps a namespace; extends `PrpCopy` and `LbaGen`, implements `BlockStore`. |
| `MCSimStorage` | `SimStorage` with two namespaces and the programs to run. |
| `SimStorageProofs` | Theorems on `SimStorage`, and lemmas on `PrpCopy` and `LbaGen`. |
| `DriverBinding` | `expose` and `reclaim`: drivers, identifiers, nodes, as operators on a record. |
| `VfioSession` | A process that opens and cleans drives while root runs the script. |
| `Completions` | Waiting for completions, polled and with MSI-X, on an open drive. |
| `PhysicalDevice` | The specification of the two before. |
| `PhysicalDeviceProofs` | Theorems on `PhysicalDevice`. |

A definition introduced by "Fault:" stands before the definition it deforms. No
specification uses it: it is a slip a later change of the code might make, and
for every checked property there is one that breaks it.

### QueuePair

`StartCmd` is `start_cmd` with `post_command` and the ring's own `post_command`;
`StartCmdOnFullQueue` the same call ending in the assertion "SQ FULL", which
comes after a CID was consumed and stored in the command object. `GetCompletion`
is `get_completion` with `complete_command`: it sets the head from `SQHD`,
removes the outstanding entry and consumes. Where the lookup raises `KeyError`
nothing changes, so there is no step. `ReuseCmd` is the user clearing `complete`.
`FetchCmd` and `CompleteCmd` are `get_command` and `complete` with
`post_completion` of the controller. Payload and status are reduced to the
identity of the command that was executed, which is what tells a completion from
another one's.

A controller has `Units`: one unit completes in fetch order, as nvsim does;
several complete in any order, as the physical controllers lone drives may. A
unit waits while the completion queue is full, as a controller must; nvsim
asserts instead, which is `SimDispatch`'s subject.

`Spec` allows every user. `FreshSpec` restricts the user to what the docstring of
`CidMgr` leaves to him: no CID comes round while it is outstanding.
`PatientSpec` is a user who does not post on a full queue; it is what
`SimDispatch` implements. `CommandService` is implemented under the mapping
`Stage`: a command is executed, in its sense, when its completion stands in the
queue.

### SimHandshake

The host's program counter `hostPc` walks through `cc_disable`,
`init_admin_queues`, `cc_enable` and `initiate_flr`; a register write and its
notification are two steps, because the simulator's handler may run in between.
`simPc` walks through `NVSimThread.run` and the two handlers, with each test of a
register, each copy and each `clear` of an event a step. Of a run of writes that
set the same event again one is kept. Queue memory is a value of `Memories`,
chosen among those nobody refers to: nothing frees queue memory.

`Spec` is a user who enables and disables at any pace. `SettledSpec` adds
`initiate_flr`, and the user's calls begin only when the simulator has nothing
left to do (`Quiet`), which the sleep of `src/examples/flr.py:34` and the
synchronous use in the tests approximate. Timeouts are left out: `cc_disable` and
`cc_enable` wait as long as it takes, so that a call that can never return is a
liveness violation.

### SimDispatch

`PostCommand` is `post_command` up to `posted_command`, `PostReturns` the rest;
the command enters `outstanding` only then. `CheckCommands(t)` runs the function
in thread `t`: `Scan` fixes the count of I/O commands, `Test` is the loop's
condition with `get_command`'s, `Read`, `Load`, `Store` its slot and the two
halves of `advance`, `Handle` and `CqLoad`, `CqStore` the handler's completion.
The variable `kind`, chosen at the start, is the admin loop (until `None`) or the
counting I/O loop. A handler that raises ends the call; what follows the
exception is not modelled. The user is the one of `PatientSpec`.
`ConcurrentSpec` lets the threads overlap, `SerialSpec` lets them take turns.

### QueueMgr and IoQueues

A manager is a record of the dictionary in its order, the identifier lists and
the index. `IoQueues` has one for the driver and one for the simulator, the
simulator's `completion_queues`, the tail doorbells and a counter of queue memory
handed out. A user's call is one step, since admin commands and, with the
simulated device, I/O commands are executed before the call returns. `Served` is
the part of `check_commands` that every call runs on the I/O queues. `outcome`
says how the call ended: completions in memory the host does not look at, an
index past its list, an attribute error, an assertion (`DeleteRaises`). After a
call that leaves a command outstanding, raises in its middle, or leaves slots the
host did not fill, the behaviour is not followed further (`Followed`). Commands
that fail, and the partial failure of a creation on a physical controller, are
left out.

The comprehensions with which `remove_sq` and `remove_cq` rebuild the identifier
lists are `Keep`. A deletion removes the queues one after the other; `RemoveSqs`
and `RemoveCqs` are all of its removals, in one step.

`firstLife` is a history variable: it holds until the user resets the device or
creates queues after a deletion. Everything the simulator promises holds until
then; what holds afterwards as well is stated separately.

### PageMgr and DeviceMemory

A manager is a record of the page list, the fields of each page's
`MemoryLocation`, `malloc_mem`, the free IOVAs, the hugepages obtained, and the
pages that hold something other than zeroes. An area is named by its first page,
as in the code. `Malloc` is the set of results `malloc` can have: the kernel
chooses which hugepages it hands out (`Answers`), and the call may raise for want
of hugepages, of contiguous pages or of an IOVA, or because of the direction; the
record then holds what was done before. `FreeEach` is `free`, of several areas one
after the other. Two orders are abstracted, that of `malloc_mem` and that of
`free_iovas`: which free IOVA an area gets is left open, so that the properties
hold for the FIFO of the code too. The ranges `HugePagesIovaMgr.reset` walks
through are the set `Iovas`. Memory counts as written once it is handed out.

`AreasAreApart` speaks of what an area *reaches*, the pages its size covers, and of
what it is linked to. The two may differ: a `malloc` that raises for want of an
IOVA leaves size and links on a page that stays free, and an area that begins
before this page later reaches pages which are linked to it, not to its own first
page. They stay taken with it, so nothing overlaps.

`DeviceMemory` has the users. `PRP.alloc` is one step for each of its calls of
`malloc` (`PrpPage`, `PrpLastPage`, `PrpRaises`), since any of them can raise;
nothing else runs in between. `FreePrps` is `free_all_memory`, which skips every
other page because it removes from the list it walks. `NewPrp` on a command that
has a PRP forgets the old one, as `NVMeDeviceCommon.alloc` does. Not followed: a
`free_all` that raises, after an area whose mapping was refused.

The IOMMU is the set of mapped areas: `free` unmaps with the size of one page,
which a type 1 container answers by removing the whole mapping at that IOVA.

### LbaGen and PrpCopy

`Draw` is `f` with its recursion, which drops states above the maximum: `Turned`
turns the register 2^n times, and a turn leaves a state alone that is a position.
After 2^n turns every state has been met, so that one which is still too large
would have gone round for ever. `Advance` is `__next__`; its `StopIteration` is
`complete`. Of `period` only whether it is 0 is tested, which is `started`. `Polys`
is the table of the code. A page is a sequence of cells, a buffer one of pages.
`GetData` copies whole pages, as the slices of `get_data_buffer` come out to do;
`SliceRaises` is where the slice of the source is empty and the target is not.

### SimStorage

A call of the user (`alloc`, fill the buffer, `sync_cmd`, look at the buffer) is
one step, since the simulator executes the command inside `start_cmd`. `reply`
holds the request with its result: `ok`, the text of the status as the user's
lookup finds it, or `raised`. Every handler is an action with all its ends,
`Format` and `GetLogPage` of page 0 with the `AttributeError` they always end in.
After an exception the behaviour goes on: what it leaves of the queues is the
subject of `SimDispatch` and `IoQueues`, here the user starts anew. A block is no
larger than a page (`BlocksAssumption`): `init_storage` accepts blocks of 512 and of
4096 bytes, and a page has 4096 bytes or more. `Restart` is
the disable and enable that keeps the configuration, `FunctionReset` the reset
that makes a new one, whose namespaces truncate their files.

A behaviour is a shell or a program. The program is `src/examples/rw.py` with
either loop: a number of `next()`, as there, or iteration to the end, as in
`tests/util/test_util.py`; it writes different data at every position, where
`rw.py` writes the same, so that a block read from the wrong place shows.

### DriverBinding, VfioSession, Completions, PhysicalDevice

`Exposed` is the whole script: remove, rescan, in which the kernel gives the drive
to nvme or to vfio-pci (`Takers`), unbind, `new_id`, `chown`; the first write that
fails ends it and leaves what was done. Three things of the machine are chosen at
the start: whether the drives are twins (one vendor and device number), whether
they share an IOMMU group, and whether vfio-pci takes them. `held` is what the
process has open of each group. `Open` is `initialize` with the handling of its
exception in `NVMeDevicePhysical`; `HeldAfter` says what stays open when it
raises. `Clean` may find that somebody keeps a reference to the registers, whose
mapping then refuses to close. `script` and `spoilt` are history variables.

`Completions` is one user, who starts commands, waits, creates the I/O queue pair,
sets up MSI-X, disables, over an admin and an I/O pair of a device that answers in
any order at any time. A wait is a record: the queues still to be looked at in
this pass, what was found, whether the current queue is being drained. `Look`,
`ReadCount` and `Drain` take one completion or one count; `PassReturns` ends the
wait after any pass, which is both its success and its timeout. `fds`, `trigger`
and `signalled` are the event descriptors, the kernel's table and the counts;
`vec` is the vector the driver reads for a queue and `iv` the one the controller
was told. An index past the list is a call that raised. `orderly` is the history
variable the properties speak under: MSI-X set up at most once, from vector 0,
before any queue or command; a vector of its own for the I/O queue; no data of two
pages. Every one of these clauses is needed: without it TLC finds a violation.

`PhysicalDevice` composes both. They meet in the open device object only, so a
behaviour is about one of them (`scene`).

## 3. The runs

| Run | Instance | Shows |
|---|---|---|
| `queue_pair_any_user` | 3 commands, 2 units, SQ 3, CQ 2, 3 CIDs | the phase bit is an exact test; the host's head is late but never ahead; the assertions of `complete_command` hold even with CIDs reused early; no entry is overwritten or skipped |
| `queue_pair_fresh_cids` | 2 commands, 2 units, SQ 3, CQ 2, 3 CIDs | every completion is claimed; a complete object holds its own result; a posted command is in exactly one place; every command completes; `CommandService` is implemented |
| `handshake_settled` | 4 memories | ready means the same queues; configuration is private; enable and disable return, a reset disables |
| `handshake_enable_lost` (violation) | 4 memories | at any pace, an enable is lost |
| `dispatch_serial` | 2 commands, SQ 3, CQ 2, 2 CIDs, both kinds of pair | the two loops implement `QueuePair` with one unit; completed on return; a handler raises only on a full completion queue; CIDs do not come round early; calls end |
| `dispatch_concurrent` (violation) | 2 commands, SQ 3, CQ 3 | overlapping calls execute a slot that was never written |
| `io_queues` | identifiers 1 to 3, 3 slots, 1 ending | in the first life: both directories agree, calls succeed, every queue has its turn; always: the driver's directory is whole, submissions reach the simulator |
| `io_queues_recreate` (violation) | the same | completions of a pair created again go astray |
| `device_memory` | 2 hugepages of 2 pages, 4 IOVAs, areas of half a page and of 2 pages, data of 2, 3 and 4 pages, 2 PRPs in a list | areas are apart; IOVAs are own; what is held can be freed; the controller reaches the data; the driver finds the data of commands with a list |
| `device_memory_two_pages` (violation) | the same | data of two pages is not found |
| `sim_storage` | namespaces of 54 blocks of a page and 108 of half a page; 3 calls at the shell; 13 programs | namespaces implement `BlockStore`; whole pages are served; a program ends and covers every position |
| `physical_device` | 2 drives, 6 scripts, opens and cleans; 3 commands, 4 starts, set-ups and disables, 2 vectors | scripts and opens succeed but in the named cases; waits give up only when the completion is late; completions are collected |

Each module has its type invariant in its passing run (`SimDispatch`'s is implied
by the refinement and is kept for the proofs). The violation runs are the
`findings` of `PROJECT.json`: each checks one sentence of a comment, a docstring
or an assertion of the repository against the code.

### Bounds, and why they are enough

- *Rings of 2 and 3 slots.* The interesting places are full, empty, the wrap and
  a wrap by one side only. A ring of 3 has a state that is neither full nor
  empty, one of 2 is full with one entry. Head and tail of both rings go round
  without limit, so that every phase and every relative position is met. The
  theorems of section 5 take the size away.
- *CIDs.* The range is small enough to go round while a command is outstanding.
  For `SimulatorNeverReusesCid` it is as small as the property allows,
  `SQEntries - 1` CIDs.
- *Commands and units.* Three commands and two units let completions overtake each
  other while a third command waits. `queue_pair_any_user` uses symmetry in
  both; a run with a liveness property uses none, and has two commands. The
  safety properties of that run are theorems for any number.
- *Memories.* At most three are referred to at a time (registers, the pair in use
  by the simulator, the one being read), so four always leave a free one.
- *`MaxPerLoop` 2* stands for 100: with 2 commands the count is sometimes the
  number of entries and sometimes the limit.
- *Memory.* Four pages in two hugepages are enough for an area over a hugepage's
  end, for a list with its data, for fragmentation (no two free pages in a row) and
  for running out; four IOVAs for running out of them first. Data of 2, 3 and 4
  pages of 2 bytes is the case without a list, the last that fits (`PrpsPerPage` 2
  stands for 511) and, with 7 bytes, the first that does not and raises. One page
  at most is borrowed (`MaxLent`). IOVAs are symmetric.
- *`MaxEndings`* bounds deletions and resets: one ending leaves state behind and
  the calls after it meet it. It is the only bound of `IoQueues`; queue memory is
  counted but grows only with creations, which need free identifiers, hence
  endings.
- *Storage.* A page is 2 cells, the smallest that has a part. Blocks of a page and of
  half a page, in transfers of 1, 2, 3 and 5 blocks, make every case of the
  copying: part of a page, one, two, three, a last page in part. The namespaces
  have 18, 27 or 54 positions for the generator (5 and 6 bits), which are
  not powers of two, so states are dropped. Three calls are enough for a write, a
  call that fails or resets, and a read. The table of polynomials beyond 6 bits is
  translated, but no sweep is long enough to use it.
- *Drives.* Two, which are twins or not and share a group or not. Six calls are two
  cycles of expose, open and clean, with a failure in between. With 4 starts, set-ups
  and disables each kind meets the others; three commands let two queues hold
  completions while a third is waited for.
- *Pace.* `handshake_settled` has every interleaving within one call; the safety
  properties at any pace are theorems about `Spec` (section 5).

Deadlock is checked except where a behaviour may end: in `QueuePairAny` a
completion nobody claims stops the host, in both dispatch runs a handler may
have raised, in `SimHandshakeEnableLost` the lost enable is the point, and in
`IoQueues` the calls are no longer followed (`Followed`).

### Fairness

- `QueuePair!Fairness`: the user polls (`sync_cmd` loops over `get_completion`),
  the controller fetches while it has an idle unit, every unit finishes. Weak
  fairness suffices since the other side cannot disable these steps for good;
  that a completion queue of one usable slot is freed again follows from polling.
- `SimHandshake`: both threads run, weakly; a poll that can end does. Calls of the
  user are not fair.
- `SimDispatch!SerialSpec`: weak fairness for each thread inside `check_commands`;
  starting a call is not fair.
- `IoQueues!FairSpec`: the user goes on sending I/O (`WF(SendIo)`), needed
  only to say that every queue has its turn.
- `SimStorage`: a program that runs goes on (weak fairness of `SweepStep`, written
  out in `Fairness`).
- `PhysicalDevice`: the user calls `process_completions` again and again
  (`ProcessAll`), strongly, because other calls of his come between; waiting steps
  go on and interrupts arrive, weakly; time is over some time, strongly, because
  each wait is at this point only between two passes. The device need not answer.

## 4. What the violations mean

The core protocol is right under the user discipline the code documents. Four
runs show where code and its own comments or assertions part:

1. A transition of `CC.EN` between a handler's tests and its copy of the registers
   is lost for good; `cc_enable` then fails at its timeout.
2. Overlapping calls of `check_commands` execute a slot that was never written.
3. The simulator's `completion_queues` is never thinned; a pair created again
   under an old identifier gets the old completion queue.
4. `get_data_segments` takes the second page of two-page data for a list and does
   not return it.

Noticed while modelling, without a run of their own (the `hazards` give lines):

- The docstring of `CidMgr` says fewer commands at a time than CIDs suffice. What
  matters is how long one stays outstanding: one that does while the others go
  round is enough. `FreshSpec` states the condition that does suffice.
- `PXDC.IFLR` written between test and copy of the PCIe handler is lost like `EN`.
- A handler that raises in the simulator's thread kills it: the name
  `exception_handler` does not exist there, and `CFS` stays clear.
- The simulator keeps I/O queues across a disable (`Reset` changes only the admin
  pair of `sim`).
- `malloc` rounds the number of pages down, and the number of missing hugepages
  too; an area of one and a half pages shares its last half with the next one.
- `free` clears and unmaps one page of an area of several (`ListLeadsToData` is
  stated for users who do not free such areas one by one, as lone does not);
  `_free_all` and `free_all_memory` skip every other entry.
- With no I/O queue, `get(None, None)` returns a key, and the assertion of
  `start_cmd` tests two integers (`SendIoWithoutQueue`).

- Data of two pages cannot be written to the simulator (`IndexError`) and is read
  back as its first page, with success; data whose last page is partial, from
  three pages on, raises in `set_data_buffer`.
- Format and the log page of supported pages always raise: `nvsim.namespaces` and
  `nvsim.mps` are attributes of the configuration, not of the simulator. The
  assertion for unknown features is a string and always true; the status code is
  then unbound. `complete` sets no status code type: the command specific
  "Invalid Log Page" arrives as a generic status of the same number.
- `SetFeature` with SV set has changed the power state when it raises.
- An unknown NSID in read or write raises instead of failing the command.
- `rw.py` clears `write_prp` where it means the buffer it reads into (line 94).
- `next()` never gives LBA 0; the docstring of the generator waits for the initial
  state, which a caller of `next()` multiplied by the transfer never sees.
- A drive exposed twice: if nvme wins the rescan, `new_id` refuses the identifier
  that stayed with vfio-pci, and `reclaim` does not remove it. Twins: the second
  reclaim fails in `remove_id` with the drive bound to nothing.
- A drive that vfio-pci did not take is reported as usable when another drive of its
  group has made the node.
- An open that fails after it opened the group, and a clean that raises, leave the
  group open; the process cannot open a drive of that group again.
- `create_io_queues` gives all I/O queues vector 1. The assertion in
  `create_io_queue_pair` admits a vector one past the last.
- A queue created while polling keeps its vector in the driver, and the controller
  was told 0; after `init_msix_interrupts` its completions are not seen.
- MSI-X refuses the list of queues that polling takes.
- Copying data that raises in `complete_command` leaves a completion that every
  later look at the queue fails on.

## 5. Proofs

The theorems hold for any sets of commands, units, memories, drives and
identifiers, any sizes of queues, pages and hugepages, any CID range with at least
one value and any number of calls. The assumptions are the named `ASSUME`s of the
modules and two hypotheses, which stand in the theorems that need them:

- `SQEntries - 1 <= CidMax - CidInit` (`SimDispatchProofs`): no more submissions fit
  in the ring than there are CIDs. The driver has 61438 CIDs (`lone/nvme/device`,
  `CidMgr`). An admin queue has at most 4096 entries, and no queue of the tests or
  examples comes near; an I/O queue of more than 61439 entries would break it. The
  bound is exact, and the run has the tight case.
- `WholeSizes` (`DeviceMemoryProofs`): an area asked for has at most a page or a
  whole number of pages, as the queues of tests and examples have (2 to 256 entries
  of 64 and of 16 bytes). `malloc` rounds the number of pages down, so the user of
  any other area writes to a page that is not his, and a list may be put there.

What the run of a module checks on one instance, its theorems say of all:

| Module | Properties of the runs that are theorems |
|---|---|
| `QueuePairProofs` | all safety properties of both runs, and `ImplementsService` |
| `SimHandshakeProofs` | `TypeOK`, `ReadyMeansSameQueues`, `ConfigurationIsPrivate`, at any pace and with resets; `FlrDisables` |
| `SimDispatchProofs` | `ImplementsQueuePair`, `CompletedOnReturn`, `SimulatorNeverReusesCid`, `RaisesOnlyWhenFull` |
| `IoQueuesProofs` | `TypeOK`, `SameDirectory`, `CallsSucceed`, `HostDirectoryIsWhole`, `SubmissionsReachSimulator` |
| `DeviceMemoryProofs` | all six properties of its passing run |
| `SimStorageProofs` | `TypeOK`, `WholePagesAreServed`, `ImplementsBlockStore` |
| `PhysicalDeviceProofs` | `TypeOK`, `OrderlyUseSucceeds` |

### Rings and queue pair

- `QueuePairProofs`, rings: the four branches of `num_entries` compute the distance from
  head to tail (`NumEntriesIsDist`); `is_full` is distance `entries - 1`
  (`FullMeansAllButOne`). The lemmas on how the distance changes when head or tail
  advances carry all proofs about rings.
- `QueuePairProofs`, any user (`Spec`). The inductive invariant is `RingInv`:
  - `PhaseInv`: a slot's phase bit is that of the lap the host is in when the slot
    is pending and the opposite otherwise. `PhaseTellsPending` speaks of the slot
    at the head only and is not inductive: the next slot's bit must be known too.
  - `SqhdInv`: the heads carried by pending completions lie between the host's and
    the controller's, in the order the host will read them. `HostHeadIsBehind`
    alone is lost when the host takes a head from a completion about which
    nothing is known.
  - `CompletionAssertionsHold`, which is inductive with the types.

  From it: `PhaseCorrect`, `HostHeadCorrect`, `AssertionsCorrect` and
  `NoLossCorrect` (an action property: each step keeps pending entries).
- `QueuePairProofs`, a user who respects CID cycles (`FreshSpec`). `FreshInv` adds
  that everything on its way is claimed by the outstanding entry of its CID
  (`ClaimInv`) and that no two entries on their way share a CID (`DistinctInv`),
  without which consuming one completion would take another's claim. From it:
  `ClaimsCorrect`, `OwnResultCorrect`, and `PairImplementsService`: initial states
  and steps map to `CommandService`, each action to one of its actions or a
  stutter. `OneHomeCorrect` needs `HomeInv` too, that every posted command has a
  home; with `DistinctInv` it has one only.

### Life cycle and dispatch

- `SimHandshakeProofs` (`Spec`). `HandshakeInv` says, for each point of the host,
  what the simulator can be doing: from the end of the poll for `RDY = 0` to the
  next enable the simulator is not in `enable` and its copy of `EN` cannot make it
  enter, the registers hold the driver's new queues, and whatever the simulator
  has read of them is what the host wrote. From it `ReadyCorrect` and
  `ConfigurationCorrect`.
- `SimHandshakeProofs` (`SettledSpec`, with resets). From `initiate_flr` to the end
  of the user's wait `HandshakeInv` does not hold, because `EN` is not what the host
  wants. `ResetInv` does: either IFLR is set, its event is pending or about to be,
  and the simulator stands where it has to look at it (`ResetAsked`), or the
  handler has cleared the registers and nothing sets them again (`ResetMade`).
  `ResetBegins` needs that the simulator had settled: its copy of IFLR is clear and
  it is not between the copy and the `clear` of an event. `ResetEnds` leads back to
  `HandshakeInv`. The disjunction of the two is inductive (`SettledInv`); from it
  `SettledSafe`, the safety properties of the run, and `ResetDisables`.
- `SimDispatchProofs` (`SerialSpec`). `ControlInv` says what the program counters,
  the command being started and the two threads' local variables have to do with
  each other. The core of it is that a submission queue holds a command only until
  the host's own thread has fetched it, so that the simulator's thread never gets
  to a handler. It is enough for `SerialImplementsQueuePair`, with no hypothesis on
  CIDs: a handler of the host's thread is a unit, the store into the doorbell a
  step of the pair, the rest stutters. `AnswersInv` is about the completions not
  yet consumed: their phases (`PhasesInv`), their heads, which are exact here
  (`PlacesInv`), the CIDs they carry (`KeysInv`), and how long ago those were
  handed out (`AgesInv`): the CIDs outstanding form a window that ends with the
  next one. Hence a CID comes round only after the ring is full
  (`SimulatorNeverReusesCidCorrect`). `RaisesOnlyWhenFullCorrect` maps the
  completion queue's slots one to one to commands on their way.

### Lists, directories and I/O queues

- `ListTheorems`: the elements of `Keep(s, T)` are those of `s` in `T`, without new
  repetitions (`KeepElements`), and its values in the cases the code depends on
  (`KeepAllButFirst`, `KeepOnlyFirst`, `KeepNone`). `Keep` is a recursive function on
  the places of the list; the induction is written out with the least number of a
  set of numbers, which exists because finite sets are well-founded under
  inclusion, since the library's induction rules take an operator.
- `IoQueuesProofs` (`Spec`). `Inv` is `TypesInv` with three parts. `DirectoryInv`
  says what the driver's directory looks like at any time: the admin pair first,
  the others with both queues and identifiers of their own, and the identifier
  lists those of these pairs, in order. `FirstLifeInv` says that in the first life
  the two directories are the same list with nothing pending, and until the deletion
  that the index is inside it, and that staged completion queues and moved doorbells
  belong to pairs that exist. `SameDirectory` is not inductive without the last: a
  completion queue staged earlier would end up in the new pair. `SubmissionsReachSimulator` is
  inductive with them. `CallsCorrect` follows for each call from what it leaves in
  both directories.

### Device memory

`DeviceMemoryProofs` (`Spec`). `IInv` is the invariant of the manager (`MgrInv`), of
pages lent (`LentInv`), and that areas and the pages of each PRP are mapped and
apart (`HeldInv`). The difficulty is `malloc`: it takes free pages for contiguous
from the *sizes* in them, only the first page of an area has its size, and only
links keep the others from being handed out. Pages left by a call that raised have
sizes and links too. `MgrInv` says therefore:

- `LinkInv`: what is linked is in use and linked to one page; free pages and areas
  are roots, linked to none. Links form trees, and the trees of two roots are apart
  (`TreesApart`).
- `SizeInv`: the pages a size covers beyond its own are in the tree of the page.
  A group of adjacent free pages that becomes an area keeps it (`GroupCovers`):
  between two of its pages there is only what the size of the first covers.
- `IovaInv`: an entry of `malloc_mem` has an IOVA, which is not free and no other
  entry's.

`AreasCorrect`, `IovasCorrect` and `FreeCorrect` follow from it. `PrpInv` says of a
PRP under way and of a live one how addresses, list and directions belong to
`mem_list` (`Filled`), and that the loop of `alloc` ends with the last page, neither
before nor after it (`AllocEnds`, for every number of bytes); hence
`ControllerCorrect`. `CleanInv` says that pages which are not clear belong to
somebody; hence a list is written to a clear page and `ListsCorrect`. It holds
until an area of several pages is freed by `free` (`spansFreed`), which clears only
the first.

### Storage

`SimStorageProofs` (`Spec`; its theorems do not use the fairness in it), for any
namespaces, any sizes of blocks, pages and transfers, any calls and any programs.
The argument goes from the data upwards:

- *Copying.* A buffer has as many pages as its data needs and not one more
  (`PagesForFacts`). What is copied into it comes out as it was, unless it has two
  pages, of which the first is found only (`DataComesBack`); data of one page or of
  three and more whole pages raises nowhere (`FittingIsCopied`).
- *Handlers.* `Written` and `Fetched` say what a write and a read do, answered or
  not, without naming pages (`WriteFacts`, `ReadFacts`). A write that is answered had
  all its data taken out of the buffer; a read may bring less than it was asked for,
  but a block at least, because a block fits in a page. Every call is one of these
  two, an answer that touches no file, or a reset (`ShellHandled`, `SweepHandled`).
- *Invariant.* `IInv` joins the sizes of files, what is known of the last answer and,
  for a program, that its generator is one `__init__` accepted (`SweepOK`): its
  LBAs are numbers only because the register's states are, through every turn
  (`TurnedNat`), and its transfers are not empty. From it `TypesCorrect` and
  `TransfersServed`.
- *Refinement.* `StoredBlocks`: cell `i` of block `l` lies in the slice that was written
  exactly if `l` is a block it names, and then it is that cell of the data. Hence a
  write is `Put` (`WrittenPuts`), a read `Get` (`FetchedGets`), a reset `Erase`
  (`ClearBlocks`), and everything else `Other` or a stutter: `StoreImplemented`.

`SweepsAssumption` says what a program may be run with: a namespace, a transfer, a
first state and a count, all of them numbers.

### Physical device

`PhysicalDeviceProofs` (`Spec`). `HostInv` is about scripts and the process: an
exposed drive is not with nvme; where drives are no twins, `vfio-pci` knows the
identifier of an exposed drive and none of a reclaimed one (`ScriptsInv`); a group is
claimed by one drive of the process, and one that is held without a drive in use is
spoilt (`SessionInv`). `DevInv` is about waiting: `BooksInv`
(outstanding commands are posted, on queues that exist), `AnsweredInv` (a
completion is that of a command the device no longer has), and for orderly use
`EntriesInv`, `VectorsInv`, `SignalsInv` and `WaitsInv`: each completion stands
once, in the queue of its command, which is outstanding; vectors are distinct and
lead to their own event descriptor; and a completion the driver has not been told
of is flying, signalled or in the queue being drained. That is why a wait which gives up has not overlooked anything
(`OrderlyUseCorrect`). Polling and MSI-X are both covered.

### Only model-checked

All safety and action properties of the passing runs are theorems, and so are the
three refinements. What stays with TLC:

- Everything temporal under fairness, which is beyond the provers:
  `EveryCommandCompletes`, `EnableReturns`, `DisableReturns`, `CallsEnd`,
  `EveryQueueHasItsTurn`, `SweepReadsEveryBlock` and `CompletionsAreCollected`.
- That a sweep meets every position once, which is part of `SweepReadsEveryBlock`: a
  fact about the polynomials of the table. What the proofs say of the generator is
  that it gives numbers.
- The properties of the violation runs, which do not hold.

## 6. What is not modelled

Register and structure layouts, the linked lists of PCIe capabilities, status
code and log page tables, and the parameters of the `ioctl`s are declarations, or
built once, without a state that changes. Listing devices, choosing tests,
formatting, logging and hexdump have no behaviour a property is about. The kernel
and the C extension for hugepages are modelled by their answers. The injection
registry is a list nobody in lone but its tests fills.

Timing values are not modelled. In `Completions` time is over when it likes;
`cc_disable` and `cc_enable` of `SimHandshake` wait for ever. Commands that a
controller refuses, and with them the half-made pair of `create_io_queue_pair`,
are left out: every command of `Completions` succeeds when it is answered.

## 7. Plan

Done, in this order, the most important first: rings and queue pair; abstract
service and refinement; life cycle with the simulator; dispatch; directories and
I/O queues; device memory and PRPs; storage, handlers and the generator; the
physical device, its drivers and its completions; proofs of the safety properties
and refinements of all of these.

Next: timeouts of `cc_enable` and `cc_disable` in `SimHandshake`, commands that are
refused in `IoQueues`, a handler that raises in the simulator's thread.

## 8. Running

In this directory, `tlc -config QueuePairAny.cfg MCQueuePair` checks one run (the
pairs of module and configuration are the `runs` of `PROJECT.json`) and
`tlapm QueuePairProofs.tla` checks the proofs of a module. Each run takes at most
a few minutes, each proof module too; the longest are `DeviceMemoryProofs` and
`PhysicalDeviceProofs`.

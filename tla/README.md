# A TLA+ model of AegisOS

AegisOS is a small AArch64 operating system: a C kernel (scheduler, process
table, service supervisor, IPC, block storage, network stack, filesystems) and
Rust programs started from PID 1. The kernel runs on one CPU. System calls run
to completion with interrupts masked and the timer interrupt never switches
tasks, so **one action of a model is one whole system call or handler**.
Concurrency comes from the order of calls by different processes, from the
network, from the block device's cache and from loss of power. The boot runs on
one stack; its actions are the calls it makes.

`PROJECT.json` maps every definition to the lines it models and lists the
components, runs, mutants, findings, hazards and theorems.

## Inventory

| Part | State | Operations | What is hard about it |
|---|---|---|---|
| Boot (`kernel_main.c`, `service_manager.c`, `userland.c`, `elf_loader.c`, `page_isolation.c`, `vfs.c`, `initramfs.c`, `service_ipc.c`, release records) | a table per subsystem, descriptors, mounts, runtime slots, mailboxes | some sixty stages in two builds | which failures panic and which only warn; a stage that relies on what an earlier one left |
| DHCP and bring-up (`net/dhcp.c`, `net/network_control.c`) | lease, address, route, filter, translation | discover, poll, configure | late, repeated and foreign answers, a deadline |
| Scheduler (`scheduler.c`) | task list, task states, current task | create, destroy, run, yield | list edited while it is walked, addresses reused, idle only as a last resort, starvation |
| Process table (`process.c`, `syscall.c`, `userland.c`, `elf_loader.c`, `power.c`) | process records, `live_pid`, descriptors, runtime slots | spawn, ready, exit, kill, wait, yield, console release, shutdown | five records of one process that must agree, early returns half way |
| Supervisor (`service_supervisor.c`) | entries, three counters, shutdown flag | register, running, exit, restart, shutdown | failure window, exponential backoff, budget, kills it is not told of |
| IPC (`ipc/message.c`, `ipc/channel.c`) | queues, channels, names | open, send, receive | ring indices, tables that fill up, failure after an id is taken |
| Storage (`block_storage.c`, `virtio_blk.c`, `fs/aegisfs.c`, `update.c`) | sectors, cache, superblock, directory, update record | format, mount, write; stage, attempt, confirm, roll back | failures at any sector, power loss, reordering, a shared partition |
| TCP and sockets (`net/tcp.c`, `net/socket.c`) | connections, sockets, segments | socket calls, receive | loss, duplication, reordering, full tables and buffers |
| Packet path (`packet.c`, `ethernet.c`, `arp.c`, `ipv4.c`, `icmp.c`, `udp.c`, `routing.c`, `firewall.c`, `nat.c`) | buffer pool, caches, route and rule lists, flows, ports | receive, send, add, delete | a buffer with one owner on every way out, slots reused, a counter that wraps |
| Files (`vfs.c`, `fd_table.c`, `configfs.c`) | mounts, vnodes, descriptor rows, hash table | open, close, exit, kill; get, set, delete, sync, mount | failure between two tables, probe chains |
| Memory (`heap.c`, `physical_memory.c`) | blocks, reserved ranges | allocate, free, reserve | splitting and joining |
| Capabilities, logfs, DNS, IPv6, timers, drivers, Rust programs | | | see "Not modelled" |

`kernel_main` brings up one subsystem after the other and ends with PID 1. A
parent process spawns a program; `sys_spawn` asks the supervisor, takes a
runtime slot, a table entry and a task, and registers the child. An exit
publishes itself to the supervisor and leaves a zombie for the parent to wait
for. Boot mounts AegisFS, tests it and only then reads the update metadata,
which lives on the same partition. A received frame passes Ethernet, IPv4 and
the packet filter before UDP, TCP or ICMP sees it. Sockets and descriptors
belong to processes and are closed with them.

## Modules

| Module | Models | Extends |
|---|---|---|
| `Cpu` | the abstract CPU: tasks are created, destroyed, and any READY one may get the CPU | |
| `Scheduler` | the task list and the round-robin search; `ImplementsCpu` | |
| `SupervisorTable` | `supervised[]` as a value, its entry points as operators | |
| `Supervisor` | the restart policy over time | `SupervisorTable` |
| `ProcessTable` | whole system calls over all records of a process | `Cpu`, `SupervisorTable` |
| `Channels` | one FIFO per channel name | |
| `Ipc` | queue, channel and name tables with ring buffers; `ImplementsChannels` | |
| `BlockDevice` | what reads return, what survives power loss, where requests fail | |
| `AegisFs` | format, mount, self-test, file writes | `BlockDevice` |
| `Update` | the A/B update record at its sector | `BlockDevice` |
| `PersistentStorage` | boot order and both users of the partition | `AegisFs`, `Update` |
| `Tcp`, `Socket` | connection table and `tcp_rx` on several hosts; the socket calls of one process per host | |
| `KernelCore` | what runs before there are tasks; reserved memory | |
| `KernelServices` | kernel services and their dependencies | |
| `Vfs` | mounts, longest-prefix resolution, vnodes, the files of the initramfs | |
| `Userland` | feature catalogue, process descriptors and their layouts | |
| `ElfLoader`, `PageIsolation` | images copied to runtime slots; one page table per descriptor | |
| `BlockRegistry` | devices, the partition layout, what a mount asks of them | |
| `ServiceBoot` | mailboxes, first supervised processes, release records | |
| `Dhcp`, `NetworkControl` | the lease; the bring-up around it | `NetworkControl`: `Dhcp`, `Routing`, `Firewall`, `Nat` |
| `Boot` | both builds as scripts over the modules above | all of them |
| `NetStack` | buffer pool, Ethernet, ARP, IPv4, ICMP, UDP | `Routing`, `Firewall` |
| `Routing`, `Firewall`, `Nat` | the tables and the operations on them | |
| `NetTables` | the same under any sequence of calls, with the rules in force as history | `Routing`, `Firewall`, `Nat` |
| `Files` | descriptors of several processes | `Vfs` |
| `Configfs`, `Heap` | the open-addressed table; the block list | |
| `MCTables` | the tables side by side, and their instance | all of them |
| `SchedulerProofs`, `SupervisorProofs`, `IpcProofs`, `UpdateProofs`, `NatProofs`, `FilesProofs`, `NetStackProofs` | theorems | |

`MC*` modules and `.cfg` files give small instances. Definitions named
`X_Something` directly above `X` are mutants: versions of `X` with a plausible
bug, used to show that a property depends on the code.

How the models abstract:

- **Scheduler.** A task is its heap address, so a freed address can come back.
  Saved registers and the bring-up self-tests are left out.
- **Supervisor.** Statistics that no branch reads are left out. `exits` is
  history: the ticks of real exits, which the properties compare the streak
  with.
- **ProcessTable.** Uses `Cpu` in place of the list; `ImplementsCpu` justifies
  that. Programs are arbitrary: any process may make any permitted call.
  `SpawnOk`, `SpawnKilled` and `SpawnNoTask` are the outcomes of `sys_spawn`.
- **Storage.** Sizes are counted in sectors and a CRC is the value it was
  computed from. An operation issues a sequence of sector writes and a flush and
  stops at any of them; a crash during an operation is a failure followed by
  `PowerLoss`. `allowed` is history: the contents a file may have.
- **Tcp.** `segments` holds every segment ever sent; any of them may arrive at
  any time, again or never. A segment whose `ipv4_send` fails is one that is
  lost. Byte *k* of a stream is the number *k*. `sent`, `read` and `irs` are
  history. Sequence numbers stay far below 2^32, so wrap-around is not explored.
- **Boot.** A build is a sequence of calls and `pc` an index into it. A call
  that cannot succeed panics unless the code goes on after its failure. The
  disk, the place of the device tree, the init program and the link are chosen
  once, in `BootInit`. Addresses are counted in pages, bytes of an image in
  `PageUnits` per page.
- **Dhcp.** Messages the client ever sent may be answered at any later time,
  any number of times or never, by any server they are addressed to. A server's
  name stands for all it hands out.
- **NetStack.** A handler runs to its end without a switch, so a call is a
  function of the list of free buffers and the ARP cache; headers are the fields
  a handler branches on. `pktbuf_free` does not notice a second release: the
  list then holds a buffer twice.
- **Routing, Firewall, Nat.** An address is a tuple of bits and a network a
  prefix of it. Storage slots, counts and links are kept, since slots are reused
  and counts are not lowered. An age that nothing raises is left out.
- **Files.** A process number is never used again. `suicides` is history: the
  processes that killed themselves and still run until they yield.
- **Configfs.** A hash is a constant function of the key, chosen so that keys
  collide. `latest` and `cut` are history. `configfs_mount` is a mount after a
  restart.
- **Heap.** Units of 8 bytes; `owned` is history: what callers hold.

`routing_del`, `firewall_del_rule`, `firewall_flush_rules`, the translation
functions and port forwards of `nat.c`, `configfs` and `krealloc` have no caller
in the kernel yet. They are modelled as what their headers offer: any sequence
of calls with the declared arguments.

## Runs

| Run | Instance | Shows |
|---|---|---|
| `scheduler` | idle, init and two reusable addresses, 4 creations | list and CPU owner consistent, no panic in yield, idle last, dead tasks never run, no starvation, refinement of `Cpu` |
| `supervisor` | 2 services, window 3, budget 2, 8 ticks | counters exact, streak exact, budget, backoff and shutdown respected |
| `process` | control plane of 3, no kills, 6 pids | records agree, parents exist, console gate sound |
| `process_kill` | 4 features, signals 9/18/19, tables that fill, refused shutdown | runtime slots have one owner, `live_pid` names the process |
| `process_wait_frees_live_task` | with kill | **violated**: see findings |
| `storage` | 2 files, update record, devices with and without a cache, faults | tables fit, writes persist on an ordered device, rollback not lost, only confirmed versions active, metadata never goes back |
| `aegisfs_reorder` | caching device | **violated**: see findings |
| `storage_overlap` | data reaches the update sector, no faults | **violated**: see findings |
| `socket` | client and server, 2 connections, 2-byte buffer | bytes in order, acknowledged is taken, one owner |
| `socket_end` | the same | **violated**: see findings |
| `boot` | both builds, every kind of disk, device tree, init program and link, two DHCP servers | a panic has a cause outside the kernel, regions of processes are disjoint, a launched system is whole, the lease is one server's, every boot ends |
| `tables` | channels, packet pool, UDP, rules, routes, translations, vnodes, configfs, heap, one at a time | tables agree, one FIFO per name, buffers return, datagrams stay with their port, rules in order, best route, answers reach the sender, one owner per vnode, get returns the last set, blocks tile the heap |

Bounds and why they are enough. Tables have two to five entries so that they
fill up, entries are reused and one user more is refused. The IPC ring has depth
2 and wraps. The supervisor's clock runs past two windows, so a streak can be
extended, expire and exceed the budget. A file has up to two sectors so that a
write can be cut inside its data. In `storage`, `LbaBound` keeps file data below
the update sector, the case in which the two users do not meet;
`storage_overlap` drops that. The socket buffer holds less than the client
sends, segments carry up to two bytes, and two connections compete for two
slots of which the listener takes one.

In `boot` the kernel's own table sizes are used, since the stages fill them with
fixed contents; only the flows and translations, which a boot does not fill, are
few. `XidMax` allows two discoveries, so that answers to the first arrive during
the second. In `tables` the packet pool has two buffers: an answer that needs an
ARP request wants a third. There are as many ports as translations, the least
`NatAssumption` allows, and the forwarded ports lie inside and outside of the
range. Three keys of a table of three collide and wrap. The heap of 17 units
holds three small blocks and leaves remainders just above and just below what is
split. The parts share no state, so `MCTables` lets one of them run in each
behaviour instead of multiplying their states.

`MaxCreate`, `MaxPid`, `MaxTick`, `MaxGeneration`, `LbaBound`, `MaxConnects`,
`MaxBytes`, `MaxCreates`, `MaxListens`, `XidMax` and `CountBound` bound counters
that the code does not bound. Symmetry is used only for interchangeable task
addresses and services, and in no run that checks liveness. Deadlock is checked
but in the socket runs, where programs may simply be done, in `boot`, which
ends, and in `tables`, where a table may be full for good.

Fairness. `scheduler` and `boot` check liveness. `FairSpec` assumes weak
fairness of `SchedulerRun` and `SchedulerYield`: boot always reaches
`scheduler_run`, and the native programs, idle and the console sit in loops that
yield. A program that never yields does starve the others, since there is no
preemption. `BootSpec` assumes weak fairness of the boot as a whole, one thread
of control with nothing to preempt it, and of `Deadline`: the loop of
`network_control_bringup_live` reads a hardware counter that reaches the deadline
whatever arrives. No fairness of servers or of the network is assumed.

## Proofs

TLAPS proves these for every value of the constants that satisfies the named
assumptions.

- **`SchedulerProofs`**, from `TasksAssumption` and `BootAssumption`. The
  inductive invariant `SchedInv` adds to the checked invariants that idle is
  READY or RUNNING: it is resident and never destroyed, so a yield always finds
  a successor. Theorems: `CpuAndListAreConsistent`, `YieldNeverPanics`,
  `IdleOnlyWhenNothingReady`, `DeadTasksNeverRun`, `SchedulerImplementsCpu`.
- **`SupervisorProofs`**, from `SupervisorAssumption` and `BoundsAssumption`.
  `SupInv` ties each entry to its process, its recorded exits and the clock. Its
  last conjuncts carry the backoff from an exit, over a kill the supervisor does
  not hear of, to the next spawn; without them the action properties are not
  inductive. Theorems: `CountersAreExact`, `StreakIsExact`, `BudgetIsEnforced`,
  `BackoffIsEnforced`, `ShutdownIsFinal`.
- **`IpcProofs`**, from the assumptions of `Ipc`. `TypeOK /\ TablesAgree` is
  inductive; the ring lemmas say what putting and taking do to the sequence a
  ring stands for. Theorems: `IpcTablesAgree`, `IpcImplementsChannels`.
- **`UpdateProofs`**, from `UpdateAssumption` and `JunkAssumption` (an unused
  sector has no valid magic and CRC). `UpdateSpec` has the operations of
  `update.h`, the device and the loss of power, and a neighbour (`OthersWrite`)
  that may write anything but the metadata's sector; `WritesElsewhere` shows that
  a write of AegisFS below the sector is such a step. `UpdateInv` says that each
  of the three copies, in memory, readable and stored, is a good record, and that
  their generations are in order: a copy may always be replaced by the next, so
  neither half is inductive without the copies it is taken from. Theorems:
  `ExhaustedUpdatesRollBack`, `OnlyConfirmedIsActive`, `MetadataNeverGoesBack`.
  `storage_overlap` is what happens when the neighbour does not keep away.
- **`NatProofs`**, from `NatAssumption`: the table is no larger than the port
  range. The port counter never asks which ports are taken; `NatInv` says that
  the ports of entries made for outgoing packets are at distinct distances
  behind the counter, bounded by the number of entries, so the table is full
  before the counter meets one. Theorem: `AnswersReachTheSender`.
- **`FilesProofs`**, from `FilesAssumption`. `FilesInv` restates the property by
  rows and adds that indices stay in a row and processes without a row own
  nothing. Theorem: `OneOwnerOfEveryVnode`.
- **`NetStackProofs`**, from `StackAssumption`. The pool is a stack and handlers
  nest, so each handler leaves it exactly as it was: stronger than what is
  wanted, and inductive. Routes, rules and frames are arbitrary. Theorems:
  `BuffersReturn`, `DatagramsStayWithTheirPort`.

Only model-checked: `NoStarvation` and `BootEnds` (liveness is outside the
prover's reach); `HeapTiles`, `RulesInOrder`, `LookupTakesTheBestRoute` and
`ConfigGetReturnsLastSet`, whose operations are folds or walks over data, which
need induction; the other properties of `Boot`, which are about fixed scripts;
and those of `ProcessTable`, AegisFS and sockets.

## Findings

Each is shown by a run that violates one property; `PROJECT.json` quotes the
comment it contradicts.

1. `process_wait` destroys the task pointer a killed process left behind. The
   address may belong to a running process by then (`process.c:294`).
2. AegisFS flushes once, after data and metadata, and never compares
   `data_crc`. On a caching device a crash can leave a file that mounts and
   reads as something never written (`aegisfs.c:99`).
3. The update record's sector lies in the area AegisFS appends to
   (`update.c:7`).
4. TCP accepts a FIN whatever its sequence number and retransmits nothing, so a
   reader can see the end of a stream with data missing (`tcp.c:236`).

## Further hazards

`PROJECT.json` lists the hazards the properties are aimed at. These are met while
reading the same code. Those marked *modelled* are in the models as they are in
the code, and no property or document says they should be otherwise.

| Where | What |
|---|---|
| `net/nat.c:206` | *Modelled.* last_seen is only ever set to zero, so no entry is older than any max_age and the table fills for good. |
| `net/routing.c:71` | *Modelled.* Deleting a route does not lower route_count: after enough additions and deletions no route can be added to an empty table. |
| `net/firewall.c:209` | *Modelled.* A flush resets the count while later rules reuse the storage; identifiers handed out before name other rules. |
| `net/firewall.c:137` | *Modelled.* A tracked connection is accepted before the rules are looked at, also after the rule that admitted it is gone. |
| `net/ipv4.c:200` | *Modelled.* The first packet to an unresolved neighbour is dropped and the caller is expected to retry; TCP never does. |
| `net/udp.c:92` | *Modelled.* One datagram is kept per socket: a second one that arrives before it is read replaces it. |
| `fs/configfs.c:72` | *Modelled.* A mount takes the entry count from disk but none of the entries, then counts the defaults again. |
| `fs/logfs.c:76` | A mount starts at write head zero without reading what is on disk: after a restart new entries replace the oldest part of the log with sequence numbers that start again. |
| `fs/vfs.c:154` | The filesystem has been mounted when the mount table turns out to be full; nothing unmounts it. |
| `kernel/ipc/capability.c:23` | Indices only grow and revoked entries are not reused: the table is used up by enough grants. |
| `kernel/core/entropy.c:46` | A request that times out leaves its buffer with the device; the late completion is taken for that of the next request. |
| `hal/drivers/ethernet/ethernet.c:66` | After a transmit timeout the shared buffer is rewritten while the device may still read it, and the late completion ends the next wait. |
| `kernel/core/syscall.c:589` | *Modelled.* `sys_shutdown` ends every other process before it looks at the mode, and an unknown mode then returns an error. |
| `fs/aegisfs.c:48` | A name is cut at 79 bytes and looked up uncut, so a longer name never finds its entry. |
| `net/tcp.c:314` | *Modelled.* The ephemeral port has no range and no check against ports that are listened on. |
| `net/tcp.c:243` | The payload length is that of the frame, so the padding of a short frame counts as data. |
| `net/nat.c:197` | *Modelled.* A forwarded port is entered with address and port 0 for "Any source", and `nat_find_inbound` compares them like any other: no real source matches. |
| `net/tcp.c:396` | *Modelled.* Closing a listener leaves the connections it has not handed out; only a new listener on the port can reach them. |
| `net/socket.c:41` | *Modelled.* Listening twice on a socket takes a second listener and forgets the first. |
| `kernel/core/process.c:237` | *Modelled.* Signal 19 stops a process in the table only: its task goes on running. |
| `fs/aegisfs.c:95` | *Modelled.* A write that finds no room has taken and counted a directory entry. |
| `kernel/core/syscall.c:277` | `sys_mmap` that runs out of pages half way leaves the pages before mapped. |
| `kernel/core/timer.c:58` | A periodic timer that its own callback cancels is made active again. |
| `userland/service-manager/src/main.rs:437` | A service counts as ready for its dependants as soon as its process exists. |
| `rustmyadmin/src/auth/csrf.rs:33` | The lock is released between the look for a token and the making of one: two requests of a session can replace each other's token. |

## Not modelled

`PROJECT.json` gives the reason for each part. In groups:

- **Hardware below the C code**: page-table contents, exception frames, the
  virtqueue and register-level drivers. A model would have to invent what the
  hardware does. One listed hazard, a block request that completes after its
  timeout (`virtio_blk.c:76`), is not covered for this reason.
- **Code without callers or state**: capabilities (none is ever created), logfs,
  the DNS resolver, software timers, IPv6.
- **Algorithms over bytes**: checksums and header layouts, parsing of ELF and
  initramfs headers, cryptography and signatures.
- **Output**: console commands, logging, rendering.
- **The Rust programs**: `ProcessTable` lets any process make any call in any
  order, which includes what the native ones do; the hosted ones run host
  commands and keep their state on the host.

Of the modelled parts, these are left out: datagram sockets of `socket.c` (UDP
itself is in `NetStack`), the offset and access mode of a descriptor, `sys_mmap`
and the pages of a running process, the scheduler's bring-up self-tests, the
controlled EL0 transition that nothing calls, and `dhcp_release`.

# TLA+ models of the networking and operating-system projects

The repository holds course projects. Four of them carry concurrent, stateful or
failure-prone core logic of their own and are modelled here:

* **TCP-like UDP** (`TCP-like UDP Congestion Control Reliability COL672_A4 /`):
  Part 1, a reliable file transfer over UDP, and Part 3, the same with a CUBIC
  congestion window;
* **Signal Handling And Scheduling** (`Signal Handling And Scheduling COL633_A2/`):
  the xv6 process table with a priority scheduler, delayed and time-limited
  processes, and signals sent by control keys;
* **Memory organization and Page replacement policy** (`... COL633_A3/`): the xv6
  page allocator with a swap area and adaptive swapping;
* **World of SDN** (`World of SDN Switch-Router-Minimum-Spanning-Tree COL672_A3/`):
  four OpenFlow controllers and the switches they program.

The others are inventoried below; section 5 says why they are not modelled.
Paths in this file are relative to the repository.

## 1. Inventory

| Component | State it keeps | Operations | What is hard | Status |
|---|---|---|---|---|
| UDP transfer, Part 1 (`Part1/Q1_server.py`, `Q1_client.py`) | server: window, unacknowledged packets, duplicate-ACK count; client: expected offset, receive window, timer thread, file | connect, send window, handle ACK, time out, fast recovery, EOF; buffer, write, reject, delayed ACK | loss, duplication, reordering, a timer thread that captured an old value, the end handshake, starved time-outs | modelled |
| UDP transfer, Part 3 (`Part3/Q3_server.py`, `Q3_client.py`) | as above with window, last maximum, slow-start count | as above, window growth and halving | as above; window arithmetic, what counts as a duplicate ACK | modelled |
| UDP transfer, Part 2 (Reno) | as above with slow-start threshold | as above | server and client number bytes differently | not modelled |
| xv6 process table (`proc.c`, `trap.c`, `console.c`, `sleeplock.c` of COL633_A2) | the table: state, parent, killed, suspended, start_later, exec_time, channel; each CPU's process; locks | fork, custom_fork, scheduler_start, exit, wait, kill, sleep, wakeup, the scheduler, interrupts, SIGINT/SIGBG/SIGFG/SIGCUSTOM | interleavings of CPUs and interrupts, lost wakeups, unlocked writes, signals in any state | partly (SIGCUSTOM, `exec` and the numbers of the priorities are not) |
| xv6 memory (`pageswap.c`, `kalloc.c`, `vm.c`, `proc.c`, `exec.c`, `trap.c` of COL633_A3) | free list and its counter, swap slots, page tables, rss, threshold | kalloc, kfree, swap_out, handle_pgfault, adaptive_swap; sbrk, fork, exec, exit, wait | swapping in the middle of a call, full swap area, counters kept in several places | partly (foreground programs on one CPU) |
| xv6 history, block, chmod, login (COL633_A1) | history array, per-process block masks, modes | exit's recording, block/unblock, exec, chmod | inheritance of masks, the bound of 200 | not modelled |
| Socket servers (COL672_A2) | `is_busy`, mutex, request queues | REQUEST, BUSY?, collision, FIFO and round robin | a mutex kept across returns, back-off | not modelled |
| SDN controllers (`p1_hub.py`, `p1_learning.py`, `p2_spanning_tree.py`, `p3_spr.py` of COL672_A3) | learned ports, flow tables, link table, tree | packet-in, link events, compute_mst | queued events against a moving link table, rules that are never withdrawn | partly (no switches that join or leave) |
| UDP experiments (`p1_exp.py` ...) | none | run and time the programs | none | not modelled: no logic |
| Rest of xv6 (`fs.c`, `log.c`, `bio.c`, ...) | | | | not modelled: third-party kernel as distributed, seen only through the calls that `ProcTable` makes |
| Cryptography and traffic analysis | | scripts over fixed data | none: sequential, stateless | not modelled |

How they interact: the server and the client of the transfer share only the two
directions of the UDP channel; inside the client the main thread and the
`threading.Timer` share the socket and the value the timer captured. In the
kernel every CPU, every interrupt and every system call shares `ptable`, and
sleepers meet wakers by channel: `wait()` on the parent's own slot, the console
buffer, a disk buffer, a sleep-lock. In the memory project every `kalloc()`, from
whatever call, may evict a page of any process, the caller's own included. An SDN
controller handles one event at a time from its queue, while the switches it has
programmed forward frames and discovery changes the link table.

What makes each one correct:

* transfer: the client's file is always a prefix of the server's; the server
  never discards what the client lacks; nobody reports completion early; a
  transfer over a network that delivers now and then completes;
* process table: a process runs on one CPU at most; everybody has a living parent;
  the dead stay dead; no wakeup is lost; a delayed process waits for
  `scheduler_start()` and is found by it; a killed process ends; zombies are reaped;
* memory: a page holds what its process stored there last, wherever it is; no
  frame is lost or has two owners, and no swap slot two; the counters the policy
  relies on promise nothing that is not there;
* SDN: frames do not multiply, rules lead to the hosts they are for, the tree
  follows the known links, and frames arrive while the network is still.

`PROJECT.json` lists the hazards of all of these, each at its line.

## 2. Modules

| Module | Role |
|---|---|
| `FileDelivery` | abstract specification: what a file transfer promises |
| `UdpTransfer` | Part 1, server + client + timer thread + network |
| `MCUdpTransfer` | the file that its run transfers |
| `UdpTransferProofs` | theorems about `UdpTransfer`, with proofs |
| `UdpCongestion` | Part 3, extends `UdpTransfer` by the congestion window |
| `MCUdpCongestion` | the file that its runs transfer |
| `UdpCongestionProofs` | theorems about `UdpCongestion`, on top of those of Part 1 |
| `ProcTable` | the xv6 process table, scheduler, traps and signals |
| `ProcTableProofs` | theorems about `ProcTable` |
| `SwapArea` | the page allocator, the swap area and the calls that need memory |
| `SwapAreaProofs` | its basis: where processes are inside calls, who can run, page tables |
| `SwapFramesProofs` | theorems about its frames and `free_pages` |
| `SwapContentProofs` | theorems about its types, slots, `rss` and the contents of pages |
| `SpanningTree` | `compute_mst()` as an operator, and what a forest is |
| `SdnControllers` | the four controllers, their switches, discovery and wires |
| `MCSdnControllers` | the wirings and hosts of its run |
| `SdnControllersProofs` | theorems about `compute_mst()` and about the controllers |
| `NumberFacts` | lemmas several proofs need: finite sets of numbers, recursive functions |

Each module that models code ends with its properties. A definition whose
comment begins with "Mutant" is not part of the model: it is the faulty form of
the definition after it, used to see that a property can tell the two apart.

### 2.1 UdpTransfer

Sequence numbers are byte offsets, as in the code. The server's `spc` and the
client's `cpc` say where the two loops are:

| `spc` | `send_file()` | `cpc` | `receive_file()` |
|---|---|---|---|
| waiting | no client yet (108-124) | connect, awaiting | sends START, waits for ACK_START (31-42) |
| filling | the loop that fills the window (127-150) | receiving | blocked in `recvfrom` (47) |
| receiving | blocked in `recvfrom` (153-158) | writing, finishing | in `write_receive_window` (162-171) |
| done | left the loop (236-239) | done | left the loop (67) |

One action is one turn of an inner loop or one handled datagram with everything
the code does for it: `AfterReceive` is the end of the server's loop and is part
of every action that reaches it, and not of `ServerIgnores`, whose `continue`
skips it. `ClientBuffers` stores the packet and starts the timer with the value
`expected_sequence_number` has *before* the buffer is written, because that is
what the `Timer` captures; `DelayedAck` is that thread, and may run between any
two steps of the main thread.

The network is two sets of datagrams in flight. A received datagram may stay
(duplication), any may vanish (loss), and sets have no order.

Abstracted: the round-trip estimate and the time-out interval (a receive may
time out whenever it is blocked), `send_time`, the encoding of packets in JSON
and base64, the socket errors that end a process.

### 2.2 ProcTable

A process is named by its slot; 1 is init, 2 the shell, the others the user's
programs. `pc[p]` is where the process continues: in user mode or in the kernel
function whose next step it is. A stretch of code under `ptable.lock` is one
action. Interrupts come between the steps, which is where the code has them
enabled: in user mode, and in system calls while no spinlock is held. That is
why entering a sleeping system call is a step of its own, why `fork()` is three
steps and `custom_fork()` four more, one for each field it writes without the
lock, and why a CPU whose scheduled process keeps `ptable.lock` (`wait()` looking
for children again) keeps it in `lock` until its next step.

| Action | Code |
|---|---|
| `Schedule` | `scheduler()`, and the return into `sleep()`, which clears the channel and calls `exit()` for a killed process |
| `EnterKernel`, `Return` | `trap()` around a system call |
| `Fork`, `CopyProcess`, `ForkReturns` | `allocproc()` makes an EMBRYO; `fork()` copies the process and sets the parent, without the lock; it makes the child RUNNABLE |
| `FindChild`, `SetStartLater`, `SetExecTime`, `SetState` | `sys_custom_fork()` after `fork()`, without the lock: it looks the pid up and writes the three fields one by one |
| `SchedulerStart`, `KillSome`, `Exit` | the functions of these names |
| `WaitReaps`, `WaitFails`, `WaitSleeps` | one scan of `wait()`, by outcome |
| `Read` | `consoleread()`: a line is there, or sleep |
| `Open`, `OpenReturns`, `ReleaseInode` | `acquiresleep()` on an inode, a disk read under it, `releasesleep()` |
| `Wakeup` | a device interrupt |
| `Timer`, `SendSignalToAll` | the clock and the control keys, each with the end of `trap()` (`TrapEnds`) on the CPU it interrupted |
| `Sched`, `ChargeTime` | `sched()` and what the scheduler does when the process comes back: the time limit |

Abstracted: ticks and priorities. The scheduler chooses any process it does not
skip, and a process with a limit may have used it up whenever it gives up a CPU;
this contains every schedule that some assignment of priorities and run times
produces. The arrival of an interrupt at any CPU contains the routing to one.
The devices are two: the console and the disk; the file system is one inode
lock with one disk read under it. Not modelled: SIGCUSTOM (the handler runs on
the user's stack), `sys_sleep`, failures of `kalloc`/`copyuvm` in `fork()`,
`exec`, the exit of the shell (it loops), `kill()` of init (whose exit is a panic)
or of the shell, the reports of the profile. `exit()` begins at its
`acquire(&ptable.lock)`: before that it closes files and gives back the directory
(`proc.c:264-274`), which may sleep, and `sleep()` of a killed process calls `exit()`
once more.

### 2.3 UdpCongestion

Extends `UdpTransfer`: datagrams, network and the client's steps that did not
change are reused, and every step of the server is a new action that says what
Part 3 does to the congestion window. The differences that matter:

* the window (`WINDOW_SIZE` in the code, `window` here) is set at the top of each
  turn (`SizeWindow`): `2**ITERATION` up to the limit, then the CUBIC function.
  That function grows with time since the last loss from half of `MAX_WINDOW`;
  the model takes any value from that half to the constant `WINDOW_SIZE`, which
  bounds how far it is followed. Fractions show only rounded up;
* new packets leave only after an ACK has moved the base (`MayFill`);
* `last_ack_received` is the ACK less the length of the chunk read last. Until the
  end of the file has been read that is below the base, so ACKs that ask for a
  packet in flight are "old" and stale ones count as duplicates: fast recovery
  then halves the window and finds nothing to send (3.1, the violated run);
* a late START or any datagram that is not JSON ends the server (`CubicCrashes`);
* the client writes everything that follows before it sets the global offset
  (`CubicWrites`), and the timer thread sends the global, not what it captured
  (`CubicDelayedAck`).

### 2.4 SpanningTree and SdnControllers

`SpanningTree` has `compute_mst()` with its union-find (path halving, ranks, edges
in sorted order) as a function of the set of known links, and independent graph
notions (`IsForest`, `SameParts`, `NextHops`) it is checked against.

`SdnControllers` has one controller, chosen by `app`, its queue of events, the
rules of every switch, the copies of frames on the wires and Ryu's link table.
A port is named by what is at its other end.

| Action | Code |
|---|---|
| `PacketIn` | `packet_in_handler()` of the controller: `HubPacketIn`, `LearningPacketIn`, `TreePacketIn` |
| `TopologyChange` | `topology_change_handler()`: reads the link table and computes the tree |
| `TableHit`, `TableMiss` | a switch with and without a matching rule (external) |
| `DiscoverLink`, `LoseLink`, `CutWire` | Ryu's discovery and the wires (external): the table changes at once, the event is queued |
| `HostSends` | a host (external) |

A handler uses the link table of the moment it runs and the tree of the last
handled event, as the code does with `get_link()` and `self.mst`. One look at the
table stands for the several `get_link()` requests of one handler
(`p2_spanning_tree.py:225-232`). `p3_spr.py` is
the fourth controller (`spr`): `send_lldp_packet()` is called with an identifier
where it needs a datapath and raises, so the tree is never computed and the rest
behaves like the spanning-tree controller without a tree. That is why
`EveryFrameArrives` leaves it out.

Abstracted: addresses, ports' numbers, logging, and what Ryu sends to a switch
takes effect at once. Not modelled: switches that join or leave, frames buffered
in a switch, IPv6 frames (ignored by the code), link delays.

### 2.5 SwapArea

The state is that of `kalloc.c` (free list, `free_pages`, contents of frames),
`pageswap.c` (slots, blocks, `Th`, `Npg`) and of each process (`pgdir`, `sz`,
`rss`, one frame for page directory, page tables and kernel stack). `kernel[p]`
is where a process is inside a call; the calls that need memory go through
`kalloc()` page by page, and `kalloc()` through `swap_out()`:

| Action | Code |
|---|---|
| `KallocTakes`, `KallocFindsNone` | the two attempts of `kalloc()`; the test of `adaptive_swap()` |
| `SwapOut`, `SwapOutDone` | victim, page and slot are chosen and written; the entry is changed and the frame freed |
| `Sbrk`, `SbrkPage`; `Fault`, `SwapRead`, `SwapIn` | `growproc()`/`allocuvm()`; the page fault |
| `Exec`, `ExecPage`, `ExecDone` | the new image beside the old one; commit and `freevm()` |
| `Fork`, `ForkKernelPage`, `CopyLooks`, `CopyPage` | `allocproc()`, `copyuvm()`, the end of `fork()` |
| `Shrink`, `Exit`, `Wait` | `deallocuvm()`; the slots freed by `exit()`; what `wait()` frees |
| `Touch` | a program's load or store (the paging hardware) |

`stored` and `overrun` are history: what a process stored last, and whether a
slot was ever asked for with none free, when `swap_alloc()` gives out slot 0.
`panicked` ends a behaviour; it also stands for following the stale or null page
directory of a child that `fork()` is still building (`pageswap.c:189`, 323-348,
370-402), which in the code corrupts memory. Everything said below of pages and
frames is said of behaviours up to that point.

One CPU and foreground programs: a process that forks waits for its child before
it touches memory again, as init and the shell do. With background programs the
wait for the disk in `swap_out()` lets the victim change a page that is being
written, and permissions are left out. `exit()` passes `deallocuvm()` its sizes in
the wrong order (`proc.c:255`), so a zombie keeps its pages until `wait()`, as in
the model; `fork()` of a process with a page in the swap area panics. The first
process starts commands; it neither execs, shrinks nor exits. Also left out:
`sbrk()` to a size of zero, which frees every page, returns -1 and leaves `sz`
(`proc.c:162-163`); page faults in kernel mode, which `trap.c:114-128` handles like
any other (the buffers of `read()` and `write()`, the arguments that `exec()` reads);
a page fault while `exec()` copies the arguments to the new stack (`exec.c:75-91`);
and the failing paths of `exec()`.

## 3. Runs

### 3.1 File transfer

| Run | Result | Shows |
|---|---|---|
| `udp_transfer` | holds | seven bytes in four packets, windows of three packets, any loss, duplication, reordering: types, prefix, ACKs, retention, windows, completion, the refinement of `FileDelivery`; with fast recovery a transfer whose first ACK arrived completes although no time-out is relied on |
| `udp_cubic` | holds | Part 3, five bytes in three packets, windows of one to four: prefix, ACKs, retention and the refinement again, which says when either side may report completion; the window never vanishes |
| `udp_fast_recovery` | violated | Part 3, same instance: an ACK is counted as a duplicate though the packet it asks for was acknowledged long ago, so fast recovery has nothing to send |

`TransferCompletes` names the parts of the protocol it does not speak about. It
asks for fast recovery, because any datagram restarts the wait in `recvfrom()`:
without it, ACKs that keep coming postpone the retransmission for ever. It
starts at the first new ACK, because `last_ack_received` is -1 until then and
repeated ACKs of offset 0 are "old", never duplicates; and with a connected
client, because ACK_START is sent once and is not repeated when it is lost. It
ends at the server, because the EOF packet is sent once too: when it is lost the
client repeats its last ACK for ever to a server that has left.

There is no such property for Part 3. Its fast recovery resends nothing before the
end of the file has been read (`udp_fast_recovery`, and theorem
**FastRecoveryResendsNothing**), so a lost packet waits for a time-out that ACKs
postpone. That is not what `Q3_server.py:264-281` offers, and a finding of
`PROJECT.json`.

Bounds. Four packets, the last one short, with a window of three: the window
slides, a packet in the middle is missing while later ones wait in the buffer,
and the end of the file is met with packets outstanding. Nothing else is
bounded: duplicates are sets, and the duplicate
counter is kept at its threshold because it is compared with nothing else. No
packet of the file is the end mark: with packets of two bytes none can be the
three bytes of it, so the runs do not meet a file that contains the mark. The
safety properties of both parts are proved for all files and windows (section 4).

The runs of Part 3 have three packets and a receive window of two, a slow-start
limit of one and a largest window of four packets: slow start, the step into
CUBIC, growth and both halvings are met, and the window exceeds the receive
window, so packets are rejected and asked for again.

Fairness (`FairSpec`). Each loop that can take a step takes one: the processes
are running programs, and their receives are bounded by time-outs. The timer
thread fires. *No* fairness is assumed of the server's time-out alone, because
any datagram restarts the wait. The channel delivers, infinitely often, the ACK
and the data packet that are in flight infinitely often (`FairChannel`). Loss is
unrestricted otherwise: START, ACK_START and EOF may be lost every time.

### 3.2 Process table

| Run | Instance | Result | Shows |
|---|---|---|---|
| `proc_smp` | 2 CPUs, 4 slots, kill, files | holds | one CPU per process, living parents, the dead stay dead, no lost wakeup in `wait()` or at the inode's lock |
| `proc_live` | 1 CPU, 4 slots, Ctrl-C, kill, fair | holds | init reaps every zombie it has; a killed process ends wherever it was |
| `proc_signals` | 1 CPU, 4 slots, all three keys | holds | living parents, the dead stay dead |
| `proc_delayed` | 1 CPU, 4 slots, custom_fork | holds | living parents; `scheduler_start()` finds every process that waits for it |
| `proc_start_later` | 1 CPU, 3 slots, custom_fork | violated | a clock tick after `proc.c:583` lets a process marked `start_later` run, though nobody has called `scheduler_start()` |
| `proc_shell_twice` | 2 CPUs, 3 slots, Ctrl-C | violated | a key makes the running shell RUNNABLE, and the other CPU runs it too |

The violated runs are findings of `PROJECT.json`, with the line of code and the
comment each disagrees with. The passing runs are divided as they are because the
code does these things as well:

* a key makes the running shell RUNNABLE (`proc_shell_twice`): the runs with keys
  have one CPU;
* `sleep()` calls `exit()` for a killed process (`proc.c:467`), with the sleep-lock
  of its caller held, though the comment at `proc.c:506` says it will not exit
  until it returns to user space: `proc_live` has no files, since the inode
  lock left behind keeps later processes from ending;
* `sys_custom_fork()` writes the child's fields without `ptable.lock`
  (`proc.c:583-587`): the child may run and exit meanwhile. A dead
  child is made RUNNABLE again, so `proc_delayed` does not ask for `DeadStaysDead`.
  Ctrl-C in between leaves a killed process in `WAITING_TO_START`, and after Ctrl-B,
  which gives the child to init, the write can go to a slot that was freed:
  `proc_signals` has no `custom_fork`, and `proc_delayed` no keys;
* Ctrl-C after Ctrl-B leaves `suspended` set, and the scheduler skips the process for
  ever (`proc.c:649`): `KilledEnds` is asked for without Ctrl-B;
* Ctrl-B makes init the parent of zombies without waking it (`proc.c:663`):
  `NoLostWakeup` is asked for without keys.

A sleeper on a device is not a matter of `NoLostWakeup`: the console and the disk
wake their sleepers at any time in the model, whether or not there is news.

Bounds. Four slots are init, the shell and two programs: enough for a program
with a child, for a child whose parent dies first, for a slot that is freed and
used again, and for two processes that compete for the inode. Two CPUs are the
fewest where a process can be woken, killed or reaped while it is on another
CPU. In `proc_live` two programs fork, exit, kill and are killed. Nothing is
counted, so no other bound is needed.

Fairness (`FairSpec`). A step of kernel code whose process is on a CPU is taken
eventually (strong fairness, since clock ticks come between: a tick is long
enough for the code between two of them). A scheduler that has a CPU to give again
and again leaves no process eligible for ever (`FairScheduler`), because a
process's priority grows with its waiting time and falls with its running time
(`proc.c:729`). The clock ticks on every CPU, and devices answer. User programs may
compute for ever; only the shell is known to return to reading the console and to
give the CPU up (`[]<>(running[c] # shell)`). That has to be said apart from the
clock: Ctrl-C makes the running shell RUNNABLE, and the clock takes the CPU only
from a process that is RUNNING (`trap.c`). Nothing is assumed about keys, kills or
forks.

### 3.3 SDN controllers

`sdn_switching` holds: for the hub, the learning switch and the two tree
controllers, no host receives a frame twice (`AtMostOnce`), every learned port and
every rule leads one switch nearer to its host (`RulesLeadToHost`), the tree is a
forest at every moment and spans the known links once no event is pending
(`TreeIsCurrent`), and in a network that does not change every frame arrives
(`EveryFrameArrives`).

Bounds. Five wirings of four switches: a line, a star, a ring, a ring with one
chord and the full mesh, with hosts at two switches that are not neighbours in
the ring. The hub and the learning switch run on the wirings without a cycle
only; they are not meant for others. Two frames are the fewest where the second
meets what was learned from the first. One fault, on the line: a link that
discovery loses and finds again, or a wire that is cut. Faults are not asked of
rings: while a link is unknown its two ports count as hosts' ports, so a ring is
flooded in circles until discovery has found it again (`p2_spanning_tree.py:232`).

Fairness. Frames on a wire are switched, and packet-in events are handled: the
switches and the controller's thread keep running. Nothing makes a host speak,
and nothing makes discovery find a link.

### 3.4 Swap area

| Run | Result | Shows |
|---|---|---|
| `swap_area` | holds | pages keep their contents, the frames are partitioned, slots have one owner, `rss` and `free_pages` never promise what is not there |
| `swap_fork` | violated | `copyuvm()` reads the parent's entry before the `kalloc()` that may swap that page out: the child gets what the freed frame holds |

`PagesKeepTheirContents` and `SlotsHaveOneOwner` hold until `swap_alloc()` is called
with every slot in use; it compares its loop index with `NSWAPBLOCKS` instead of
`NSWAPSLOTS` (`pageswap.c:134`) and returns slot 0, whose page is lost. The counters
may be too low, which the properties allow: `kfree()` does not count while
`free_pages` is zero, and `exec()` lowers the new image's `rss` by the pages of the
old address space, so the victim is not always the largest process.

`RssNeverTooHigh` is about the table that `rss` counts. It does not rule out the
panic "no victim page": a child that `fork()` is building has a positive `rss` and no
page directory yet, and in `exec()` of two pages or more the new table's pages are
counted while the old one's are searched, which `adaptive_swap()` may all have put
out. The run reaches the first case; its programs have one page, so the second,
which the theorem covers, takes a larger `ProgramPages`. A slot that nobody names
any more (`vm.c:241`) is allowed too: no property says that slots are not lost.

Bounds. Two processes, two pages each, six frames and two slots: the free list
gets empty, the swap area full, a parent's page is evicted for its child and the
child's for itself, a slot is used again. `BETA` is 50 so that the threshold gets
low enough for the second attempt of `kalloc()`; with the shipped 10 it stays at
nine or more. `swap_fork` has one frame and one slot more, so that the eviction in
`fork()` comes from `adaptive_swap()`.

Deadlock is not checked where a system really stops: both ends of a transfer
stop, hosts stop speaking, and after a panic or with every process asleep for a
key the kernel has nothing to do.

## 4. Proofs

Every safety invariant of the passing runs is proved, and the refinement of
`FileDelivery` by both transfers, for every value of the constants that the
`ASSUME` of the module allows. Where a theorem has a further hypothesis it is
named below with the reason: TLC finds the property violated without it.

| Module | Proves | Under |
|---|---|---|
| `UdpTransferProofs` | all safety properties of Part 1, the refinement | `NoEofChunk` for the client's end and the refinement |
| `UdpCongestionProofs` | all properties of Part 3, the refinement | `NoEofChunk` for the refinement |
| `ProcTableProofs` | all safety properties of the process table that hold | the kernels named in 4.3 |
| `SwapFramesProofs`, `SwapContentProofs` | all properties of the swap area | `SwapAssumption`; up to a victim that `fork()` is still building (2.5) |
| `SdnControllersProofs` | `compute_mst()`, types and the tree; rules and frames | `CyclesStay` for rules and frames |

What the modules assume of their constants:

* `TransferAssumption`: positive sizes, a file that is a sequence;
* `CongestionAssumption`: a first maximum within the largest window followed, which
  is not below what slow start reaches;
* `ProcAssumption`: two slots at least (init and the shell), finitely many CPUs;
* `SwapAssumption`: a first program that fits into the frames; percentages that
  cannot take the threshold to zero (`BETA` below 100; the code has 10); no frame
  is named 0, which `kalloc()` returns for "none";
* `NetworkAssumption`: finitely many switches with numbers for identifiers, hosts
  that are not switches, at most one wire between two switches, and addresses
  and ports that cannot be confused.

### 4.1 Transfer, Part 1

`UdpTransferProofs` proves, for every file, packet size, window, threshold and
either setting of fast recovery, under `TransferAssumption` only (positive
sizes, a file that is a sequence):

1. `PrefixInv` - types; the end is noted only at the end of the file; every
   buffered payload is the chunk of the file at its offset; what was written is
   the prefix of length `expected_sequence_number`. The prefix property alone is
   not inductive: writing appends what is *buffered*, so the buffer has to be
   known to hold chunks, and the packets in flight too (part of the type). This
   gives **TypeCorrect** and **OutputCorrect**.
2. `AckInv` - `PrefixInv`, no ACK ahead of the client, every packet from
   `window_base` on still held, a finished server has everything acknowledged,
   everything sent lies in the window. The retention property is about the
   client's offset, which the server does not know; it becomes inductive when
   stated about `window_base`, which `AcksNameWrittenBytes` relates to the
   client. This gives **AcksCorrect**, **LackingRetained**, **WindowsFit** (for
   `WINDOW_SIZE <= RECEIVE_WINDOW`, which the configured 5 and 5 packets
   satisfy) and **ServerDoneCorrect**.
3. `CloseInv` - an EOF payload in flight, or a client that leaves, means that
   the server is done. It needs `NoEofChunk`: no packet of the file holds
   exactly the mark, which the client would take for the end whatever its
   sequence number (`Q1_client.py:54`). This gives **ClientDoneCorrect** and, with the two invariants above,
   **ImplementsDelivery**: every step of the transfer is a step of
   `FileDelivery` or leaves its variables unchanged.

4. `RoomInv` - what is buffered lies on packet boundaries between the two edges of
   the receive window. When the packet at its lower edge is missing, at most
   `RECEIVE_WINDOW - 1` others fit in between. This gives **WindowHasRoom**: the
   packet the client waits for always fits, and the branch for a full window
   (`Q1_client.py:103`) is dead.

The lemmas about `Chunk` (its length, the prefix it extends, that no packet
starts inside another) carry the arithmetic; the step lemmas have one case per
action.

### 4.2 Transfer, Part 3

The invariants follow those of Part 1, with the client's run of writes inside one
step. What the loop of `write_receive_window()` leaves behind is a recursive
function in the model (`Following`). It is shown to exist by construction and
to be unique by a least offset where two would differ, which stands in for the
induction over data that the provers do not offer (`NumberFacts`).

1. `CubicPrefixInv` gives **CubicOutputCorrect**; `CubicAckInv` gives
   **CubicAcksCorrect** and **CubicLackingRetained**. The timer sends the client's
   global offset of the moment, which is set only after the bytes are written:
   no ACK is ahead of `expected`, which only grows.
2. `RecoveryInv` - before the end of the file has been read `last_ack_received`
   stays below the base, and until a chunk has been read nothing is on its way
   (`FirstChunk`). An ACK that equals it is stale and asks for nothing the server
   holds, so no ACK makes the server send anything: **FastRecoveryResendsNothing**.
   Such ACKs are counted, though, and do halve the window.
3. `WindowInv` - in slow start `2^ITERATION` is twice the window, and the last
   maximum stays in the range of the window. This gives **CubicTypeCorrect**.
   The window itself may be anything in its range, so the bound on the
   slow-start count is what needs the strengthening.
4. `CubicCloseInv`, under `NoEofChunk`, gives **CubicImplementsDelivery**.

### 4.3 Process table

Three hypotheses about the kernel occur:

* `Serial`: no control keys, and one CPU or no `custom_fork()`;
* `Exclusive`: one CPU, or neither control keys nor `custom_fork()`;
* `NotBoth`: no Ctrl-B or no `custom_fork()`.

**NeverOnTwoCpus** shows that under `Exclusive` no process is on two CPUs
(`OneCpuEach`). Elsewhere it can be: a key makes the running shell RUNNABLE (the
violated run), and `custom_fork()` writes the state of a child that may be
running on another CPU. The properties below are therefore proved in the form
`Spec /\ []OneCpuEach => []...` for every kernel, with a corollary for
`Exclusive`.

1. `FamilyInv` - what is on a CPU lives and is awake (`OnCpuAwake`), init and the
   shell cannot be made to exit (`SystemLives`), a free slot has no parent, and the
   child a process is forking is in use, is nobody else's to fork, and stays the
   forker's own (`ForkHoldsChild`). `ParentsAlive` alone is not inductive: a reused
   slot must not be anybody's parent, a process that forks must not be reaped, and
   what `exit()` hands to init must find init alive. This gives **ParentsStayAlive**
   under `NotBoth`, and **ParentsAreAlive** under `Exclusive` as well. `fork()` sets the
   parent of an EMBRYO late (`proc.c:226`), so the property speaks of a child from
   the end of its `fork()`. With both Ctrl-B and `custom_fork()` TLC finds it violated
   even on one CPU: init reaps the child, and `custom_fork()` writes the state of a
   free slot. With two CPUs and `custom_fork()` a parent may die.
2. `KernelInv` adds `CpuInv`: RUNNING is the state of what is on a CPU, and nothing
   is suspended. This gives **RunningCorrect** under `Serial`. A key makes the
   RUNNING shell RUNNABLE while it is on its CPU, so it does not survive keys even
   on one CPU, nor `custom_fork()` on two.
3. **TheDeadStayDead** needs that `custom_fork()` is not called: it writes a state
   without looking at the old one (`proc.c:587`).
4. **WakeupsAreNotLost** needs that Ctrl-B is not pressed, since it makes init the
   parent of zombies without waking it (`proc.c:663`). Its invariants are
   `NoneSuspended`, `NoOwnParent`, and one part for each channel: `WaitersTold` for
   `wait()` and `InodeTold` for the inode's sleep-lock.
5. **DelayedChildrenCanStart** (**DelayedAreFound** under `Exclusive`) - `DelayedInv`: from
   the moment `custom_fork()` has written `start_later` until it has written the
   state, nothing clears the flag. It needs that Ctrl-B is not pressed, after which
   the child may be reaped and its slot be another's.

### 4.4 Swap area

`ShapeInv` is the common basis (**ShapeHolds**): `KernelInv` says for each call
what its local variables may be at each point, `StackInv` that the processes form
a stack of which only the top runs while the others wait for their children, and
`TableInv` which page tables exist meanwhile. Without the stack nothing else is
inductive: any `kalloc()` may change any process's page table, and a call that
holds a frame must be known to be the only one.

1. `FrameInv` - each frame is free or in exactly one *place* (an entry of a page
   table, a table being built, a kernel page, the hand of `kalloc()`), and
   `free_pages` is at most the length of the free list: **PartitionHolds**,
   **CounterIsSafe**. The places are needed because in the middle of `fork()`,
   `exec()` and faults frames are named by no page table.
2. `SlotInv` - the slot that is being written is named by no entry and not free:
   **SlotsAreOwned**.
3. `RssInv` - `rss` of a process in `exec()` is at most the pages the new table has,
   and `rss` of a child at most what `fork()` has copied: **RssIsBounded**. It does not
   say that a victim has a page to give in these two calls (3.4).
4. `ContentInv` - every page up to the extent a process may use holds what was
   stored, in its frame, in its slot, or, while it is being written or read, in
   both; the copy on disk is complete before the entry is changed; the new pages
   of `exec()` are zero: **ContentsAreKept**. The history variable `overrun` is part
   of the properties themselves, as in the run.
5. **TypeCorrect**, from `ShapeInv`, `FrameInv` and the types of what frames and
   slots hold.

### 4.5 SDN controllers

**TreeIsRight** is about the algorithm: for every finite set of links
`compute_mst()` returns a forest of known edges that connects exactly the
switches the links connect. Its invariant (`Joined`) says that two switches have
the same root iff the edges handled so far connect them, that ranks grow on the
way to the root (so there is a root, and path halving keeps it), and that the
tree connects what the edges connect. `ForestGrows` is the graph fact behind it:
an edge between two parts closes no cycle. The loop over the sorted edges is the
fold of the community modules; that it has a value for every set, and that the
invariant holds at its end, is shown with a smallest counterexample.

1. `TypeInv` gives **TypeCorrect**, and `TreeInv` **TreeIsUpToDate**, both in every
   network: whatever changes the known links leaves an event in the queue, and
   the handler reads the table of the moment.
2. The other two need `CyclesStay`: links come and go only in wirings without a
   cycle. On a triangle whose links are lost TLC finds both violated, for the
   reason given in 3.3. Under it the edges that frames travel on (`Paths`: the
   wires if they form no cycle, else the tree) never change.
3. `WayInv` - every copy, on a wire or in the controller's queue, is at a port that
   leads to its sender; so is what was learned, and rules say nothing else:
   **RulesLeadHome**. The step lemma is `OneHop`: in a forest, if a frame came the way
   to its sender and leaves by another port, then back is still the way.
4. `OnceInv` - each copy is in one place, and has a *region*, the switches it can
   still get to. The regions of two copies of a frame are disjoint, and a host
   that has received the frame is in none: **FramesArriveOnce**. `AtMostOnce` by
   itself says nothing of copies on their way, whose number is not bounded; the
   regions are what keeps them apart (`SidesApart`).

### 4.6 Only model-checked

* Liveness: `TransferCompletes`, `KilledEnds`, `OrphansAreReaped` and
  `EveryFrameArrives`. The prover has no ENABLED, on which fairness rests.
* The violated properties, which are false: `DuplicatesAskForAPacket`,
  `StartLaterWaits`, `OneCpuEach` with keys on two CPUs, and `ForkCopies`.

## 5. Not modelled

* Part 2 of the transfer: the server starts at byte one and the client waits for
  byte zero, so nothing is ever written and no property of a transfer can hold.
* SIGCUSTOM and its handler, which runs on the user's stack.
* Swapping on several CPUs and under background programs.
* Switches that join or leave an SDN controller, and link delays.
* The socket servers. The client of the shared-medium server (`q3_server.cpp`) is not
  in the repository, and its collision branch unlocks a mutex it does not hold;
  the others serve one connection after the other.
* The history, block and login system calls: sequential handlers, each under one
  lock.
* Scripts over fixed data, most of the repository's lines: the word tables and
  the decipherers of the cryptography exercises have no state or concurrency.

## 6. Plan

In this order:

1. What the models leave out next to what is proved: SIGCUSTOM and its handler,
   composed with `TrapEnds`; background programs in `SwapArea`, where
   `swap_out()` no longer has the machine to itself.
2. The safety half of the liveness properties, where there is one that is not
   proved yet: that a killed process which is not suspended is always on a
   path to `exit()`, and that a frame on a known and quiet network always has a
   copy in the region of every host that still has to receive it.

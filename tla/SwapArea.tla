------------------------------ MODULE SwapArea ------------------------------
(***************************************************************************)
(* Memory and page replacement of the third xv6 project (pageswap.c and    *)
(* its callers in kalloc.c, vm.c, proc.c, exec.c and trap.c): kalloc()     *)
(* swaps pages of the largest process out when few frames are free, and a  *)
(* page fault brings one back.                                             *)
(*                                                                         *)
(* One processor and programs run in the foreground: a process that forks  *)
(* waits for its child before it touches its memory again, as init and the *)
(* shell do.  Page permissions are left out, and one frame stands for a    *)
(* process's page directory, page tables and kernel stack.                 *)
(*                                                                         *)
(* A page fault comes from a program.  trap.c:114-128 does not look at the *)
(* mode, so the kernel faults too where it reads a page of the program     *)
(* that is out (the buffers of read() and write(), exec()'s arguments);    *)
(* these faults are left out.                                              *)
(***************************************************************************)
EXTENDS Integers, FiniteSetsExt

CONSTANTS
  NPROC,        \* process slots; a child's slot and pid are above its parent's
  Frames,       \* the page frames kalloc() hands out
  NSWAPSLOTS,   \* 800
  MaxPages,     \* bound: pages of a process
  ProgramPages, \* pages exec() gives a program
  TH, NPG,      \* Th and Npg at the start
  LIMIT,        \* the most pages one shortage swaps out
  ALPHA, BETA,  \* per cent
  Values        \* what a program stores in a page; 0 is what a fresh one holds

ASSUME SwapAssumption ==
  /\ NPROC \in Nat \ {0}
  /\ NSWAPSLOTS \in Nat \ {0}
  /\ MaxPages \in Nat \ {0}
  /\ ProgramPages \in 1 .. MaxPages
  /\ {TH, NPG, LIMIT} \subseteq Nat \ {0}
  /\ ALPHA \in 0 .. 100
  /\ BETA \in 0 .. 99     \* a shortage does not take Th down to nothing
  /\ 0 \in Values /\ Values \subseteq Nat
  /\ IsFiniteSet(Frames) /\ Cardinality(Frames) > ProgramPages
  /\ 0 \notin Frames      \* kalloc() returns 0 for "none"

VARIABLES
  \* kalloc.c
  freelist,   \* the frames on kmem.freelist
  freePages,  \* kmem.free_pages
  data,       \* frame -> what it holds
  \* pageswap.c
  usedSlots,  \* the swap slots that are not is_free
  disk,       \* slot -> what its eight blocks hold
  th, npg,    \* Th, Npg
  \* proc.c
  state,      \* process -> p->state; one blocked in wait() counts as RUNNABLE
  pgdir,      \* process -> page number -> page table entry
  kpage,      \* process -> the frame of its page directory and kernel stack
  sz,         \* process -> p->sz, in pages
  rss,        \* process -> p->rss
  kernel,     \* process -> where it is in the kernel, see Idle
  panicked,   \* the kernel has panicked, or followed a stale page directory
  \* history
  stored,     \* process -> page number -> what it last stored there
  overrun     \* swap_alloc() was called with every slot in use

memory == <<freelist, freePages, data>>
swap == <<usedSlots, disk>>
policy == <<th, npg>>
procs == <<state, pgdir, kpage, sz, rss>>
history == <<stored, overrun>>
vars == <<freelist, freePages, data, usedSlots, disk, th, npg, state, pgdir,
          kpage, sz, rss, kernel, panicked, stored, overrun>>

Procs == 1 .. NPROC
Slots == 0 .. NSWAPSLOTS - 1
Pages == 0 .. MaxPages - 1

Junk == -1      \* what kalloc() and kfree() fill a frame with
NoFrame == 0    \* frames are model values

-----------------------------------------------------------------------------
(* Page table entries *)

Unmapped  == [at |-> "none", n |-> 0, used |-> FALSE]
InRam(f, used) == [at |-> "ram", n |-> f, used |-> used]   \* PTE_P, PTE_A
InSwap(s) == [at |-> "swap", n |-> s, used |-> FALSE]      \* PTE_SWAP

NoPages == [v \in Pages |-> Unmapped]

Resident(table) == {v \in Pages : table[v].at = "ram"}

FramesOf(table) == {table[v].n : v \in Resident(table)}

-----------------------------------------------------------------------------
(* A process in the kernel: the call it is in, the page that call is at,   *)
(* and its kalloc() and swap_out().                                        *)

Idle == [
  pc     |-> "user",      \* user, kalloc, again, adaptive, emergency, writing,
                          \* got, read, copy, wait
  call   |-> "none",      \* sbrk, fork, exec, fault
  page   |-> 0,           \* the page the call is at, -1: the kernel's page
  goal   |-> 0,           \* sbrk: the new size
  child  |-> 0,           \* fork and wait
  table  |-> NoPages,     \* the page table fork or exec builds
  kpage  |-> NoFrame,     \* and its kernel page
  source |-> Unmapped,    \* fork: the entry to copy, as read before kalloc()
  frame  |-> NoFrame,     \* what kalloc() has taken from the free list
  left   |-> 0,           \* pages still to be swapped out
  after  |-> "user",      \* where the last swap_out() leads
  victim |-> 0, vpage |-> 0, slot |-> 0]   \* what swap_out() is writing

Runs(p) == ~panicked /\ state[p] = "RUNNABLE"
AtUser(p) == Runs(p) /\ kernel[p].pc = "user"
At(p, pc) == Runs(p) /\ kernel[p].pc = pc

Panic == panicked' = TRUE /\ UNCHANGED <<memory, swap, policy, procs, kernel, history>>

-----------------------------------------------------------------------------
(* kalloc() and kfree() *)

\* kfree() of n frames: free_pages counts each of them unless it is zero.
Counted(n) == IF freePages > 0 THEN freePages + n ELSE Min({0, freePages + n})

\* The head of the free list; which frame that is makes no difference.
NextFree == CHOOSE f \in freelist : TRUE

Junked(fs) == [f \in Frames |-> IF f \in fs THEN Junk ELSE data[f]]

\* Mutant: free_pages is not decremented.
KallocTakesUncounted(p) ==
  /\ At(p, "kalloc") \/ At(p, "again")
  /\ freelist # {}
  /\ freelist' = freelist \ {NextFree}
  /\ kernel' = [kernel EXCEPT ![p].frame = NextFree, ![p].pc = "got"]
  /\ UNCHANGED <<freePages, data, swap, policy, procs, panicked, history>>

\* A frame is there.  adaptive_swap() follows when free_pages is positive and
\* below the threshold.
KallocTakes(p) ==
  /\ At(p, "kalloc") \/ At(p, "again")
  /\ freelist # {}
  /\ freelist' = freelist \ {NextFree}
  /\ freePages' = freePages - 1
  /\ kernel' = [kernel EXCEPT ![p].frame = NextFree,
       ![p].pc = IF freePages' \in 1 .. th - 1 THEN "adaptive" ELSE "got",
       ![p].left = IF freePages' \in 1 .. th - 1 THEN npg ELSE 0,
       ![p].after = "got"]
  /\ UNCHANGED <<data, swap, policy, procs, panicked, history>>

\* None is there: one swap_out(), and a second attempt that panics.
KallocFindsNone(p) ==
  /\ At(p, "kalloc") \/ At(p, "again")
  /\ freelist = {}
  /\ IF kernel[p].pc = "again" THEN Panic
     ELSE /\ kernel' = [kernel EXCEPT ![p].pc = "emergency", ![p].left = 1,
                                      ![p].after = "again"]
          /\ UNCHANGED <<memory, swap, policy, procs, panicked, history>>

-----------------------------------------------------------------------------
(* swap_out(), called left times by adaptive_swap() and once by kalloc() *)

\* find_victim_process() looks at every process that is not UNUSED, a zombie
\* and a child that fork is still building included.
Candidates == {q \in Procs : state[q] # "UNUSED" /\ rss[q] >= 0}

VictimProcess ==
  CHOOSE q \in Candidates : \A r \in Candidates :
    rss[q] > rss[r] \/ (rss[q] = rss[r] /\ q <= r)

\* find_victim_page(): the first resident page not accessed since it was last
\* looked at, else the first resident page.
Idlers(table) == {v \in Resident(table) : ~table[v].used}

VictimPage(table) ==
  Min(IF Idlers(table) = {} THEN Resident(table) ELSE Idlers(table))

\* The accessed bits it clears on its way.
Aged(table) ==
  [v \in Pages |->
     IF v \in Resident(table) /\ (Idlers(table) = {} \/ v < VictimPage(table))
     THEN [table[v] EXCEPT !.used = FALSE] ELSE table[v]]

\* No candidate, or none of its pages in memory: the panic "no victim page".  Or
\* a child whose page directory fork() has not set yet: the code then follows a
\* null pointer, or the directory of the process that had the slot before
\* (pageswap.c:189, 323-348, 370-402).  What that does is not modelled: the
\* behaviour ends there as if with a panic, and no property speaks of it.
NoVictim ==
  \/ Candidates = {}
  \/ state[VictimProcess] = "EMBRYO"
  \/ Resident(pgdir[VictimProcess]) = {}

\* Mutant: swap_alloc() ignores is_free.
SwapAllocFirst == 0

\* swap_alloc(): the first free slot, and slot 0 when there is none, since the
\* loop index is compared with NSWAPBLOCKS.
SwapAlloc == IF usedSlots = Slots THEN 0 ELSE Min(Slots \ usedSlots)

SwapOut(p) ==
  /\ At(p, "adaptive") \/ At(p, "emergency")
  /\ IF NoVictim THEN Panic
     ELSE LET q == VictimProcess
              v == VictimPage(pgdir[q])
              s == SwapAlloc
          IN /\ pgdir' = [pgdir EXCEPT ![q] = Aged(@)]
             /\ usedSlots' = usedSlots \cup {s}
             /\ disk' = [disk EXCEPT ![s] = data[pgdir[q][v].n]]
             /\ overrun' = (overrun \/ usedSlots = Slots)
             /\ kernel' = [kernel EXCEPT ![p].pc = "writing", ![p].victim = q,
                             ![p].vpage = v, ![p].slot = s]
             /\ UNCHANGED <<memory, policy, state, kpage, sz, rss, panicked, stored>>

\* Th and Npg after a shortage.
NextTh == th - (th * BETA) \div 100

\* Mutant: without LIMIT.
NextNpgUnlimited == npg + (npg * ALPHA) \div 100

NextNpg == Min({LIMIT, npg + (npg * ALPHA) \div 100})

\* swap_write() returns: the entry names the slot and the frame is free.
SwapOutDone(p) ==
  /\ At(p, "writing")
  /\ LET k == kernel[p]
         f == pgdir[k.victim][k.vpage].n
     IN /\ pgdir' = [pgdir EXCEPT ![k.victim][k.vpage] = InSwap(k.slot)]
        /\ freelist' = freelist \cup {f}
        /\ freePages' = Counted(1)
        /\ data' = Junked({f})
        /\ rss' = [rss EXCEPT ![k.victim] = @ - 1]
        /\ kernel' = [kernel EXCEPT ![p].left = @ - 1,
             ![p].pc = IF k.left = 1 THEN k.after
                       ELSE "adaptive",
             ![p].victim = 0, ![p].vpage = 0, ![p].slot = 0]
        /\ IF k.left = 1 /\ k.after = "got"
           THEN th' = NextTh /\ npg' = NextNpg
           ELSE UNCHANGED policy
  /\ UNCHANGED <<swap, state, kpage, sz, panicked, history>>

-----------------------------------------------------------------------------
(* The calls that need memory.  Each goes through its pages with kalloc(). *)

Enter(p, call) == kernel' = [kernel EXCEPT ![p] = call]

\* The next turn of a call's loop, and its end.
NextPage(k) == [k EXCEPT !.page = @ + 1, !.pc = "kalloc", !.frame = NoFrame]
Return(p) == Enter(p, Idle)

\* sbrk(), a page fault, exec() and fork() up to their first kalloc().
Sbrk(p, n) ==
  /\ AtUser(p)
  /\ n \in sz[p] + 1 .. MaxPages
  /\ Enter(p, [Idle EXCEPT !.pc = "kalloc", !.call = "sbrk", !.page = sz[p],
                           !.goal = n])
  /\ UNCHANGED <<memory, swap, policy, procs, panicked, history>>

Fault(p, v) ==
  /\ AtUser(p)
  /\ v < sz[p]
  /\ pgdir[p][v].at = "swap"
  /\ Enter(p, [Idle EXCEPT !.pc = "kalloc", !.call = "fault", !.page = v])
  /\ UNCHANGED <<memory, swap, policy, procs, panicked, history>>

Exec(p) ==
  /\ AtUser(p)
  /\ Enter(p, [Idle EXCEPT !.pc = "kalloc", !.call = "exec", !.page = -1])
  /\ UNCHANGED <<memory, swap, policy, procs, panicked, history>>

Fork(p) ==
  /\ AtUser(p)
  /\ \E c \in Procs :
       /\ state[c] = "UNUSED"
       /\ \A d \in Procs : state[d] = "UNUSED" => c <= d
       /\ state' = [state EXCEPT ![c] = "EMBRYO"]
       /\ Enter(p, [Idle EXCEPT !.pc = "kalloc", !.call = "fork", !.page = -1,
                                !.child = c])
  /\ UNCHANGED <<memory, swap, policy, pgdir, kpage, sz, rss, panicked, history>>

\* allocuvm() maps a page of zeroes; growproc() sets the size at the end.
SbrkPage(p) ==
  LET k == kernel[p] IN
  /\ At(p, "got") /\ k.call = "sbrk"
  /\ pgdir' = [pgdir EXCEPT ![p][k.page] = InRam(k.frame, FALSE)]
  /\ data' = [data EXCEPT ![k.frame] = 0]
  /\ rss' = [rss EXCEPT ![p] = @ + 1]
  /\ stored' = [stored EXCEPT ![p][k.page] = 0]
  /\ IF k.page + 1 < k.goal
     THEN Enter(p, NextPage(k)) /\ UNCHANGED sz
     ELSE Return(p) /\ sz' = [sz EXCEPT ![p] = k.goal]
  /\ UNCHANGED <<freelist, freePages, swap, policy, state, kpage, panicked, overrun>>

\* Mutant: the slot the fault has read is the first one.
SwapReadFirst(p) ==
  LET k == kernel[p] IN
  /\ At(p, "got") /\ k.call = "fault"
  /\ data' = [data EXCEPT ![k.frame] = disk[0]]
  /\ Enter(p, [k EXCEPT !.pc = "read", !.slot = pgdir[p][k.page].n])
  /\ UNCHANGED <<freelist, freePages, swap, policy, procs, panicked, history>>

\* handle_pgfault(): read the page in; then map it and free the slot.
SwapRead(p) ==
  LET k == kernel[p] IN
  /\ At(p, "got") /\ k.call = "fault"
  /\ data' = [data EXCEPT ![k.frame] = disk[pgdir[p][k.page].n]]
  /\ Enter(p, [k EXCEPT !.pc = "read", !.slot = pgdir[p][k.page].n])
  /\ UNCHANGED <<freelist, freePages, swap, policy, procs, panicked, history>>

SwapIn(p) ==
  LET k == kernel[p] IN
  /\ At(p, "read")
  /\ pgdir' = [pgdir EXCEPT ![p][k.page] = InRam(k.frame, FALSE)]
  /\ usedSlots' = usedSlots \ {k.slot}
  /\ rss' = [rss EXCEPT ![p] = @ + 1]
  /\ Return(p)
  /\ UNCHANGED <<memory, disk, policy, state, kpage, sz, panicked, history>>

\* Mutant: the old page directory is not freed.
OldImagePagesOnly(p) == FramesOf(pgdir[p])

OldImage(p) == FramesOf(pgdir[p]) \cup {kpage[p]}

\* exec() builds the new image beside the old one, which is p->pgdir until the
\* end.  freevm() then frees what is resident of the old one and, going
\* through the whole address space, takes rss down to zero; the slots of the
\* old image are never freed.  ExecDone takes the copy of the arguments to the
\* new stack (exec.c:75-91) as one step, in which no page is faulted in.
ExecPage(p) ==
  LET k == kernel[p] IN
  /\ At(p, "got") /\ k.call = "exec"
  /\ k.page < ProgramPages - 1
  /\ data' = [data EXCEPT ![k.frame] = IF k.page = -1 THEN Junk ELSE 0]
  /\ IF k.page = -1
     THEN /\ Enter(p, [NextPage(k) EXCEPT !.kpage = k.frame])
          /\ rss' = [rss EXCEPT ![p] = 0]
     ELSE /\ Enter(p, [NextPage(k) EXCEPT !.table[k.page] = InRam(k.frame, FALSE)])
          /\ rss' = [rss EXCEPT ![p] = @ + 1]
  /\ UNCHANGED <<freelist, freePages, swap, policy, state, pgdir, kpage, sz,
                 panicked, history>>

ExecDone(p) ==
  LET k == kernel[p]
      old == OldImage(p)
  IN /\ At(p, "got") /\ k.call = "exec"
     /\ k.page = ProgramPages - 1
     /\ pgdir' = [pgdir EXCEPT ![p] = [k.table EXCEPT ![k.page] = InRam(k.frame, FALSE)]]
     /\ kpage' = [kpage EXCEPT ![p] = k.kpage]
     /\ sz' = [sz EXCEPT ![p] = ProgramPages]
     /\ rss' = [rss EXCEPT ![p] = Min({0, @ + 1})]
     /\ freelist' = freelist \cup old
     /\ freePages' = Counted(Cardinality(old))
     /\ data' = [Junked(old) EXCEPT ![k.frame] = 0]
     /\ stored' = [stored EXCEPT ![p] = [v \in Pages |-> 0]]
     /\ Return(p)
     /\ UNCHANGED <<swap, policy, state, panicked, overrun>>

\* copyuvm() panics at a page that is swapped out.  It reads the entry before
\* kalloc(), which may swap the page out.
CopyLooks(p) ==
  LET k == kernel[p] IN
  /\ At(p, "copy")
  /\ IF pgdir[p][k.page].at # "ram" THEN Panic
     ELSE /\ Enter(p, [k EXCEPT !.pc = "kalloc", !.source = pgdir[p][k.page]])
          /\ UNCHANGED <<memory, swap, policy, procs, panicked, history>>

ForkKernelPage(p) ==
  LET k == kernel[p] IN
  /\ At(p, "got") /\ k.call = "fork" /\ k.page = -1
  /\ rss' = [rss EXCEPT ![k.child] = 0]
  /\ Enter(p, [NextPage(k) EXCEPT !.kpage = k.frame, !.pc = "copy"])
  /\ UNCHANGED <<memory, swap, policy, state, pgdir, kpage, sz, panicked, history>>

CopyPage(p) ==
  LET k == kernel[p]
      table == [k.table EXCEPT ![k.page] = InRam(k.frame, k.source.used)]
  IN /\ At(p, "got") /\ k.call = "fork" /\ k.page >= 0
     /\ data' = [data EXCEPT ![k.frame] = data[k.source.n]]
     /\ rss' = [rss EXCEPT ![k.child] = @ + 1]
     /\ IF k.page + 1 < sz[p]
        THEN /\ Enter(p, [NextPage(k) EXCEPT !.pc = "copy", !.table = table])
             /\ UNCHANGED <<state, pgdir, kpage, sz, stored>>
        ELSE /\ pgdir' = [pgdir EXCEPT ![k.child] = table]
             /\ kpage' = [kpage EXCEPT ![k.child] = k.kpage]
             /\ sz' = [sz EXCEPT ![k.child] = sz[p]]
             /\ state' = [state EXCEPT ![k.child] = "RUNNABLE"]
             /\ stored' = [stored EXCEPT ![k.child] =
                  [v \in Pages |-> IF v < sz[p] THEN data'[table[v].n] ELSE 0]]
             /\ Enter(p, [Idle EXCEPT !.pc = "wait", !.child = k.child])
     /\ UNCHANGED <<freelist, freePages, swap, policy, panicked, overrun>>

-----------------------------------------------------------------------------
(* The calls that give memory back, and a program's own steps *)

\* Mutant: rss is not lowered.
RssUnlowered(r, n) == r

\* deallocuvm() of n pages lowers rss for every page, down to zero.
RssLowered(r, n) == IF r > 0 THEN Max({0, r - n}) ELSE r

\* sbrk() of a negative size: deallocuvm() frees the resident pages; the
\* entries and the slots of the others stay.  A new size of zero is left out:
\* deallocuvm() frees every page, growproc() takes its 0 for a failure and
\* leaves sz as it was (proc.c:162-163).
Shrink(p, n) ==
  LET gone == {v \in Resident(pgdir[p]) : v >= n}
      frames == {pgdir[p][v].n : v \in gone}
  IN /\ AtUser(p)
     /\ n \in 1 .. sz[p] - 1
     /\ pgdir' = [pgdir EXCEPT ![p] = [v \in Pages |-> IF v \in gone THEN Unmapped ELSE @[v]]]
     /\ freelist' = freelist \cup frames
     /\ freePages' = Counted(Cardinality(frames))
     /\ data' = Junked(frames)
     /\ rss' = [rss EXCEPT ![p] = RssLowered(@, sz[p] - n)]
     /\ sz' = [sz EXCEPT ![p] = n]
     /\ stored' = [stored EXCEPT ![p] = [v \in Pages |-> IF v < n THEN @[v] ELSE 0]]
     /\ UNCHANGED <<swap, policy, state, kpage, kernel, panicked, overrun>>

SwappedOut(p) == {v \in 0 .. sz[p] - 1 : pgdir[p][v].at = "swap"}

\* exit() passes deallocuvm() the sizes in the wrong order, so it frees nothing;
\* the pages stay until wait().  The slots are freed.
Exit(p) ==
  /\ AtUser(p)
  /\ pgdir' = [pgdir EXCEPT ![p] =
       [v \in Pages |-> IF v \in SwappedOut(p) THEN Unmapped ELSE @[v]]]
  /\ usedSlots' = usedSlots \ {pgdir[p][v].n : v \in SwappedOut(p)}
  /\ rss' = [rss EXCEPT ![p] = 0]
  /\ state' = [state EXCEPT ![p] = "ZOMBIE"]
  /\ stored' = [stored EXCEPT ![p] = [v \in Pages |-> 0]]
  /\ UNCHANGED <<memory, disk, policy, kpage, sz, kernel, panicked, overrun>>

\* wait() frees the kernel stack, the pages and the page directory.
Wait(p) ==
  LET c == kernel[p].child
      frames == FramesOf(pgdir[c]) \cup {kpage[c]}
  IN /\ At(p, "wait")
     /\ state[c] = "ZOMBIE"
     /\ freelist' = freelist \cup frames
     /\ freePages' = Counted(Cardinality(frames))
     /\ data' = Junked(frames)
     /\ kpage' = [kpage EXCEPT ![c] = NoFrame]
     /\ pgdir' = [pgdir EXCEPT ![c] = NoPages]
     /\ sz' = [sz EXCEPT ![c] = 0]
     /\ state' = [state EXCEPT ![c] = "UNUSED"]
     /\ Return(p)
     /\ UNCHANGED <<swap, policy, rss, panicked, history>>

\* A program uses one of its resident pages, and stores x there.
Touch(p, v, x) ==
  /\ AtUser(p)
  /\ v \in Resident(pgdir[p])
  /\ pgdir' = [pgdir EXCEPT ![p][v].used = TRUE]
  /\ data' = [data EXCEPT ![pgdir[p][v].n] = x]
  /\ stored' = [stored EXCEPT ![p][v] = x]
  /\ UNCHANGED <<freelist, freePages, swap, policy, state, kpage, sz, rss,
                 kernel, panicked, overrun>>

-----------------------------------------------------------------------------

\* Where boot has put the first image, its kernel page last.
FirstImage == CHOOSE f \in Injection(0 .. ProgramPages, Frames) : TRUE

\* The first process runs its program, with the rss of 0 that exec() leaves.
Init ==
  /\ freelist = Frames \ {FirstImage[i] : i \in 0 .. ProgramPages}
  /\ freePages = Cardinality(freelist)
  /\ data = [f \in Frames |->
       IF \E v \in 0 .. ProgramPages - 1 : f = FirstImage[v] THEN 0 ELSE Junk]
  /\ usedSlots = {}
  /\ disk = [s \in Slots |-> Junk]
  /\ th = TH
  /\ npg = NPG
  /\ state = [p \in Procs |-> IF p = 1 THEN "RUNNABLE" ELSE "UNUSED"]
  /\ pgdir = [p \in Procs |-> [v \in Pages |->
       IF p = 1 /\ v < ProgramPages THEN InRam(FirstImage[v], FALSE) ELSE Unmapped]]
  /\ kpage = [p \in Procs |-> IF p = 1 THEN FirstImage[ProgramPages] ELSE NoFrame]
  /\ sz = [p \in Procs |-> IF p = 1 THEN ProgramPages ELSE 0]
  /\ rss = [p \in Procs |-> 0]
  /\ kernel = [p \in Procs |-> Idle]
  /\ panicked = FALSE
  /\ stored = [p \in Procs |-> [v \in Pages |-> 0]]
  /\ overrun = FALSE

Kernel(p) ==
  \/ KallocTakes(p) \/ KallocFindsNone(p) \/ SwapOut(p) \/ SwapOutDone(p)
  \/ SbrkPage(p) \/ SwapRead(p) \/ SwapIn(p) \/ ExecPage(p) \/ ExecDone(p)
  \/ ForkKernelPage(p) \/ CopyLooks(p) \/ CopyPage(p) \/ Wait(p)

\* The first process is init or the shell: it starts commands, and neither
\* runs another program, nor gives memory back, nor exits.
User(p) ==
  \/ \E n \in 1 .. MaxPages : Sbrk(p, n) \/ (p # 1 /\ Shrink(p, n))
  \/ \E v \in Pages : Fault(p, v) \/ \E x \in Values : Touch(p, v, x)
  \/ Fork(p)
  \/ p # 1 /\ (Exec(p) \/ Exit(p))

Next == \E p \in Procs : Kernel(p) \/ User(p)

Spec == Init /\ [][Next]_vars

-----------------------------------------------------------------------------
(* Properties *)

InUse(p) == state[p] \in {"RUNNABLE", "ZOMBIE"}

\* Every variable keeps its type; Th and Npg stay between one and what they
\* start with or are limited to, however many shortages adaptive_swap() sees.
TypeOK ==
  /\ freelist \subseteq Frames
  /\ freePages \in Int
  /\ data \in [Frames -> Values \cup {Junk}]
  /\ usedSlots \subseteq Slots
  /\ disk \in [Slots -> Values \cup {Junk}]
  /\ th \in 1 .. TH
  /\ npg \in 1 .. Max({LIMIT, NPG})
  /\ state \in [Procs -> {"UNUSED", "EMBRYO", "RUNNABLE", "ZOMBIE"}]
  /\ \A p \in Procs : FramesOf(pgdir[p]) \subseteq Frames
  /\ kpage \in [Procs -> Frames \cup {NoFrame}]
  /\ sz \in [Procs -> 0 .. MaxPages]
  /\ rss \in [Procs -> Int]

\* What page v of process p holds, in memory or in the swap area.
Held(p, v) ==
  IF pgdir[p][v].at = "ram" THEN data[pgdir[p][v].n] ELSE disk[pgdir[p][v].n]

\* Swapping is invisible: as long as the swap area was never asked for a slot
\* it did not have, a page holds what its process stored there last, however
\* often it has been out and in, and whoever else came and went (what memtest.c
\* tests for one process that runs once).  Up to a victim that fork() is still
\* building, where the model ends (NoVictim).
PagesKeepTheirContents ==
  ~overrun => \A p \in Procs : state[p] = "RUNNABLE" =>
    \A v \in 0 .. sz[p] - 1 : Held(p, v) = stored[p][v]

\* The frames a process owns: its pages, its kernel page, and what the call it
\* is in has allocated.
Owned(p) ==
  FramesOf(pgdir[p]) \cup FramesOf(kernel[p].table)
    \cup ({kpage[p], kernel[p].kpage, kernel[p].frame} \ {NoFrame})

OwnedCount(p) ==
  Cardinality(Resident(pgdir[p])) + Cardinality(Resident(kernel[p].table))
    + Cardinality({i \in 1 .. 3 :
        <<kpage[p], kernel[p].kpage, kernel[p].frame>>[i] # NoFrame})

\* No frame is lost and none has two owners: the free list and what the
\* processes own partition the frames, at every step of every call, up to a
\* victim that fork() is still building, where the model ends (NoVictim).
FramesArePartitioned ==
  /\ \A p \in Procs : Cardinality(Owned(p)) = OwnedCount(p)
  /\ \A p \in Procs : Owned(p) \cap freelist = {}
  /\ \A p, q \in Procs : p # q => Owned(p) \cap Owned(q) = {}
  /\ Frames = freelist \cup UNION {Owned(p) : p \in Procs}

\* A slot that an entry names is in use and named by no other entry.
SlotsHaveOneOwner ==
  ~overrun => \A p, q \in Procs : \A v, w \in Pages :
    pgdir[p][v].at = "swap" =>
      /\ pgdir[p][v].n \in usedSlots
      /\ pgdir[q][w] = pgdir[p][v] => p = q /\ v = w

\* The table whose pages rss counts: in exec(), that of the new image.
CountedTable(p) ==
  IF kernel[p].call = "exec" /\ kernel[p].page >= 0 THEN kernel[p].table ELSE pgdir[p]

\* rss never counts a page that is not resident in the table it counts.  So a
\* process that no fork() or exec() is building an image for has a page to give
\* when find_victim_process() picks it for a positive rss.  While an image is
\* built it need not: a child of fork() has no page directory yet, and in exec()
\* the pages counted are the new table's and the victim page is looked for in
\* the old one.  The panic "no victim page" is reachable there (NoVictim).
RssNeverTooHigh ==
  \A p \in Procs : InUse(p) => rss[p] <= Cardinality(Resident(CountedTable(p)))

\* free_pages never promises a frame that is not there.
CounterNeverTooHigh == freePages <= Cardinality(freelist)

\* fork() gives the child a copy of what the parent has stored.
ForkCopies ==
  [][\A p, c \in Procs :
       At(p, "got") /\ kernel[p].child = c /\ state'[c] = "RUNNABLE" =>
         \A v \in 0 .. sz[p] - 1 : stored'[c][v] = stored[p][v]]_vars
=============================================================================

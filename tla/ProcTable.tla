----------------------------- MODULE ProcTable -----------------------------
(***************************************************************************)
(* The process table of the xv6 kernel of "Signal Handling And Scheduling":*)
(* fork, custom_fork, scheduler_start, exit, wait, kill, sleep, wakeup, the*)
(* scheduler, the trap handler, and the signals that control keys send to  *)
(* every process.                                                          *)
(*                                                                         *)
(* A step that holds ptable.lock from beginning to end is one action.      *)
(* Interrupts come between the steps: in user mode, and in the kernel      *)
(* wherever no spinlock is held.  A process is named by its slot: 1 is     *)
(* init, 2 is the shell, the others are the user's programs.  Ticks and    *)
(* priorities are abstracted: the scheduler may choose any process it does *)
(* not skip, and a time budget may be used up whenever a CPU is given up.  *)
(***************************************************************************)
EXTENDS Integers, FiniteSets

CONSTANTS
  None,        \* no process, no CPU, no channel
  Console,     \* the channel of console input
  Disk,        \* the channel of the disk
  InodeLock,   \* the channel of an inode's sleep-lock
  NPROC,       \* slots of the process table
  CPUs,        \* the CPUs: one by default, "make CPUS=2" for two
  Signals,     \* the control keys pressed
  CustomFork,  \* do programs call custom_fork()?
  ExecTimes,   \* its second argument: TRUE if positive, a limit
  Kill,        \* do programs call kill()?
  Files        \* do programs use the file system?

Procs == 1 .. NPROC
init  == 1
shell == 2
Users == Procs \ {init, shell}

ASSUME ProcAssumption ==
  /\ NPROC \in Nat /\ NPROC >= 2
  /\ {None, Console, Disk, InodeLock} \cap Procs = {}
  /\ None \notin {Console, Disk, InodeLock} \cup CPUs
  /\ InodeLock \notin {Console, Disk}
  /\ IsFiniteSet(CPUs) /\ CPUs # {}
  /\ Signals \subseteq {"SIGINT", "SIGBG", "SIGFG"}
  /\ ExecTimes \subseteq BOOLEAN /\ ExecTimes # {}
  /\ CustomFork \in BOOLEAN /\ Kill \in BOOLEAN /\ Files \in BOOLEAN

\* The channels processes sleep on, their own slot in wait() among them.
Channels == Procs \cup {Console, Disk, InodeLock}

VARIABLES
  state,       \* p->state
  parent,      \* p->parent
  killed,      \* p->killed
  suspended,   \* p->suspended
  startLater,  \* p->start_later
  budget,      \* p->exec_time > 0
  chan,        \* p->chan
  pc,          \* where p continues: in user mode, or in which kernel function
  child,       \* the slot of the process p is forking
  delay,       \* custom_fork()'s first argument
  running,     \* each CPU's process
  lock,        \* the CPU that keeps ptable.lock into its next step
  inode        \* the holder of an inode's sleep-lock

tableVars == <<parent, startLater, budget, child, delay, inode>>
vars == <<state, parent, killed, suspended, startLater, budget,
          chan, pc, child, delay, running, lock, inode>>

-----------------------------------------------------------------------------
(* Giving up a CPU *)

LockFree(c) == lock \in {None, c}

On(c, p) == running[c] = p /\ p # None

\* Back from swtch() in scheduler(): a process that has used up its time is
\* marked killed, whatever state it left the CPU in.
ChargeTime(p, kills) ==
  killed' \in {kills} \cup (IF budget[p] THEN {[kills EXCEPT ![p] = TRUE]} ELSE {})

\* sched(): the process of c stops with state s; kills is p->killed before.
Sched(c, states, kills) ==
  /\ state' = states
  /\ running' = [running EXCEPT ![c] = None]
  /\ lock' = None
  /\ ChargeTime(running[c], kills)

\* Mutant of Sleep: the channel is not recorded.
SleepNowhere(c, p, ch, k) ==
  /\ Sched(c, [state EXCEPT ![p] = "SLEEPING"], killed)
  /\ pc' = [pc EXCEPT ![p] = k]
  /\ UNCHANGED <<suspended, chan>>

\* sleep(): on channel ch; when it is scheduled again, p continues at k.
Sleep(c, p, ch, k) ==
  /\ Sched(c, [state EXCEPT ![p] = "SLEEPING"], killed)
  /\ chan' = [chan EXCEPT ![p] = ch]
  /\ pc' = [pc EXCEPT ![p] = k]
  /\ UNCHANGED suspended

\* wakeup1(): the states after waking the sleepers on ch.
Woken(ch, states) ==
  [p \in Procs |-> IF states[p] = "SLEEPING" /\ chan[p] = ch /\ ~suspended[p]
                   THEN "RUNNABLE" ELSE states[p]]

\* The end of a system call: trap() ends a killed process.
Return(p, kills) == pc' = [pc EXCEPT ![p] = IF kills[p] THEN "exit" ELSE "user"]

-----------------------------------------------------------------------------
(* The scheduler *)

Eligible(p) == state[p] = "RUNNABLE" /\ ~suspended[p]

\* A process that slept returns into sleep(), which clears its channel and
\* ends it when it was killed; one that slept in wait() keeps ptable.lock and
\* looks for children again.  One that had exited returns into exit(), which
\* panics with ptable.lock held.
Schedule(c, p) ==
  /\ lock = None
  /\ running[c] = None
  /\ Eligible(p)
  /\ state' = [state EXCEPT ![p] = "RUNNING"]
  /\ running' = [running EXCEPT ![c] = p]
  /\ chan' = [chan EXCEPT ![p] = None]
  /\ IF chan[p] # None /\ killed[p]
     THEN pc' = [pc EXCEPT ![p] = "exit"] /\ UNCHANGED lock
     ELSE /\ UNCHANGED pc
          /\ lock' = IF (chan[p] # None /\ pc[p] = "wait") \/ pc[p] = "dead"
                     THEN c ELSE None
  /\ UNCHANGED <<parent, killed, suspended, startLater, budget, child, delay,
                 inode>>

-----------------------------------------------------------------------------
(* System calls.  One that sleeps is entered in a step of its own, so that *)
(* an interrupt can come before it has taken ptable.lock.                  *)

InUser(c, p) == On(c, p) /\ pc[p] = "user"

EnterKernel(c, p) ==
  /\ InUser(c, p)
  /\ IF killed[p] THEN pc' = [pc EXCEPT ![p] = "exit"]
     ELSE \E k \in {"wait", "read"}
                     \cup (IF p \in Users THEN {"exit"} ELSE {})
                     \cup (IF p \in Users /\ Files THEN {"open"} ELSE {}) :
            pc' = [pc EXCEPT ![p] = k]
  /\ UNCHANGED <<state, killed, suspended, chan, running, lock, tableVars>>

\* fork(): allocproc() takes the first free slot.
Fork(c, p) ==
  /\ InUser(c, p) /\ ~killed[p] /\ LockFree(c)
  /\ \E q \in Procs :
       /\ state[q] = "UNUSED"
       /\ \A r \in Procs : state[r] = "UNUSED" => q <= r
       /\ state' = [state EXCEPT ![q] = "EMBRYO"]
       /\ suspended' = [suspended EXCEPT ![q] = FALSE]
       /\ child' = [child EXCEPT ![p] = q]
       /\ \E d \in {"none"} \cup (IF CustomFork THEN {"now", "later"} ELSE {}) :
            delay' = [delay EXCEPT ![p] = d]
       /\ pc' = [pc EXCEPT ![p] = "copy", ![q] = "user"]
  /\ UNCHANGED <<parent, killed, startLater, budget, chan, running, lock, inode>>

\* fork() copies the process into the child without ptable.lock: a parent that
\* Ctrl-B has given the child meanwhile is overwritten.
CopyProcess(c, p) ==
  /\ On(c, p) /\ pc[p] = "copy"
  /\ parent' = [parent EXCEPT ![child[p]] = p]
  /\ budget' = [budget EXCEPT ![child[p]] = FALSE]
  /\ pc' = [pc EXCEPT ![p] = "fork"]
  /\ UNCHANGED <<state, killed, suspended, startLater, chan, child, delay,
                 running, lock, inode>>

\* The end of fork(): the child may run.
ForkReturns(c, p) ==
  /\ On(c, p) /\ pc[p] = "fork" /\ LockFree(c)
  /\ state' = [state EXCEPT ![child[p]] = "RUNNABLE"]
  /\ IF delay[p] = "none"
     THEN Return(p, killed) /\ child' = [child EXCEPT ![p] = None]
     ELSE pc' = [pc EXCEPT ![p] = "custom_fork"] /\ UNCHANGED child
  /\ UNCHANGED <<parent, killed, suspended, startLater, budget,
                 chan, delay, running, lock, inode>>

\* sys_custom_fork() after fork(), all of it without ptable.lock: it looks for
\* the pid, which is gone when the child was reaped meanwhile, and then writes
\* three fields through the pointer, each in a step of its own.
FindChild(c, p) ==
  /\ On(c, p) /\ pc[p] = "custom_fork"
  /\ IF child[p] = None THEN Return(p, killed)
     ELSE pc' = [pc EXCEPT ![p] = "set_start_later"]
  /\ UNCHANGED <<state, killed, suspended, chan, running, lock, tableVars>>

SetStartLater(c, p) ==
  /\ On(c, p) /\ pc[p] = "set_start_later"
  /\ startLater' = [startLater EXCEPT ![child[p]] = delay[p] = "later"]
  /\ pc' = [pc EXCEPT ![p] = "set_exec_time"]
  /\ UNCHANGED <<state, parent, killed, suspended, budget, chan, child, delay,
                 running, lock, inode>>

SetExecTime(c, p) ==
  /\ On(c, p) /\ pc[p] = "set_exec_time"
  /\ \E b \in ExecTimes : budget' = [budget EXCEPT ![child[p]] = b]
  /\ pc' = [pc EXCEPT ![p] = "set_state"]
  /\ UNCHANGED <<state, parent, killed, suspended, startLater, chan, child,
                 delay, running, lock, inode>>

SetState(c, p) ==
  /\ On(c, p) /\ pc[p] = "set_state"
  /\ state' = [state EXCEPT ![child[p]] =
       IF delay[p] = "later" THEN "WAITING_TO_START" ELSE "RUNNABLE"]
  /\ child' = [child EXCEPT ![p] = None]
  /\ delay' = [delay EXCEPT ![p] = "none"]
  /\ Return(p, killed)
  /\ UNCHANGED <<parent, killed, suspended, startLater, budget, chan, running,
                 lock, inode>>

\* Mutant of SchedulerStart: start_later is reset whatever the state.
StartResetsAll(c, p) ==
  /\ InUser(c, p) /\ ~killed[p] /\ LockFree(c) /\ CustomFork
  /\ LET started == {q \in Procs : startLater[q] /\ state[q] = "WAITING_TO_START"} IN
       state' = [q \in Procs |-> IF q \in started THEN "RUNNABLE" ELSE state[q]]
  /\ startLater' = [q \in Procs |-> FALSE]
  /\ UNCHANGED <<parent, killed, suspended, budget, chan, pc, child,
                 delay, running, lock, inode>>

SchedulerStart(c, p) ==
  /\ InUser(c, p) /\ ~killed[p] /\ LockFree(c) /\ CustomFork
  /\ LET started == {q \in Procs : startLater[q] /\ state[q] = "WAITING_TO_START"} IN
       /\ started # {}
       /\ state' = [q \in Procs |-> IF q \in started THEN "RUNNABLE" ELSE state[q]]
       /\ startLater' = [q \in Procs |-> startLater[q] /\ q \notin started]
  /\ UNCHANGED <<parent, killed, suspended, budget, chan, pc, child,
                 delay, running, lock, inode>>

\* Mutant of KillSome: it makes the process runnable whatever it is doing.
KillWakesAny(c, p) ==
  /\ Kill
  /\ InUser(c, p) /\ ~killed[p] /\ LockFree(c)
  /\ \E q \in Users :
       /\ state[q] # "UNUSED"
       /\ killed' = [killed EXCEPT ![q] = TRUE]
       /\ state' = [state EXCEPT ![q] = "RUNNABLE"]
       /\ Return(p, killed')
  /\ UNCHANGED <<suspended, chan, running, lock, tableVars>>

\* kill() of a program.  The code takes any pid: killing the shell, or init,
\* whose exit() is a panic, is left out.
KillSome(c, p) ==
  /\ Kill
  /\ InUser(c, p) /\ ~killed[p] /\ LockFree(c)
  /\ \E q \in Users :
       /\ state[q] # "UNUSED"
       /\ killed' = [killed EXCEPT ![q] = TRUE]
       /\ state' = [state EXCEPT ![q] = IF @ = "SLEEPING" THEN "RUNNABLE" ELSE @]
       /\ Return(p, killed')
  /\ UNCHANGED <<suspended, chan, running, lock, tableVars>>

\* Mutant of Exit: init is not told of the zombies it is given.
ExitForgetsInit(c, p) ==
  /\ On(c, p) /\ pc[p] = "exit" /\ LockFree(c)
  /\ parent' = [q \in Procs |-> IF parent[q] = p THEN init ELSE parent[q]]
  /\ Sched(c, [Woken(parent[p], state) EXCEPT ![p] = "ZOMBIE"], killed)
  /\ pc' = [pc EXCEPT ![p] = "dead"]
  /\ UNCHANGED <<suspended, startLater, budget, chan, child, delay, inode>>

\* Mutant of Exit: the children stay with the dead process.
ExitKeepsChildren(c, p) ==
  /\ On(c, p) /\ pc[p] = "exit" /\ LockFree(c)
  /\ Sched(c, [Woken(parent[p], state) EXCEPT ![p] = "ZOMBIE"], killed)
  /\ pc' = [pc EXCEPT ![p] = "dead"]
  /\ UNCHANGED <<parent, suspended, startLater, budget, chan, child, delay, inode>>

\* exit(): wakes the parent, gives the children to init, and never returns.
\* Closing the files and giving back the directory come before (proc.c:264-274)
\* and are left out: begin_op() and the sleep-locks may sleep there, where
\* sleep() of a killed process calls exit() once more.
Exit(c, p) ==
  /\ On(c, p) /\ pc[p] = "exit" /\ LockFree(c)
  /\ LET woken == Woken(parent[p], state)
         orphans == {q \in Procs : parent[q] = p}
     IN /\ parent' = [q \in Procs |-> IF q \in orphans THEN init ELSE parent[q]]
        /\ Sched(c, [(IF \E q \in orphans : state[q] = "ZOMBIE"
                      THEN Woken(init, woken) ELSE woken) EXCEPT ![p] = "ZOMBIE"],
                 killed)
  /\ pc' = [pc EXCEPT ![p] = "dead"]
  /\ UNCHANGED <<suspended, startLater, budget, chan, child, delay,
                 inode>>

InWait(c, p) == On(c, p) /\ pc[p] = "wait" /\ LockFree(c)

ChildrenOf(p) == {q \in Procs : parent[q] = p}

DeadChildren(p) == {q \in ChildrenOf(p) : state[q] = "ZOMBIE"}

\* wait() finds a dead child and frees its slot, pid included.  init calls
\* wait() again.
WaitReaps(c, p) ==
  /\ InWait(c, p)
  /\ \E q \in DeadChildren(p) :
       /\ \A r \in DeadChildren(p) : q <= r
       /\ state' = [state EXCEPT ![q] = "UNUSED"]
       /\ parent' = [parent EXCEPT ![q] = None]
       /\ killed' = [killed EXCEPT ![q] = FALSE]
       /\ child' = [r \in Procs |->
            IF child[r] = q /\ pc[r] = "custom_fork" THEN None ELSE child[r]]
  /\ IF p = init THEN UNCHANGED pc ELSE Return(p, killed)
  /\ lock' = None
  /\ UNCHANGED <<suspended, startLater, budget, chan, delay, running,
                 inode>>

WaitFails(c, p) ==
  /\ InWait(c, p)
  /\ DeadChildren(p) = {}
  /\ ChildrenOf(p) = {} \/ killed[p]
  /\ Return(p, killed)
  /\ lock' = None
  /\ UNCHANGED <<state, killed, suspended, chan, running, tableVars>>

WaitSleeps(c, p) ==
  /\ InWait(c, p)
  /\ DeadChildren(p) = {}
  /\ ChildrenOf(p) # {} /\ ~killed[p]
  /\ Sleep(c, p, p, "wait")
  /\ UNCHANGED tableVars

\* consoleread(): a line is there, the process was killed, or it sleeps until
\* the next wakeup and looks again.
Read(c, p) ==
  /\ On(c, p) /\ pc[p] = "read" /\ LockFree(c)
  /\ \/ /\ Return(p, killed)
        /\ UNCHANGED <<state, killed, suspended, chan, running, lock>>
     \/ ~killed[p] /\ Sleep(c, p, Console, "read")
  /\ UNCHANGED tableVars

\* acquiresleep() on an inode, then sleep() for the disk with it held.
Open(c, p) ==
  /\ On(c, p) /\ pc[p] = "open" /\ LockFree(c)
  /\ IF inode = None
     THEN inode' = p /\ Sleep(c, p, Disk, "disk")
     ELSE UNCHANGED inode /\ Sleep(c, p, InodeLock, "open")
  /\ UNCHANGED <<parent, startLater, budget, child, delay>>

\* releasesleep()
ReleaseInode == inode' = None /\ state' = Woken(InodeLock, state)

\* iderw() sleeps again while the disk has not answered.
OpenReturns(c, p) ==
  /\ On(c, p) /\ pc[p] = "disk" /\ LockFree(c)
  /\ \/ /\ ReleaseInode
        /\ Return(p, killed)
        /\ UNCHANGED <<killed, suspended, chan, running, lock>>
     \/ inode' = inode /\ Sleep(c, p, Disk, "disk")
  /\ UNCHANGED <<parent, startLater, budget, child, delay>>

-----------------------------------------------------------------------------
(* Interrupts *)

\* wakeup() from a device's interrupt handler.
Wakeup(ch) ==
  /\ lock = None
  /\ \E p \in Procs : state[p] = "SLEEPING" /\ chan[p] = ch /\ ~suspended[p]
  /\ state' = Woken(ch, state)
  /\ UNCHANGED <<killed, suspended, chan, pc, running, lock, tableVars>>

\* Mutant of TrapEnds: an interrupt does not end a killed process.
TrapSparesKilled(c, states, susp, kills, clock) ==
  LET p == running[c]
      yields == \/ pc[p] = "user" /\ susp[p] /\ p > shell
                \/ states[p] = "RUNNING" /\ clock
  IN IF p # None /\ yields
     THEN /\ Sched(c, [states EXCEPT ![p] =
                         IF @ = "SUSPENDED" THEN @ ELSE "RUNNABLE"], kills)
          /\ UNCHANGED pc
     ELSE /\ state' = states
          /\ killed' = kills
          /\ UNCHANGED <<pc, running, lock>>

\* The end of trap() on CPU c after an interrupt, given the states, the
\* suspended and the killed flags that the handler left: a suspended user
\* process yields, a killed one exits, and the clock makes a running one
\* yield.  In the kernel only the last applies.
TrapEnds(c, states, susp, kills, clock) ==
  LET p == running[c]
      yields == \/ pc[p] = "user" /\ susp[p] /\ p > shell
                \/ states[p] = "RUNNING" /\ clock /\ ~(pc[p] = "user" /\ kills[p])
  IN IF p # None /\ yields
     THEN /\ Sched(c, [states EXCEPT ![p] =
                         IF @ = "SUSPENDED" THEN @ ELSE "RUNNABLE"], kills)
          /\ UNCHANGED pc
     ELSE /\ state' = states
          /\ killed' = kills
          /\ pc' = IF p # None /\ pc[p] = "user" /\ kills[p]
                   THEN [pc EXCEPT ![p] = "exit"] ELSE pc
          /\ UNCHANGED <<running, lock>>

Timer(c) ==
  /\ lock = None
  /\ running[c] # None
  /\ TrapEnds(c, state, suspended, killed, TRUE)
  /\ suspended' = suspended
  /\ UNCHANGED <<chan, tableVars>>

\* Mutant of SigInt: it makes every user process runnable, the dead ones too.
SigIntFreesAll(c) ==
  /\ LET hit == {p \in Users : state[p] # "UNUSED"}
     IN TrapEnds(c, [p \in Procs |-> IF p \in hit \cup {shell}
                                     THEN "RUNNABLE" ELSE state[p]],
                 suspended, [p \in Procs |-> killed[p] \/ p \in hit], FALSE)
  /\ suspended' = suspended
  /\ UNCHANGED <<chan, tableVars>>

\* send_signal_to_all(), called by the interrupt of a control key on CPU c.
\* init is left alone, the shell is made runnable whatever it was doing.
SigInt(c) ==
  /\ LET hit == {p \in Users : state[p] # "UNUSED"}
         freed == {p \in hit : state[p] \in
                     {"SLEEPING", "SUSPENDED", "WAITING_TO_START", "RUNNABLE"}}
     IN TrapEnds(c, [p \in Procs |-> IF p \in freed \cup {shell}
                                     THEN "RUNNABLE" ELSE state[p]],
                 suspended, [p \in Procs |-> killed[p] \/ p \in hit], FALSE)
  /\ suspended' = suspended
  /\ UNCHANGED <<chan, tableVars>>

\* SIGBG suspends every user process and makes init the parent of all of them.
SigBg(c) ==
  LET hit == {p \in Users : state[p] \in
                {"RUNNING", "RUNNABLE", "SLEEPING", "WAITING_TO_START"}}
  IN /\ suspended' = [p \in Procs |-> suspended[p] \/ p \in hit]
     /\ parent' = [p \in Procs |-> IF p \in Users /\ state[p] # "UNUSED"
                                   THEN init ELSE parent[p]]
     /\ TrapEnds(c, [p \in Procs |-> IF p \in hit THEN "SUSPENDED"
                                     ELSE IF p = shell THEN "RUNNABLE"
                                     ELSE state[p]],
                 suspended', killed, FALSE)
     /\ UNCHANGED <<chan, startLater, budget, child, delay, inode>>

SigFg(c) ==
  LET hit == {p \in Users : state[p] = "SUSPENDED"}
  IN /\ suspended' = [p \in Procs |-> suspended[p] /\ p \notin hit]
     /\ TrapEnds(c, [p \in Procs |-> IF p \in hit \cup {shell}
                                     THEN "RUNNABLE" ELSE state[p]],
                 suspended', killed, FALSE)
     /\ UNCHANGED <<chan, tableVars>>

SendSignalToAll(c) ==
  /\ lock = None
  /\ \/ "SIGINT" \in Signals /\ SigInt(c)
     \/ "SIGBG" \in Signals /\ SigBg(c)
     \/ "SIGFG" \in Signals /\ SigFg(c)

-----------------------------------------------------------------------------

\* init sleeps in wait(), the shell is about to run, every other slot is free.
Init ==
  /\ state = [p \in Procs |-> IF p = init THEN "SLEEPING"
                              ELSE IF p = shell THEN "RUNNABLE" ELSE "UNUSED"]
  /\ parent = [p \in Procs |-> IF p = shell THEN init ELSE None]
  /\ killed = [p \in Procs |-> FALSE]
  /\ suspended = [p \in Procs |-> FALSE]
  /\ startLater = [p \in Procs |-> FALSE]
  /\ budget = [p \in Procs |-> FALSE]
  /\ chan = [p \in Procs |-> IF p = init THEN init ELSE None]
  /\ pc = [p \in Procs |-> IF p = init THEN "wait" ELSE "user"]
  /\ child = [p \in Procs |-> None]
  /\ delay = [p \in Procs |-> "none"]
  /\ running = [c \in CPUs |-> None]
  /\ lock = None
  /\ inode = None

SystemCall(c, p) ==
  \/ EnterKernel(c, p) \/ Fork(c, p) \/ CopyProcess(c, p) \/ ForkReturns(c, p)
  \/ FindChild(c, p) \/ SetStartLater(c, p) \/ SetExecTime(c, p) \/ SetState(c, p)
  \/ SchedulerStart(c, p) \/ KillSome(c, p) \/ Exit(c, p)
  \/ WaitReaps(c, p) \/ WaitFails(c, p) \/ WaitSleeps(c, p)
  \/ Read(c, p) \/ Open(c, p) \/ OpenReturns(c, p)

Next ==
  \/ \E c \in CPUs, p \in Procs : Schedule(c, p) \/ SystemCall(c, p)
  \/ \E c \in CPUs : Timer(c) \/ SendSignalToAll(c)
  \/ \E ch \in {Console, Disk} : Wakeup(ch)

Spec == Init /\ [][Next]_vars

-----------------------------------------------------------------------------
(* Fairness.  A clock tick is long enough for the kernel code it finds to  *)
(* make a step before the next one, the clock keeps ticking, the devices   *)
(* answer, and the scheduler, whose priorities grow with the time a        *)
(* process waits, leaves no process eligible for ever while it has a CPU   *)
(* to give.  Programs may compute for ever; the shell does not keep a CPU, *)
(* it waits for its child or for the next line.                            *)

KernelStep(c, p) ==
  \/ CopyProcess(c, p) \/ ForkReturns(c, p)
  \/ FindChild(c, p) \/ SetStartLater(c, p) \/ SetExecTime(c, p) \/ SetState(c, p)
  \/ Exit(c, p)
  \/ WaitReaps(c, p) \/ WaitFails(c, p) \/ WaitSleeps(c, p)
  \/ Read(c, p) \/ Open(c, p) \/ OpenReturns(c, p)

FairScheduler(c) ==
  []<>(running[c] = None /\ lock = None) => \A p \in Procs : []<>~Eligible(p)

FairSpec ==
  /\ Spec
  /\ \A c \in CPUs :
       /\ \A p \in Procs : SF_vars(KernelStep(c, p))
       /\ FairScheduler(c)
       /\ WF_vars(Timer(c))
       /\ []<>(running[c] # shell)
  /\ WF_vars(Wakeup(Console))
  /\ WF_vars(Wakeup(Disk))

-----------------------------------------------------------------------------
(* Properties *)

States == {"UNUSED", "EMBRYO", "SLEEPING", "WAITING_TO_START", "RUNNABLE",
           "RUNNING", "ZOMBIE", "SUSPENDED"}

\* Every variable has its type, and a process that sleeps, in sleep(), has a
\* channel that some wakeup() can name.
TypeOK ==
  /\ state \in [Procs -> States]
  /\ parent \in [Procs -> Procs \cup {None}]
  /\ killed \in [Procs -> BOOLEAN]
  /\ suspended \in [Procs -> BOOLEAN]
  /\ startLater \in [Procs -> BOOLEAN]
  /\ budget \in [Procs -> BOOLEAN]
  /\ chan \in [Procs -> Channels \cup {None}]
  /\ pc \in [Procs -> {"user", "copy", "fork", "custom_fork", "set_start_later",
                       "set_exec_time", "set_state", "wait", "read", "open",
                       "disk", "exit", "dead"}]
  /\ child \in [Procs -> Procs \cup {None}]
  /\ delay \in [Procs -> {"none", "now", "later"}]
  /\ running \in [CPUs -> Procs \cup {None}]
  /\ lock \in CPUs \cup {None}
  /\ inode \in Procs \cup {None}
  /\ \A p \in Procs : state[p] = "SLEEPING" => chan[p] # None

\* A process is RUNNING exactly while it is on a CPU, and on one only: fork(),
\* kill(), wakeup() and exit() never change the state of one that runs.
RunningOnOneCpu ==
  \A p \in Procs :
    Cardinality({c \in CPUs : running[c] = p}) = IF state[p] = "RUNNING" THEN 1 ELSE 0

\* No two CPUs execute the same process, on the same kernel stack.
OneCpuEach ==
  \A c, d \in CPUs : running[c] = running[d] /\ running[c] # None => c = d

\* Every process but init has a parent that can still wait for it, from the
\* moment fork() makes it RUNNABLE: exit() leaves no child to a dead process or
\* to a slot that is used again.
ParentsAlive ==
  \A p \in Procs \ {init} : state[p] \notin {"UNUSED", "EMBRYO"} =>
    parent[p] # None /\ state[parent[p]] \notin {"UNUSED", "EMBRYO", "ZOMBIE"}

\* A process that exited is a zombie until it is reaped, and never runs again.
DeadStaysDead ==
  \A p \in Procs : pc[p] = "dead" => state[p] \in {"ZOMBIE", "UNUSED"}

\* Nobody sleeps for what has happened: in wait() with a dead child to reap or
\* with no child left, or in acquiresleep() for a lock that is free.
NoLostWakeup ==
  \A p \in Procs : state[p] = "SLEEPING" =>
    /\ chan[p] = p => DeadChildren(p) = {} /\ ChildrenOf(p) # {}
    /\ chan[p] = InodeLock => inode # None

\* A process in WAITING_TO_START has start_later set, so that scheduler_start()
\* will find it: custom_fork() sets the flag before the state, without a lock,
\* and scheduler_start() leaves the flag of a process that does not wait yet.
DelayedCanStart ==
  \A p \in Procs : state[p] = "WAITING_TO_START" => startLater[p]

\* A process whose start_later is set does not run until scheduler_start().
StartLaterWaits == \A p \in Procs : startLater[p] => state[p] # "RUNNING"

\* A killed process comes to an end, wherever it was sleeping or waiting, as far
\* as exit() itself does not wait for the file system (Exit).
KilledEnds ==
  \A p \in Users : killed[p] ~> (state[p] \in {"ZOMBIE", "UNUSED"})

\* init reaps every zombie it is the parent of.
OrphansAreReaped ==
  \A p \in Users : (state[p] = "ZOMBIE" /\ parent[p] = init) ~> (state[p] = "UNUSED")
=============================================================================

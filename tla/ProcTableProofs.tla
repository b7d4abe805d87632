--------------------------- MODULE ProcTableProofs ---------------------------
(***************************************************************************)
(* Proofs about ProcTable, for every size of the table and every program.  *)
(* Everything follows from two inductive invariants.  FamilyInv, about who *)
(* lives, who is whose child and who is forking whom, holds for as long as *)
(* no process is on two CPUs, unless both Ctrl-B and custom_fork() are     *)
(* used; CpuInv, about who is RUNNING, holds without control keys, and     *)
(* without custom_fork() unless there is one CPU.                          *)
(***************************************************************************)
EXTENDS ProcTable, FiniteSetTheorems, TLAPS

-----------------------------------------------------------------------------
(* Facts about the helpers *)

\* Where a process can continue.
Places == {"user", "copy", "fork", "custom_fork", "set_start_later",
           "set_exec_time", "set_state", "wait", "read", "open", "disk",
           "exit", "dead"}

\* Where a process holds the slot of a child that it is forking.
Forking == {"copy", "fork", "custom_fork", "set_start_later", "set_exec_time",
            "set_state"}

\* init, and the shell, have slots, and a slot is neither a channel of another
\* kind nor None.
LEMMA SlotFacts ==
  /\ init \in Procs /\ shell \in Procs
  /\ Users \subseteq Procs
  /\ None \notin Procs /\ None \notin Channels /\ None \notin CPUs
  /\ Procs \subseteq Channels
  /\ Procs \subseteq Nat
  /\ \A p \in Procs : p # Console /\ p # Disk /\ p # InodeLock
  BY ProcAssumption DEF Procs, init, shell, Users, Channels

\* Giving up a CPU marks at most its own process killed, and nothing else
\* about the processes changes.
LEMMA SchedType ==
  ASSUME TypeOK, NEW c \in CPUs, running[c] \in Procs,
         NEW states \in [Procs -> States], NEW kills \in [Procs -> BOOLEAN],
         Sched(c, states, kills)
  PROVE  /\ state' \in [Procs -> States]
         /\ killed' \in [Procs -> BOOLEAN]
         /\ running' \in [CPUs -> Procs \cup {None}]
         /\ lock' \in CPUs \cup {None}
  BY DEF Sched, ChargeTime, TypeOK

\* Sleeping keeps the types, and gives the sleeper a channel.
LEMMA SleepType ==
  ASSUME TypeOK, NEW c \in CPUs, NEW p \in Procs, running[c] = p,
         NEW ch \in Channels,
         NEW k \in Places,
         Sleep(c, p, ch, k)
  PROVE  /\ state' \in [Procs -> States]
         /\ killed' \in [Procs -> BOOLEAN]
         /\ suspended' \in [Procs -> BOOLEAN]
         /\ chan' \in [Procs -> Channels \cup {None}]
         /\ pc' \in [Procs -> Places]
         /\ running' \in [CPUs -> Procs \cup {None}]
         /\ lock' \in CPUs \cup {None}
         /\ \A q \in Procs : state'[q] = "SLEEPING" => chan'[q] # None
  <1> DEFINE states == [state EXCEPT ![p] = "SLEEPING"]
  <1>1. states \in [Procs -> States]
    BY DEF TypeOK, States
  <1>2. Sched(c, states, killed) /\ state' = states
    BY DEF Sleep, Sched
  <1> HIDE DEF states
  <1>3. /\ state' \in [Procs -> States]
        /\ killed' \in [Procs -> BOOLEAN]
        /\ running' \in [CPUs -> Procs \cup {None}]
        /\ lock' \in CPUs \cup {None}
    BY <1>1, <1>2, SchedType DEF TypeOK
  <1>4. \A q \in Procs : state'[q] = "SLEEPING" => chan'[q] # None
    BY <1>2, SlotFacts DEF states, Sleep, TypeOK
  <1> QED
    BY <1>3, <1>4 DEF Sleep, TypeOK, Places

\* wakeup1() only makes sleepers runnable.
LEMMA WokenType ==
  ASSUME NEW ch, NEW states \in [Procs -> States]
  PROVE  /\ Woken(ch, states) \in [Procs -> States]
         /\ \A q \in Procs : Woken(ch, states)[q] = "SLEEPING" => states[q] = "SLEEPING"
  BY DEF Woken, States

\* The end of an interrupt keeps the types, and leaves no process sleeping
\* that the handler did not.
LEMMA TrapEndsType ==
  ASSUME TypeOK, NEW c \in CPUs,
         NEW states \in [Procs -> States], NEW kills \in [Procs -> BOOLEAN],
         NEW susp, NEW clock,
         TrapEnds(c, states, susp, kills, clock)
  PROVE  /\ state' \in [Procs -> States]
         /\ killed' \in [Procs -> BOOLEAN]
         /\ pc' \in [Procs -> Places]
         /\ running' \in [CPUs -> Procs \cup {None}]
         /\ lock' \in CPUs \cup {None}
         /\ \A q \in Procs : state'[q] = "SLEEPING" => states[q] = "SLEEPING"
  <1> DEFINE p == running[c]
             yields == \/ pc[p] = "user" /\ susp[p] /\ p > shell
                       \/ states[p] = "RUNNING" /\ clock
                            /\ ~(pc[p] = "user" /\ kills[p])
             left == [states EXCEPT ![p] =
                        IF @ = "SUSPENDED" THEN @ ELSE "RUNNABLE"]
  <1>1. CASE p # None /\ yields
    <2>1. p \in Procs
      BY <1>1 DEF TypeOK
    <2>2. left \in [Procs -> States]
      BY <2>1 DEF States
    <2>3. Sched(c, left, kills) /\ UNCHANGED pc
      BY <1>1 DEF TrapEnds
    <2>4. \A q \in Procs : left[q] = "SLEEPING" => states[q] = "SLEEPING"
      BY <2>1
    <2> HIDE DEF left
    <2>5. state' = left
      BY <2>3 DEF Sched
    <2> QED
      BY <2>1, <2>2, <2>3, <2>4, <2>5, SchedType DEF TypeOK, Places
  <1>2. CASE ~(p # None /\ yields)
    <2>1. /\ state' = states
          /\ killed' = kills
          /\ pc' = IF p # None /\ pc[p] = "user" /\ kills[p]
                   THEN [pc EXCEPT ![p] = "exit"] ELSE pc
          /\ UNCHANGED <<running, lock>>
      BY <1>2 DEF TrapEnds
    <2> QED
      BY <2>1 DEF TypeOK, Places
  <1> QED
    BY <1>1, <1>2

-----------------------------------------------------------------------------
(* Types *)

\* No system call breaks a type.
LEMMA SystemCallType ==
  ASSUME TypeOK, NEW c \in CPUs, NEW p \in Procs, SystemCall(c, p)
  PROVE  TypeOK'
  <1>0. /\ init \in Procs /\ Users \subseteq Procs
        /\ {Console, Disk, InodeLock, p} \subseteq Channels
    BY SlotFacts DEF Channels
  <1>1. CASE EnterKernel(c, p)
    BY <1>1 DEF EnterKernel, TypeOK, tableVars
  <1>2. CASE Fork(c, p)
    <2>1. PICK q \in Procs :
            /\ state' = [state EXCEPT ![q] = "EMBRYO"]
            /\ suspended' = [suspended EXCEPT ![q] = FALSE]
            /\ child' = [child EXCEPT ![p] = q]
            /\ \E d \in {"none", "now", "later"} :
                 delay' = [delay EXCEPT ![p] = d]
            /\ pc' = [pc EXCEPT ![p] = "copy", ![q] = "user"]
      BY <1>2 DEF Fork
    <2> QED
      BY <1>2, <2>1 DEF Fork, TypeOK, States
  <1>3. CASE CopyProcess(c, p)
    BY <1>3 DEF CopyProcess, TypeOK
  <1>4. CASE ForkReturns(c, p)
    BY <1>4 DEF ForkReturns, Return, TypeOK, States
  <1>14. CASE FindChild(c, p)
    BY <1>14 DEF FindChild, Return, TypeOK, tableVars
  <1>15. CASE SetStartLater(c, p)
    BY <1>15 DEF SetStartLater, TypeOK
  <1>16. CASE SetExecTime(c, p)
    <2>1. PICK b \in BOOLEAN : budget' = [budget EXCEPT ![child[p]] = b]
      BY <1>16, ProcAssumption DEF SetExecTime
    <2> QED
      BY <1>16, <2>1 DEF SetExecTime, TypeOK
  <1>17. CASE SetState(c, p)
    BY <1>17 DEF SetState, Return, TypeOK, States
  <1>5. CASE SchedulerStart(c, p)
    BY <1>5 DEF SchedulerStart, TypeOK, States
  <1>6. CASE KillSome(c, p)
    BY <1>0, <1>6 DEF KillSome, Return, TypeOK, States, tableVars
  <1>7. CASE Exit(c, p)
    <2>1. PICK woken \in [Procs -> States] :
            /\ \A q \in Procs : woken[q] = "SLEEPING" => state[q] = "SLEEPING"
            /\ Sched(c, [woken EXCEPT ![p] = "ZOMBIE"], killed)
      <3>1. state \in [Procs -> States]
        BY DEF TypeOK
      <3> DEFINE once == Woken(parent[p], state)
                 twice == Woken(init, once)
      <3>2. /\ once \in [Procs -> States]
            /\ \A q \in Procs : once[q] = "SLEEPING" => state[q] = "SLEEPING"
        BY <3>1, WokenType
      <3>3. /\ twice \in [Procs -> States]
            /\ \A q \in Procs : twice[q] = "SLEEPING" => once[q] = "SLEEPING"
        BY <3>2, WokenType
      <3>4. \/ Sched(c, [once EXCEPT ![p] = "ZOMBIE"], killed)
            \/ Sched(c, [twice EXCEPT ![p] = "ZOMBIE"], killed)
        <4>1. CASE \E q \in {r \in Procs : parent[r] = p} : state[q] = "ZOMBIE"
          BY <1>7, <4>1 DEF Exit
        <4>2. CASE ~ \E q \in {r \in Procs : parent[r] = p} : state[q] = "ZOMBIE"
          BY <1>7, <4>2 DEF Exit
        <4> QED
          BY <4>1, <4>2
      <3> QED
        BY <3>2, <3>3, <3>4
    <2>2. [woken EXCEPT ![p] = "ZOMBIE"] \in [Procs -> States]
      BY DEF States
    <2>3. state' = [woken EXCEPT ![p] = "ZOMBIE"]
      BY <2>1 DEF Sched
    <2>4. \A q \in Procs : state'[q] = "SLEEPING" => chan[q] # None
      BY <2>1, <2>3 DEF TypeOK
    <2>5. running[c] \in Procs
      BY <1>7 DEF Exit, On
    <2>6. /\ state' \in [Procs -> States]
          /\ killed' \in [Procs -> BOOLEAN]
          /\ running' \in [CPUs -> Procs \cup {None}]
          /\ lock' \in CPUs \cup {None}
      BY <2>1, <2>2, <2>5, SchedType DEF TypeOK
    <2>7. parent' \in [Procs -> Procs \cup {None}]
      BY <1>0, <1>7 DEF Exit, TypeOK
    <2>8. /\ pc' = [pc EXCEPT ![p] = "dead"]
          /\ UNCHANGED <<suspended, startLater, budget, chan, child, delay, inode>>
      BY <1>7 DEF Exit
    <2> QED
      BY <2>4, <2>6, <2>7, <2>8 DEF TypeOK
  <1>8. CASE WaitReaps(c, p)
    <2>1. PICK q \in Procs :
            /\ state' = [state EXCEPT ![q] = "UNUSED"]
            /\ parent' = [parent EXCEPT ![q] = None]
            /\ killed' = [killed EXCEPT ![q] = FALSE]
            /\ child' = [r \in Procs |->
                 IF child[r] = q /\ pc[r] = "custom_fork" THEN None ELSE child[r]]
      BY <1>8 DEF WaitReaps, DeadChildren, ChildrenOf
    <2>2. /\ pc' \in [Procs -> Places]
          /\ lock' = None
          /\ UNCHANGED <<suspended, startLater, budget, chan, delay, running,
                         inode>>
      BY <1>8 DEF WaitReaps, Return, TypeOK, Places
    <2>3. /\ state' \in [Procs -> States]
          /\ \A r \in Procs : state'[r] = "SLEEPING" => state[r] = "SLEEPING"
      BY <2>1 DEF TypeOK, States
    <2> QED
      BY <2>1, <2>2, <2>3 DEF TypeOK, Places
  <1>9. CASE WaitFails(c, p)
    BY <1>9 DEF WaitFails, Return, TypeOK, tableVars
  <1>10. CASE WaitSleeps(c, p)
    <2>1. running[c] = p /\ Sleep(c, p, p, "wait") /\ UNCHANGED tableVars
      BY <1>10 DEF WaitSleeps, InWait, On
    <2> QED
      BY <1>0, <2>1, SleepType DEF TypeOK, Places, tableVars
  <1>11. CASE Read(c, p)
    <2>1. CASE Return(p, killed) /\ UNCHANGED <<state, killed, suspended, chan,
                                               running, lock>>
      BY <1>11, <2>1 DEF Read, Return, TypeOK, tableVars
    <2>2. CASE Sleep(c, p, Console, "read")
      <3>1. running[c] = p /\ UNCHANGED tableVars
        BY <1>11 DEF Read, On
      <3> QED
        BY <1>0, <2>2, <3>1, SleepType DEF TypeOK, Places, tableVars
    <2> QED
      BY <1>11, <2>1, <2>2 DEF Read
  <1>12. CASE Open(c, p)
    <2>1. PICK ch \in Channels, k \in Places : Sleep(c, p, ch, k)
      BY <1>0, <1>12 DEF Open, Places
    <2>2. running[c] = p
      BY <1>12 DEF Open, On
    <2> QED
      BY <1>12, <2>1, <2>2, SleepType DEF Open, TypeOK, Places
  <1>13. CASE OpenReturns(c, p)
    <2>1. CASE ReleaseInode /\ Return(p, killed)
                 /\ UNCHANGED <<killed, suspended, chan, running, lock>>
      <3>1. /\ state' \in [Procs -> States]
            /\ \A q \in Procs : state'[q] = "SLEEPING" => state[q] = "SLEEPING"
        BY <2>1, WokenType DEF ReleaseInode, TypeOK
      <3> QED
        BY <1>13, <2>1, <3>1 DEF OpenReturns, ReleaseInode, Return, TypeOK
    <2>2. CASE inode' = inode /\ Sleep(c, p, Disk, "disk")
      <3>1. /\ running[c] = p
            /\ UNCHANGED <<parent, startLater, budget, child, delay>>
        BY <1>13 DEF OpenReturns, On
      <3> QED
        BY <1>0, <2>2, <3>1, SleepType DEF TypeOK, Places
    <2> QED
      BY <1>13, <2>1, <2>2 DEF OpenReturns
  <1> QED
    BY <1>1, <1>2, <1>3, <1>4, <1>5, <1>6, <1>7, <1>8, <1>9, <1>10, <1>11,
       <1>12, <1>13, <1>14, <1>15, <1>16, <1>17 DEF SystemCall

\* No interrupt breaks a type.
LEMMA InterruptType ==
  ASSUME TypeOK, NEW c \in CPUs, Timer(c) \/ SendSignalToAll(c)
  PROVE  TypeOK'
  <1>0. init \in Procs
    BY SlotFacts
  <1>1. CASE Timer(c)
    <2>1. /\ TrapEnds(c, state, suspended, killed, TRUE)
          /\ UNCHANGED <<suspended, chan, tableVars>>
      BY <1>1 DEF Timer
    <2> QED
      BY <2>1, TrapEndsType DEF TypeOK, Places, tableVars
  <1>2. CASE SigInt(c)
    <2>1. PICK states, kills :
            /\ states \in [Procs -> States] /\ kills \in [Procs -> BOOLEAN]
            /\ \A q \in Procs : states[q] = "SLEEPING" => state[q] = "SLEEPING"
            /\ TrapEnds(c, states, suspended, kills, FALSE)
      <3> DEFINE hit == {p \in Users : state[p] # "UNUSED"}
                 freed == {p \in hit : state[p] \in
                     {"SLEEPING", "SUSPENDED", "WAITING_TO_START", "RUNNABLE"}}
                 states == [p \in Procs |-> IF p \in freed \cup {shell}
                                            THEN "RUNNABLE" ELSE state[p]]
                 kills == [p \in Procs |-> killed[p] \/ p \in hit]
      <3>1. states \in [Procs -> States] /\ kills \in [Procs -> BOOLEAN]
        BY DEF TypeOK, States
      <3>2. \A q \in Procs : states[q] = "SLEEPING" => state[q] = "SLEEPING"
        OBVIOUS
      <3>3. TrapEnds(c, states, suspended, kills, FALSE)
        BY <1>2 DEF SigInt
      <3> QED
        BY <3>1, <3>2, <3>3
    <2>2. UNCHANGED <<suspended, chan, tableVars>>
      BY <1>2 DEF SigInt
    <2> QED
      BY <2>1, <2>2, TrapEndsType DEF TypeOK, Places, tableVars
  <1>3. CASE SigBg(c)
    <2> DEFINE hit == {p \in Users : state[p] \in
                         {"RUNNING", "RUNNABLE", "SLEEPING", "WAITING_TO_START"}}
               states == [p \in Procs |-> IF p \in hit THEN "SUSPENDED"
                                          ELSE IF p = shell THEN "RUNNABLE"
                                          ELSE state[p]]
    <2>1. /\ states \in [Procs -> States]
          /\ \A q \in Procs : states[q] = "SLEEPING" => state[q] = "SLEEPING"
      BY DEF TypeOK, States
    <2>2. TrapEnds(c, states, suspended', killed, FALSE)
      BY <1>3 DEF SigBg
    <2>3. /\ suspended' \in [Procs -> BOOLEAN]
          /\ parent' \in [Procs -> Procs \cup {None}]
          /\ UNCHANGED <<chan, startLater, budget, child, delay, inode>>
      BY <1>0, <1>3 DEF SigBg, TypeOK
    <2> HIDE DEF states
    <2> QED
      BY <2>1, <2>2, <2>3, TrapEndsType DEF TypeOK, Places
  <1>4. CASE SigFg(c)
    <2> DEFINE hit == {p \in Users : state[p] = "SUSPENDED"}
               states == [p \in Procs |-> IF p \in hit \cup {shell}
                                          THEN "RUNNABLE" ELSE state[p]]
    <2>1. /\ states \in [Procs -> States]
          /\ \A q \in Procs : states[q] = "SLEEPING" => state[q] = "SLEEPING"
      BY DEF TypeOK, States
    <2>2. TrapEnds(c, states, suspended', killed, FALSE)
      BY <1>4 DEF SigFg
    <2>3. suspended' \in [Procs -> BOOLEAN] /\ UNCHANGED <<chan, tableVars>>
      BY <1>4 DEF SigFg, TypeOK
    <2> HIDE DEF states
    <2> QED
      BY <2>1, <2>2, <2>3, TrapEndsType DEF TypeOK, Places, tableVars
  <1> QED
    BY <1>1, <1>2, <1>3, <1>4 DEF SendSignalToAll

\* Every variable keeps its type, whatever the programs do and whichever
\* control keys are pressed, and every process in sleep() has a channel.
THEOREM TypeCorrect == Spec => []TypeOK
  <1>1. Init => TypeOK
    <2> SUFFICES ASSUME Init PROVE TypeOK
      OBVIOUS
    <2> QED
      BY SlotFacts DEF Init, TypeOK, States, Channels
  <1>2. TypeOK /\ [Next]_vars => TypeOK'
    <2> SUFFICES ASSUME TypeOK, [Next]_vars PROVE TypeOK'
      OBVIOUS
    <2>1. ASSUME NEW c \in CPUs, NEW p \in Procs, Schedule(c, p)
          PROVE  TypeOK'
      <3>1. /\ state' = [state EXCEPT ![p] = "RUNNING"]
            /\ running' = [running EXCEPT ![c] = p]
            /\ chan' = [chan EXCEPT ![p] = None]
            /\ UNCHANGED <<parent, killed, suspended, startLater, budget, child,
                           delay, inode>>
        BY <2>1 DEF Schedule
      <3>2. pc' \in [Procs -> Places] /\ lock' \in CPUs \cup {None}
        BY <2>1 DEF Schedule, TypeOK, Places
      <3> QED
        BY <3>1, <3>2 DEF TypeOK, States, Places
    <2>2. ASSUME NEW ch \in {Console, Disk}, Wakeup(ch)
          PROVE  TypeOK'
      BY <2>2, WokenType DEF Wakeup, TypeOK, tableVars
    <2>3. CASE UNCHANGED vars
      BY <2>3 DEF TypeOK, vars
    <2> QED
      BY <2>1, <2>2, <2>3, SystemCallType, InterruptType DEF Next
  <1> QED
    BY <1>1, <1>2, PTL DEF Spec

-----------------------------------------------------------------------------
(* Families.  As long as no process is on two CPUs, every process has a    *)
(* parent that lives, whatever the control keys and custom_fork() do, if   *)
(* Ctrl-B and custom_fork() do not come together: Ctrl-B gives the child   *)
(* to init, which may reap it while custom_fork() still points to its slot.*)

Dead == {"UNUSED", "EMBRYO", "ZOMBIE"}

\* A process on a CPU lives, and is in no sleep().
OnCpuAwake ==
  \A c \in CPUs : running[c] # None =>
    state[running[c]] \notin Dead \cup {"SLEEPING"} /\ chan[running[c]] = None

\* init and the shell live, and nothing can make them exit.
SystemLives ==
  \A p \in {init, shell} :
    state[p] \notin Dead /\ ~killed[p] /\ ~budget[p] /\ pc[p] \notin {"exit", "dead"}

\* A free slot is nobody's child.
FreeSlotsAreNoChildren == \A p \in Procs : state[p] = "UNUSED" => parent[p] = None

\* A process that is forking lives; the child it holds is in use, nobody else
\* is forking it, and it is neither init nor the shell; until fork() ends it
\* has not run, and only Ctrl-B gives it to another parent.
ForkHoldsChild ==
  \A p \in Procs :
    /\ child[p] # None <=> pc[p] \in Forking
    /\ pc[p] \in Forking =>
         /\ state[p] \notin Dead /\ chan[p] = None
         /\ child[p] \notin {p, init, shell}
         /\ state[child[p]] # "UNUSED"
         /\ \A r \in Procs : child[r] = child[p] => r = p
         /\ pc[p] \in {"copy", "fork"} => state[child[p]] = "EMBRYO"
         /\ pc[p] = "fork" => parent[child[p]] \in {p, init}
         /\ "SIGBG" \notin Signals =>
              parent[child[p]] = IF pc[p] = "copy" THEN None ELSE p

FamilyInv ==
  /\ TypeOK
  /\ OnCpuAwake
  /\ SystemLives
  /\ FreeSlotsAreNoChildren
  /\ ForkHoldsChild
  /\ ParentsAlive

\* custom_fork() was never called.
NoCustomFork ==
  \A p \in Procs :
    delay[p] = "none" /\ pc[p] \notin Forking \ {"copy", "fork"}

\* No custom_fork() holds a child that Ctrl-B has given to init.
HoldsOwnChild == "SIGBG" \notin Signals \/ NoCustomFork

\* A process that is forking after a step was forking the same child before,
\* and fork() itself has not moved on; any other holds no child.
ForkersGoOn ==
  \A p \in Procs :
    IF pc'[p] \in Forking
    THEN /\ pc[p] \in Forking /\ child'[p] = child[p] /\ chan'[p] = None
         /\ pc'[p] \in {"copy", "fork"} => pc'[p] = pc[p]
         /\ pc[p] = "copy" => pc'[p] = "copy"
    ELSE child'[p] = None

\* What most steps do to the processes: nobody dies and no slot is freed, only
\* Ctrl-B changes parents, to init, and whom fork() makes runnable has one.
NobodyDies ==
  /\ \A p \in Procs :
       \/ parent'[p] = parent[p]
       \/ parent'[p] = init /\ state[p] # "UNUSED" /\ "SIGBG" \in Signals
  /\ ForkersGoOn
  /\ \A p \in Procs : state'[p] # state[p] =>
       /\ state[p] # "UNUSED" /\ state'[p] \notin Dead
       /\ \A r \in Procs : pc'[r] \in {"copy", "fork"} => child[r] # p
       /\ state[p] = "EMBRYO" => parent[p] \in Procs /\ state[parent[p]] \notin Dead

\* init and the shell are given no reason to exit.
SystemSpared ==
  \A p \in {init, shell} : ~killed'[p] /\ ~budget'[p] /\ pc'[p] \notin {"exit", "dead"}

\* Such a step keeps the families.
LEMMA NobodyDiesKeepsFamilies ==
  ASSUME FamilyInv, TypeOK', NobodyDies, SystemSpared, OnCpuAwake'
  PROVE  FamilyInv'
  <1>1. /\ init \in Procs /\ shell \in Procs /\ None \notin Procs
        /\ state[init] \notin Dead /\ TypeOK
    BY SlotFacts DEF FamilyInv, SystemLives
  <1>2. \A p \in Procs : state[p] \notin Dead => state'[p] \notin Dead
    BY DEF NobodyDies
  <1>3. SystemLives'
    BY <1>1, <1>2 DEF FamilyInv, SystemLives, SystemSpared
  <1>4. FreeSlotsAreNoChildren'
    <2> SUFFICES ASSUME NEW p \in Procs, state'[p] = "UNUSED"
                 PROVE  parent'[p] = None
      BY DEF FreeSlotsAreNoChildren
    <2>1. state[p] = "UNUSED"
      BY DEF NobodyDies, Dead
    <2> QED
      BY <2>1 DEF NobodyDies, FamilyInv, FreeSlotsAreNoChildren
  <1>5. ForkHoldsChild'
    <2>1. \A r \in Procs : child'[r] # None => child[r] = child'[r] /\ pc'[r] \in Forking
      BY DEF NobodyDies, ForkersGoOn
    <2> SUFFICES ASSUME NEW p \in Procs, pc'[p] \in Forking
                 PROVE  /\ child'[p] # None
                        /\ state'[p] \notin Dead /\ chan'[p] = None
                        /\ child'[p] \notin {p, init, shell}
                        /\ state'[child'[p]] # "UNUSED"
                        /\ \A r \in Procs : child'[r] = child'[p] => r = p
                        /\ pc'[p] \in {"copy", "fork"} => state'[child'[p]] = "EMBRYO"
                        /\ pc'[p] = "fork" => parent'[child'[p]] \in {p, init}
                        /\ "SIGBG" \notin Signals =>
                             parent'[child'[p]] = IF pc'[p] = "copy" THEN None ELSE p
      BY <2>1 DEF ForkHoldsChild
    <2>2. /\ pc[p] \in Forking /\ child'[p] = child[p] /\ chan'[p] = None
          /\ pc'[p] \in {"copy", "fork"} => pc'[p] = pc[p]
          /\ pc[p] = "copy" => pc'[p] = "copy"
      BY DEF NobodyDies, ForkersGoOn
    <2> DEFINE q == child[p]
    <2>3. /\ q \in Procs
          /\ state[p] \notin Dead
          /\ q \notin {p, init, shell}
          /\ state[q] # "UNUSED"
          /\ \A r \in Procs : child[r] = q => r = p
          /\ pc[p] \in {"copy", "fork"} => state[q] = "EMBRYO"
          /\ pc[p] = "fork" => parent[q] \in {p, init}
          /\ "SIGBG" \notin Signals =>
               parent[q] = IF pc[p] = "copy" THEN None ELSE p
      BY <1>1, <2>2 DEF FamilyInv, ForkHoldsChild, TypeOK
    <2> HIDE DEF q
    <2>4. child'[p] = q /\ child'[p] # None
      BY <1>1, <2>2, <2>3 DEF q
    <2>5. state'[q] # "UNUSED" /\ (pc'[p] \in {"copy", "fork"} => state'[q] = state[q])
      BY <2>3 DEF NobodyDies, Dead, q
    <2>6. parent'[q] = parent[q] \/ (parent'[q] = init /\ "SIGBG" \in Signals)
      BY <2>3 DEF NobodyDies
    <2>7. \A r \in Procs : child'[r] = q => r = p
      BY <2>1, <2>3, <2>4
    <2> QED
      BY <1>2, <2>2, <2>3, <2>4, <2>5, <2>6, <2>7
  <1>6. ParentsAlive'
    <2> SUFFICES ASSUME NEW p \in Procs \ {init}, state'[p] \notin {"UNUSED", "EMBRYO"}
                 PROVE  parent'[p] # None /\ state'[parent'[p]] \notin Dead
      BY DEF ParentsAlive, Dead
    <2>1. parent[p] # None /\ parent[p] \in Procs /\ state[parent[p]] \notin Dead
      <3>1. CASE state[p] \in {"UNUSED", "EMBRYO"}
        BY <1>1, <3>1 DEF NobodyDies
      <3>2. CASE state[p] \notin {"UNUSED", "EMBRYO"}
        BY <1>1, <3>2 DEF FamilyInv, ParentsAlive, Dead, TypeOK
      <3> QED
        BY <3>1, <3>2
    <2> QED
      BY <1>1, <1>2, <2>1 DEF NobodyDies
  <1> QED
    BY <1>3, <1>4, <1>5, <1>6 DEF FamilyInv

\* The process that gives up CPU c is on no CPU any more, and only its own
\* killed flag may have been set by the clock.
LEMMA GivesUpCpu ==
  ASSUME TypeOK, OneCpuEach, NEW c \in CPUs, running[c] \in Procs,
         NEW states, NEW kills \in [Procs -> BOOLEAN], Sched(c, states, kills)
  PROVE  /\ \A d \in CPUs : running'[d] # None =>
              running'[d] = running[d] /\ running[d] # running[c]
         /\ \A q \in Procs : killed'[q] => kills[q] \/ (q = running[c] /\ budget[q])
         /\ \A q \in Procs : kills[q] => killed'[q]
         /\ state' = states
  <1>1. running' = [running EXCEPT ![c] = None] /\ state' = states
    BY DEF Sched
  <1>2. \A d \in CPUs : running'[d] # None =>
              running'[d] = running[d] /\ running[d] # running[c]
    BY <1>1, SlotFacts DEF OneCpuEach, TypeOK
  <1>3. \/ killed' = kills
        \/ budget[running[c]] /\ killed' = [kills EXCEPT ![running[c]] = TRUE]
    BY DEF Sched, ChargeTime
  <1> QED
    BY <1>1, <1>2, <1>3

\* A process in the kernel that goes to sleep stays a living one.
LEMMA SleepKeepsFamilies ==
  ASSUME FamilyInv, OneCpuEach, TypeOK', NEW c \in CPUs, NEW p \in Procs, On(c, p),
         pc[p] \notin Forking,
         NEW ch, NEW k \in Places \ (Forking \cup {"exit", "dead"}), Sleep(c, p, ch, k),
         UNCHANGED <<parent, budget, child>>
  PROVE  FamilyInv'
  <1>1. TypeOK /\ running[c] = p /\ state[p] \notin Dead /\ killed \in [Procs -> BOOLEAN]
    BY DEF On, FamilyInv, OnCpuAwake, TypeOK
  <1>2. /\ state' = [state EXCEPT ![p] = "SLEEPING"]
        /\ \A d \in CPUs : running'[d] # None => running'[d] = running[d] /\ running[d] # p
        /\ \A q \in Procs : killed'[q] => killed[q] \/ budget[q]
    <2> DEFINE states == [state EXCEPT ![p] = "SLEEPING"]
    <2>1. Sched(c, states, killed)
      BY DEF Sleep
    <2> HIDE DEF states
    <2>2. /\ state' = states
          /\ \A d \in CPUs : running'[d] # None => running'[d] = running[d] /\ running[d] # p
          /\ \A q \in Procs : killed'[q] => killed[q] \/ budget[q]
      BY <1>1, <2>1, GivesUpCpu
    <2> QED
      BY <2>2 DEF states
  <1>3. pc' = [pc EXCEPT ![p] = k] /\ chan' = [chan EXCEPT ![p] = ch]
    BY DEF Sleep
  <1>4. NobodyDies
    <2>1. ForkersGoOn
      BY <1>1, <1>3 DEF ForkersGoOn, FamilyInv, ForkHoldsChild, TypeOK
    <2>2. \A q \in Procs : state'[q] # state[q] =>
            q = p /\ state[q] \notin Dead /\ state'[q] \notin Dead
      BY <1>1, <1>2 DEF Dead, TypeOK
    <2>3. \A r \in Procs : pc'[r] \in {"copy", "fork"} => child[r] # p
      BY <1>1, <2>1 DEF ForkersGoOn, FamilyInv, ForkHoldsChild, Dead, Forking
    <2>4. \A q \in Procs : parent'[q] = parent[q]
      OBVIOUS
    <2>5. \A q \in Procs : state'[q] # state[q] =>
            /\ state[q] \notin Dead /\ state'[q] \notin Dead
            /\ \A r \in Procs : pc'[r] \in {"copy", "fork"} => child[r] # q
      BY <2>2, <2>3
    <2> QED
      BY <2>1, <2>4, <2>5 DEF NobodyDies, Dead
  <1>5. SystemSpared
    BY <1>1, <1>2, <1>3, SlotFacts DEF FamilyInv, SystemLives, SystemSpared, TypeOK, Places
  <1>6. OnCpuAwake'
    BY <1>1, <1>2, <1>3 DEF FamilyInv, OnCpuAwake, TypeOK
  <1> QED
    BY <1>4, <1>5, <1>6, NobodyDiesKeepsFamilies

\* What a handler may do before trap() ends: it makes living processes runnable
\* or suspends them, and kills neither init nor the shell.
HandlerSpares(states, kills) ==
  /\ states \in [Procs -> States] /\ kills \in [Procs -> BOOLEAN]
  /\ \A q \in Procs : states[q] # state[q] =>
       state[q] \notin Dead /\ states[q] \in {"RUNNABLE", "SUSPENDED"}
  /\ \A q \in {init, shell} : ~kills[q]

\* After such a handler, the end of trap() changes the states of living
\* processes only, and ends only those that are marked killed.
LEMMA TrapEndsEffect ==
  ASSUME FamilyInv, OneCpuEach, NEW c \in CPUs,
         NEW states, NEW kills, NEW susp, NEW clock,
         HandlerSpares(states, kills),
         TrapEnds(c, states, susp, kills, clock)
  PROVE  /\ \A q \in Procs : state'[q] # state[q] =>
              state[q] \notin Dead /\ state'[q] \in {"RUNNABLE", "SUSPENDED"}
         /\ \A d \in CPUs : running'[d] # None =>
              /\ running'[d] \in Procs /\ running'[d] = running[d]
              /\ state'[running'[d]] \notin Dead \cup {"SLEEPING"}
         /\ \A q \in Procs : killed'[q] => kills[q] \/ budget[q]
         /\ \A q \in Procs : pc'[q] # pc[q] =>
              pc[q] = "user" /\ pc'[q] = "exit" /\ kills[q]
  <1>0. /\ TypeOK /\ init \in Procs /\ shell \in Procs /\ None \notin Procs
        /\ states \in [Procs -> States] /\ kills \in [Procs -> BOOLEAN]
    BY SlotFacts DEF FamilyInv, HandlerSpares
  <1>1. \A d \in CPUs : running[d] # None =>
          running[d] \in Procs /\ states[running[d]] \notin Dead \cup {"SLEEPING"}
    BY <1>0 DEF FamilyInv, OnCpuAwake, TypeOK, HandlerSpares, Dead
  <1> DEFINE p == running[c]
             yields == \/ pc[p] = "user" /\ susp[p] /\ p > shell
                       \/ states[p] = "RUNNING" /\ clock
                            /\ ~(pc[p] = "user" /\ kills[p])
             left == [states EXCEPT ![p] =
                        IF @ = "SUSPENDED" THEN @ ELSE "RUNNABLE"]
  <1>2. CASE p # None /\ yields
    <2>1. Sched(c, left, kills) /\ UNCHANGED pc
      BY <1>2 DEF TrapEnds
    <2>2. p \in Procs /\ state[p] \notin Dead
      BY <1>0, <1>2 DEF FamilyInv, OnCpuAwake, TypeOK
    <2>3. /\ \A q \in Procs : left[q] # states[q] => q = p
          /\ left[p] \in {"RUNNABLE", "SUSPENDED"}
      BY <1>0, <2>2 DEF Dead
    <2> HIDE DEF left
    <2>4. /\ state' = left
          /\ \A d \in CPUs : running'[d] # None =>
               running'[d] = running[d] /\ running[d] # p
          /\ \A q \in Procs : killed'[q] => kills[q] \/ (q = p /\ budget[q])
      BY <1>0, <2>1, <2>2, GivesUpCpu
    <2> HIDE DEF p
    <2>5. \A q \in Procs : state'[q] # state[q] =>
           state[q] \notin Dead /\ state'[q] \in {"RUNNABLE", "SUSPENDED"}
      BY <2>2, <2>3, <2>4 DEF HandlerSpares
    <2>6. \A d \in CPUs : running'[d] # None =>
           /\ running'[d] \in Procs /\ running'[d] = running[d]
           /\ state'[running'[d]] \notin Dead \cup {"SLEEPING"}
      BY <1>1, <2>3, <2>4 DEF Dead
    <2> QED
      BY <2>1, <2>4, <2>5, <2>6
  <1>3. CASE ~(p # None /\ yields)
    <2>1. /\ state' = states /\ killed' = kills /\ running' = running
          /\ pc' = IF p # None /\ pc[p] = "user" /\ kills[p]
                   THEN [pc EXCEPT ![p] = "exit"] ELSE pc
      BY <1>3 DEF TrapEnds
    <2> QED
      BY <1>0, <1>1, <2>1 DEF HandlerSpares, TypeOK
  <1> QED
    BY <1>2, <1>3

\* After such a handler, the end of trap() keeps the families.
LEMMA TrapEndsKeepsFamilies ==
  ASSUME FamilyInv, OneCpuEach, TypeOK', NEW c \in CPUs,
         NEW states, NEW kills, NEW susp, NEW clock,
         HandlerSpares(states, kills),
         TrapEnds(c, states, susp, kills, clock),
         \A p \in Procs :
           \/ parent'[p] = parent[p]
           \/ parent'[p] = init /\ state[p] # "UNUSED" /\ "SIGBG" \in Signals,
         UNCHANGED <<chan, budget, child>>
  PROVE  FamilyInv'
  <1>0. /\ TypeOK /\ init \in Procs /\ shell \in Procs /\ None \notin Procs
        /\ states \in [Procs -> States] /\ kills \in [Procs -> BOOLEAN]
    BY SlotFacts DEF FamilyInv, HandlerSpares
  <1>1. /\ \A q \in Procs : state'[q] # state[q] =>
             state[q] \notin Dead /\ state'[q] \in {"RUNNABLE", "SUSPENDED"}
        /\ \A d \in CPUs : running'[d] # None =>
             /\ running'[d] \in Procs /\ running'[d] = running[d]
             /\ state'[running'[d]] \notin Dead \cup {"SLEEPING"}
        /\ \A q \in Procs : killed'[q] => kills[q] \/ budget[q]
        /\ \A q \in Procs : pc'[q] # pc[q] =>
             pc[q] = "user" /\ pc'[q] = "exit" /\ kills[q]
    BY TrapEndsEffect
  <1>2. NobodyDies
    <2>1. ForkersGoOn
      BY <1>1 DEF ForkersGoOn, FamilyInv, ForkHoldsChild, Forking
    <2>2. \A q \in Procs : state'[q] # state[q] =>
            \A r \in Procs : pc'[r] \in {"copy", "fork"} => child[r] # q
      BY <1>1, <2>1 DEF ForkersGoOn, FamilyInv, ForkHoldsChild, Dead, Forking
    <2>3. \A q \in Procs : state'[q] # state[q] =>
            state[q] \notin {"UNUSED", "EMBRYO"} /\ state'[q] \notin Dead
      BY <1>1 DEF Dead
    <2> QED
      BY <2>1, <2>2, <2>3 DEF NobodyDies
  <1>3. SystemSpared
    BY <1>0, <1>1 DEF FamilyInv, SystemLives, SystemSpared, HandlerSpares
  <1>4. OnCpuAwake'
    BY <1>0, <1>1 DEF FamilyInv, OnCpuAwake
  <1> QED
    BY <1>2, <1>3, <1>4, NobodyDiesKeepsFamilies

\* fork() takes a free slot, which has no parent yet, for the child.
LEMMA ForkKeepsFamilies ==
  ASSUME FamilyInv, TypeOK', NEW c \in CPUs, NEW p \in Procs, Fork(c, p)
  PROVE  FamilyInv'
  <1>1. PICK q \in Procs :
          /\ state[q] = "UNUSED"
          /\ state' = [state EXCEPT ![q] = "EMBRYO"]
          /\ child' = [child EXCEPT ![p] = q]
          /\ pc' = [pc EXCEPT ![p] = "copy", ![q] = "user"]
    BY DEF Fork
  <1>2. /\ running[c] = p /\ pc[p] = "user" /\ killed' = killed /\ running' = running
        /\ parent' = parent /\ budget' = budget /\ chan' = chan
        /\ state[p] \notin Dead \cup {"SLEEPING"} /\ chan[p] = None
    BY DEF Fork, InUser, On, FamilyInv, OnCpuAwake
  <1>3. /\ init \in Procs /\ shell \in Procs /\ None \notin Procs
        /\ TypeOK /\ q # p /\ q # init /\ q # shell
    BY <1>1, <1>2, SlotFacts DEF FamilyInv, SystemLives, Dead
  <1>4. OnCpuAwake'
    BY <1>1, <1>2, <1>3 DEF FamilyInv, OnCpuAwake, TypeOK, Dead
  <1>5. SystemLives'
    BY <1>1, <1>2, <1>3 DEF FamilyInv, SystemLives, TypeOK
  <1>6. FreeSlotsAreNoChildren'
    BY <1>1, <1>2, <1>3 DEF FamilyInv, FreeSlotsAreNoChildren, TypeOK
  <1>7. ForkHoldsChild'
    <2>1. parent[q] = None /\ pc[q] \notin Forking /\ child[q] = None
      BY <1>1, <1>3 DEF FamilyInv, ForkHoldsChild, FreeSlotsAreNoChildren, Dead
    <2>2. \A r \in Procs : child[r] # q
      BY <1>1, <1>3 DEF FamilyInv, ForkHoldsChild
    <2>3. /\ \A r \in Procs : child'[r] = IF r = p THEN q ELSE child[r]
          /\ \A r \in Procs : pc'[r] = IF r = p THEN "copy"
                                       ELSE IF r = q THEN "user" ELSE pc[r]
          /\ \A r \in Procs : state'[r] = IF r = q THEN "EMBRYO" ELSE state[r]
      BY <1>1, <1>3 DEF TypeOK
    <2>4. \A r \in Procs : child[r] \in Procs \cup {None}
      BY <1>3 DEF TypeOK
    <2> SUFFICES ASSUME NEW r \in Procs
                 PROVE  /\ child'[r] # None <=> pc'[r] \in Forking
                        /\ pc'[r] \in Forking =>
                             /\ state'[r] \notin Dead /\ chan'[r] = None
                             /\ child'[r] \notin {r, init, shell}
                             /\ state'[child'[r]] # "UNUSED"
                             /\ \A t \in Procs : child'[t] = child'[r] => t = r
                             /\ pc'[r] \in {"copy", "fork"} => state'[child'[r]] = "EMBRYO"
                             /\ pc'[r] = "fork" => parent'[child'[r]] \in {r, init}
                             /\ "SIGBG" \notin Signals =>
                                  parent'[child'[r]] = IF pc'[r] = "copy" THEN None ELSE r
      BY DEF ForkHoldsChild
    <2>5. CASE r = p
      <3>1. child'[r] = q /\ pc'[r] = "copy" /\ state'[q] = "EMBRYO" /\ state'[r] = state[p]
        BY <1>3, <2>3, <2>5
      <3>2. \A t \in Procs : child'[t] = q => t = p
        BY <2>2, <2>3
      <3>3. "copy" \in Forking
        BY DEF Forking
      <3> QED
        BY <1>2, <1>3, <2>1, <2>5, <3>1, <3>2, <3>3
    <2>6. CASE r = q
      BY <1>3, <2>1, <2>3, <2>6 DEF Forking
    <2>7. CASE r # p /\ r # q
      <3>1. /\ child'[r] = child[r] /\ pc'[r] = pc[r] /\ state'[r] = state[r]
            /\ child[r] # None => state'[child[r]] = state[child[r]]
        BY <1>3, <2>2, <2>3, <2>4, <2>7
      <3>2. \A t \in Procs : child'[t] = child[r] => child[t] = child[r]
        BY <2>2, <2>3
      <3> QED
        BY <1>2, <3>1, <3>2 DEF FamilyInv, ForkHoldsChild
    <2> QED
      BY <2>5, <2>6, <2>7
  <1>8. ParentsAlive'
    <2> SUFFICES ASSUME NEW r \in Procs \ {init}, state'[r] \notin {"UNUSED", "EMBRYO"}
                 PROVE  parent'[r] # None /\ state'[parent'[r]] \notin Dead
      BY DEF ParentsAlive, Dead
    <2>1. r # q /\ state[r] \notin {"UNUSED", "EMBRYO"}
      BY <1>1, <1>3 DEF TypeOK
    <2>2. parent[r] \in Procs /\ state[parent[r]] \notin Dead
      BY <2>1, <1>3 DEF FamilyInv, ParentsAlive, TypeOK, Dead
    <2>3. parent[r] # q
      BY <1>1, <2>2 DEF Dead
    <2> QED
      BY <1>1, <1>2, <1>3, <2>2, <2>3 DEF TypeOK
  <1> QED
    BY <1>4, <1>5, <1>6, <1>7, <1>8 DEF FamilyInv

\* The process that fork() copies becomes the parent of the copy.
LEMMA CopyKeepsFamilies ==
  ASSUME FamilyInv, TypeOK', NEW c \in CPUs, NEW p \in Procs, CopyProcess(c, p)
  PROVE  FamilyInv'
  <1>1. /\ pc[p] = "copy"
        /\ parent' = [parent EXCEPT ![child[p]] = p]
        /\ budget' = [budget EXCEPT ![child[p]] = FALSE]
        /\ pc' = [pc EXCEPT ![p] = "fork"]
        /\ UNCHANGED <<state, killed, chan, child, running>>
    BY DEF CopyProcess
  <1> DEFINE q == child[p]
  <1>2. /\ TypeOK /\ q \in Procs /\ q # init /\ state[q] = "EMBRYO"
        /\ state[p] \notin Dead
        /\ \A r \in Procs : child[r] = q => r = p
    BY <1>1 DEF FamilyInv, ForkHoldsChild, TypeOK, Forking
  <1> HIDE DEF q
  <1>3. /\ \A r \in Procs : parent'[r] = IF r = q THEN p ELSE parent[r]
        /\ \A r \in Procs : pc'[r] = IF r = p THEN "fork" ELSE pc[r]
        /\ \A r \in Procs : budget'[r] => budget[r]
    BY <1>1, <1>2 DEF q, TypeOK
  <1>4. OnCpuAwake'
    BY <1>1 DEF FamilyInv, OnCpuAwake
  <1>5. SystemLives'
    BY <1>1, <1>3, SlotFacts DEF FamilyInv, SystemLives
  <1>6. FreeSlotsAreNoChildren'
    BY <1>1, <1>2, <1>3 DEF FamilyInv, FreeSlotsAreNoChildren
  <1>7. ForkHoldsChild'
    <2> SUFFICES ASSUME NEW r \in Procs
                 PROVE  /\ child[r] # None <=> pc'[r] \in Forking
                        /\ pc'[r] \in Forking =>
                             /\ state[r] \notin Dead /\ chan[r] = None
                             /\ child[r] \notin {r, init, shell}
                             /\ state[child[r]] # "UNUSED"
                             /\ \A t \in Procs : child[t] = child[r] => t = r
                             /\ pc'[r] \in {"copy", "fork"} => state[child[r]] = "EMBRYO"
                             /\ pc'[r] = "fork" => parent'[child[r]] \in {r, init}
                             /\ "SIGBG" \notin Signals =>
                                  parent'[child[r]] = IF pc'[r] = "copy" THEN None ELSE r
      BY <1>1 DEF ForkHoldsChild
    <2>1. CASE r = p
      <3>1. pc'[r] = "fork" /\ parent'[child[r]] = p /\ pc[r] = "copy"
        BY <1>1, <1>2, <1>3, <2>1 DEF q
      <3> QED
        BY <2>1, <3>1 DEF FamilyInv, ForkHoldsChild, Forking
    <2>2. CASE r # p
      <3>1. pc'[r] = pc[r] /\ child[r] # q
        BY <1>2, <1>3, <2>2
      <3>2. child[r] # None => parent'[child[r]] = parent[child[r]]
        BY <1>2, <1>3, <3>1 DEF TypeOK
      <3> QED
        BY <3>1, <3>2 DEF FamilyInv, ForkHoldsChild
    <2> QED
      BY <2>1, <2>2
  <1>8. ParentsAlive'
    BY <1>1, <1>2, <1>3 DEF FamilyInv, ParentsAlive, Dead
  <1> QED
    BY <1>4, <1>5, <1>6, <1>7, <1>8 DEF FamilyInv

\* exit() leaves the children of the dead process to init, which lives.
LEMMA ExitKeepsFamilies ==
  ASSUME FamilyInv, OneCpuEach, TypeOK', NEW c \in CPUs, NEW p \in Procs, Exit(c, p)
  PROVE  FamilyInv'
  <1>1. /\ running[c] = p /\ pc[p] = "exit" /\ TypeOK
        /\ state[p] \notin Dead
        /\ parent' = [q \in Procs |-> IF parent[q] = p THEN init ELSE parent[q]]
        /\ pc' = [pc EXCEPT ![p] = "dead"]
        /\ UNCHANGED <<budget, chan, child>>
    BY DEF Exit, On, FamilyInv, OnCpuAwake
  <1>2. init \in Procs /\ shell \in Procs /\ None \notin Procs /\ p # init /\ p # shell
    BY <1>1, SlotFacts DEF FamilyInv, SystemLives
  <1>3. /\ state' \in [Procs -> States] /\ state'[p] = "ZOMBIE"
        /\ \A q \in Procs : q # p =>
             \/ state'[q] = state[q]
             \/ state[q] = "SLEEPING" /\ state'[q] = "RUNNABLE"
        /\ \A d \in CPUs : running'[d] # None => running'[d] = running[d] /\ running[d] # p
        /\ \A q \in Procs : killed'[q] => killed[q] \/ budget[q]
    <2> DEFINE once == Woken(parent[p], state)
               twice == Woken(init, once)
               orphaned == \E q \in {r \in Procs : parent[r] = p} : state[q] = "ZOMBIE"
               left == [(IF orphaned THEN twice ELSE once) EXCEPT ![p] = "ZOMBIE"]
    <2>1. Sched(c, left, killed)
      BY DEF Exit
    <2>2. /\ left[p] = "ZOMBIE"
          /\ \A q \in Procs : q # p =>
               \/ left[q] = state[q]
               \/ state[q] = "SLEEPING" /\ left[q] = "RUNNABLE"
      BY DEF Woken
    <2> HIDE DEF left
    <2>3. state' = left
      BY <2>1 DEF Sched
    <2>4. killed \in [Procs -> BOOLEAN]
      BY <1>1 DEF TypeOK
    <2>5. /\ \A d \in CPUs : running'[d] # None => running'[d] = running[d] /\ running[d] # p
          /\ \A q \in Procs : killed'[q] => killed[q] \/ budget[q]
      BY <1>1, <2>1, <2>4, GivesUpCpu
    <2> QED
      BY <2>2, <2>3, <2>5 DEF TypeOK
  <1>4. \A q \in Procs : q # p /\ state[q] \notin Dead => state'[q] \notin Dead
    BY <1>3 DEF Dead
  <1>5. OnCpuAwake'
    <2> SUFFICES ASSUME NEW d \in CPUs, running'[d] # None
                 PROVE  /\ state'[running'[d]] \notin Dead \cup {"SLEEPING"}
                        /\ chan'[running'[d]] = None
      BY DEF OnCpuAwake
    <2>1. /\ running'[d] = running[d] /\ running[d] \in Procs /\ running[d] # p
          /\ state[running[d]] \notin Dead \cup {"SLEEPING"}
          /\ chan[running[d]] = None
      BY <1>1, <1>3 DEF FamilyInv, OnCpuAwake, TypeOK
    <2> QED
      BY <1>1, <1>3, <2>1
  <1>6. SystemLives'
    <2> SUFFICES ASSUME NEW q \in {init, shell}
                 PROVE  state'[q] \notin Dead /\ ~killed'[q] /\ ~budget'[q]
                        /\ pc'[q] \notin {"exit", "dead"}
      BY DEF SystemLives
    <2>1. q \in Procs /\ q # p
      BY <1>2
    <2>2. state[q] \notin Dead /\ ~killed[q] /\ ~budget[q] /\ pc[q] \notin {"exit", "dead"}
      BY DEF FamilyInv, SystemLives
    <2>3. pc'[q] = pc[q]
      BY <1>1, <2>1 DEF TypeOK
    <2> QED
      BY <1>1, <1>3, <1>4, <2>1, <2>2, <2>3
  <1>7. FreeSlotsAreNoChildren'
    <2> SUFFICES ASSUME NEW q \in Procs, state'[q] = "UNUSED"
                 PROVE  parent'[q] = None
      BY DEF FreeSlotsAreNoChildren
    <2>1. parent[q] = None
      BY <1>3 DEF FamilyInv, FreeSlotsAreNoChildren
    <2> QED
      BY <1>1, <1>2, <2>1
  <1>8. ForkHoldsChild'
    <2>1. \A r \in Procs : pc'[r] = IF r = p THEN "dead" ELSE pc[r]
      BY <1>1 DEF TypeOK
    <2> SUFFICES ASSUME NEW r \in Procs
                 PROVE  /\ child[r] # None <=> pc'[r] \in Forking
                        /\ pc'[r] \in Forking =>
                             /\ state'[r] \notin Dead /\ chan[r] = None
                             /\ child[r] \notin {r, init, shell}
                             /\ state'[child[r]] # "UNUSED"
                             /\ \A t \in Procs : child[t] = child[r] => t = r
                             /\ pc'[r] \in {"copy", "fork"} => state'[child[r]] = "EMBRYO"
                             /\ pc'[r] = "fork" => parent'[child[r]] \in {r, init}
                             /\ "SIGBG" \notin Signals =>
                                  parent'[child[r]] = IF pc'[r] = "copy" THEN None ELSE r
      BY <1>1 DEF ForkHoldsChild
    <2>2. CASE r = p
      BY <1>1, <2>1, <2>2 DEF FamilyInv, ForkHoldsChild, Forking
    <2>3. CASE r # p /\ pc[r] \notin Forking
      BY <2>1, <2>3 DEF FamilyInv, ForkHoldsChild
    <2>4. CASE r # p /\ pc[r] \in Forking
      <3> DEFINE q == child[r]
      <3>1. /\ q \in Procs /\ state[r] \notin Dead /\ chan[r] = None
            /\ q \notin {r, init, shell} /\ state[q] # "UNUSED"
            /\ \A t \in Procs : child[t] = q => t = r
            /\ pc[r] \in {"copy", "fork"} => state[q] = "EMBRYO"
            /\ pc[r] = "fork" => parent[q] \in {r, init}
            /\ "SIGBG" \notin Signals =>
                 parent[q] = IF pc[r] = "copy" THEN None ELSE r
        BY <1>1, <2>4 DEF FamilyInv, ForkHoldsChild, TypeOK
      <3> HIDE DEF q
      <3>2. state'[q] # "UNUSED" /\ (state[q] = "EMBRYO" => state'[q] = "EMBRYO")
        BY <1>1, <1>3, <3>1 DEF Dead
      <3>3. parent[q] # p => parent'[q] = parent[q]
        BY <1>1, <3>1
      <3> QED
        BY <1>2, <1>4, <2>1, <2>4, <3>1, <3>2, <3>3 DEF q
    <2> QED
      BY <2>2, <2>3, <2>4
  <1>9. ParentsAlive'
    <2> SUFFICES ASSUME NEW r \in Procs \ {init}, state'[r] \notin {"UNUSED", "EMBRYO"}
                 PROVE  parent'[r] # None /\ state'[parent'[r]] \notin Dead
      BY DEF ParentsAlive, Dead
    <2>1. state[init] \notin Dead
      BY <1>2 DEF FamilyInv, SystemLives
    <2>2. state[r] \notin {"UNUSED", "EMBRYO"}
      BY <1>1, <1>3 DEF Dead
    <2>3. parent[r] \in Procs /\ state[parent[r]] \notin Dead
      BY <1>1, <2>2 DEF FamilyInv, ParentsAlive, TypeOK, Dead
    <2> QED
      BY <1>1, <1>2, <1>4, <2>1, <2>3
  <1> QED
    BY <1>5, <1>6, <1>7, <1>8, <1>9 DEF FamilyInv

\* wait() frees a slot that is nobody's parent, and that nobody is forking
\* unless custom_fork() holds a child that Ctrl-B has given to init.
LEMMA ReapKeepsFamilies ==
  ASSUME FamilyInv, HoldsOwnChild, TypeOK', NEW c \in CPUs, NEW p \in Procs,
         WaitReaps(c, p)
  PROVE  FamilyInv'
  <1>1. PICK q \in Procs :
          /\ state[q] = "ZOMBIE" /\ parent[q] = p
          /\ state' = [state EXCEPT ![q] = "UNUSED"]
          /\ parent' = [parent EXCEPT ![q] = None]
          /\ killed' = [killed EXCEPT ![q] = FALSE]
          /\ child' = [r \in Procs |->
               IF child[r] = q /\ pc[r] = "custom_fork" THEN None ELSE child[r]]
    BY DEF WaitReaps, DeadChildren, ChildrenOf
  <1>2. /\ running[c] = p /\ pc[p] = "wait" /\ running' = running /\ budget' = budget
        /\ IF p = init THEN UNCHANGED pc ELSE Return(p, killed)
        /\ UNCHANGED chan
    BY DEF WaitReaps, InWait, On
  <1>3. /\ init \in Procs /\ shell \in Procs /\ None \notin Procs
        /\ TypeOK /\ q # init /\ q # shell
    BY <1>1, SlotFacts DEF FamilyInv, SystemLives, Dead
  <1>4. OnCpuAwake'
    BY <1>1, <1>2, <1>3 DEF FamilyInv, OnCpuAwake, TypeOK, Dead
  <1>5. SystemLives'
    BY <1>1, <1>2, <1>3 DEF FamilyInv, SystemLives, TypeOK, Return
  <1>6. FreeSlotsAreNoChildren'
    BY <1>1, <1>3 DEF FamilyInv, FreeSlotsAreNoChildren, TypeOK
  <1>7. ForkHoldsChild'
    <2>1. \A r \in Procs : pc[r] \in Forking <=> pc'[r] \in Forking
      BY <1>2, <1>3 DEF Return, TypeOK, Forking
    <2>2. \A r \in Procs : pc[r] \in Forking => pc'[r] = pc[r]
      BY <1>2, <1>3 DEF Return, TypeOK, Forking
    <2>3. \A r \in Procs : child[r] # q
      <3> SUFFICES ASSUME NEW r \in Procs, child[r] = q PROVE FALSE
        OBVIOUS
      <3>1. /\ pc[r] \in Forking
            /\ pc[r] \in {"copy", "fork"} => state[q] = "EMBRYO"
            /\ "SIGBG" \notin Signals => parent[q] = IF pc[r] = "copy" THEN None ELSE r
        BY <1>3 DEF FamilyInv, ForkHoldsChild
      <3>2. pc[r] \notin {"copy", "fork"}
        BY <1>1, <3>1
      <3>3. "SIGBG" \notin Signals
        BY <3>1, <3>2 DEF HoldsOwnChild, NoCustomFork
      <3>4. r = p
        BY <1>1, <3>1, <3>2, <3>3
      <3> QED
        BY <1>2, <3>1, <3>4 DEF Forking
    <2>4. \A r \in Procs : child'[r] = child[r] /\ child[r] \in Procs \cup {None}
      BY <1>1, <1>3, <2>3 DEF TypeOK
    <2>5. \A r \in Procs : r # q => state'[r] = state[r] /\ parent'[r] = parent[r]
      BY <1>1, <1>3 DEF TypeOK
    <2> SUFFICES ASSUME NEW r \in Procs
                 PROVE  /\ child'[r] # None <=> pc'[r] \in Forking
                        /\ pc'[r] \in Forking =>
                             /\ state'[r] \notin Dead /\ chan[r] = None
                             /\ child'[r] \notin {r, init, shell}
                             /\ state'[child'[r]] # "UNUSED"
                             /\ \A t \in Procs : child'[t] = child'[r] => t = r
                             /\ pc'[r] \in {"copy", "fork"} => state'[child'[r]] = "EMBRYO"
                             /\ pc'[r] = "fork" => parent'[child'[r]] \in {r, init}
                             /\ "SIGBG" \notin Signals =>
                                  parent'[child'[r]] = IF pc'[r] = "copy" THEN None ELSE r
      BY <1>2 DEF ForkHoldsChild
    <2>6. CASE pc[r] \notin Forking
      BY <2>1, <2>4, <2>6 DEF FamilyInv, ForkHoldsChild
    <2>7. CASE pc[r] \in Forking
      <3>1. r # q
        BY <1>1, <2>7 DEF FamilyInv, ForkHoldsChild, Dead
      <3>2. child[r] \in Procs /\ child[r] # q
        BY <2>3, <2>4, <2>7 DEF FamilyInv, ForkHoldsChild
      <3> QED
        BY <2>2, <2>4, <2>5, <2>7, <3>1, <3>2 DEF FamilyInv, ForkHoldsChild
    <2> QED
      BY <2>6, <2>7
  <1>8. ParentsAlive'
    <2> SUFFICES ASSUME NEW r \in Procs \ {init}, state'[r] \notin {"UNUSED", "EMBRYO"}
                 PROVE  parent'[r] # None /\ state'[parent'[r]] \notin Dead
      BY DEF ParentsAlive, Dead
    <2>1. r # q /\ parent'[r] = parent[r] /\ state[r] \notin {"UNUSED", "EMBRYO"}
      BY <1>1, <1>3 DEF TypeOK
    <2>2. parent[r] \in Procs /\ state[parent[r]] \notin Dead
      BY <2>1, <1>3 DEF FamilyInv, ParentsAlive, TypeOK, Dead
    <2>3. parent[r] # q
      BY <1>1, <2>2 DEF Dead
    <2> QED
      BY <1>1, <1>3, <2>1, <2>2, <2>3 DEF TypeOK
  <1> QED
    BY <1>4, <1>5, <1>6, <1>7, <1>8 DEF FamilyInv

\* Every system call keeps the families.
LEMMA SystemCallKeepsFamilies ==
  ASSUME FamilyInv, OneCpuEach, HoldsOwnChild, TypeOK', NEW c \in CPUs, NEW p \in Procs,
         SystemCall(c, p)
  PROVE  FamilyInv'
  <1>0. /\ TypeOK /\ OnCpuAwake /\ ForkHoldsChild
        /\ init \in Procs /\ shell \in Procs /\ None \notin Procs
        /\ \A q \in {init, shell} :
             state[q] \notin Dead /\ ~killed[q] /\ ~budget[q] /\ pc[q] \notin {"exit", "dead"}
        /\ \A q \in Users : q # init /\ q # shell
    BY SlotFacts DEF FamilyInv, SystemLives, Users
  <1>15. ASSUME UNCHANGED <<child, chan>>, pc[p] \notin Forking, pc'[p] \notin Forking,
                \A q \in Procs \ {p} : pc'[q] = pc[q]
         PROVE  ForkersGoOn
    BY <1>0, <1>15 DEF ForkersGoOn, ForkHoldsChild
  <1>16. ASSUME NEW k \in Forking \ {"copy", "fork"},
                UNCHANGED <<child, chan>>, pc[p] \in Forking \ {"copy"},
                pc' = [pc EXCEPT ![p] = k]
         PROVE  ForkersGoOn
    BY <1>0, <1>16 DEF ForkersGoOn, ForkHoldsChild, TypeOK
  <1>1. CASE EnterKernel(c, p)
    <2>1. UNCHANGED <<state, killed, running, parent, child, budget, chan>>
      BY <1>1 DEF EnterKernel, tableVars
    <2>2. PICK k \in Places :
            /\ pc' = [pc EXCEPT ![p] = k]
            /\ k \notin Forking \cup {"dead"}
            /\ k = "exit" => killed[p] \/ p \in Users
      BY <1>1 DEF EnterKernel, Places, Forking
    <2>3. ForkersGoOn
      BY <1>0, <1>1, <1>15, <2>1, <2>2 DEF EnterKernel, InUser, Forking, TypeOK
    <2>4. NobodyDies
      BY <2>1, <2>3 DEF NobodyDies
    <2>5. SystemSpared
      BY <1>0, <2>1, <2>2 DEF SystemSpared, TypeOK
    <2>6. OnCpuAwake'
      BY <1>0, <2>1 DEF OnCpuAwake
    <2> QED
      BY <2>4, <2>5, <2>6, NobodyDiesKeepsFamilies
  <1>2. CASE Fork(c, p)
    BY <1>2, ForkKeepsFamilies
  <1>3. CASE CopyProcess(c, p)
    BY <1>3, CopyKeepsFamilies
  <1>4. CASE ForkReturns(c, p)
    <2>1. /\ pc[p] = "fork"
          /\ state' = [state EXCEPT ![child[p]] = "RUNNABLE"]
          /\ UNCHANGED <<parent, killed, budget, running, chan>>
          /\ \/ /\ child' = [child EXCEPT ![p] = None]
                /\ pc' = [pc EXCEPT ![p] = IF killed[p] THEN "exit" ELSE "user"]
             \/ child' = child /\ pc' = [pc EXCEPT ![p] = "custom_fork"]
      BY <1>4 DEF ForkReturns, Return
    <2>2. /\ child[p] \in Procs /\ state[child[p]] = "EMBRYO"
          /\ \A r \in Procs : child[r] = child[p] => r = p
          /\ parent[child[p]] \in {p, init} /\ state[p] \notin Dead
      BY <1>0, <2>1 DEF ForkHoldsChild, TypeOK, Forking
    <2>3. ForkersGoOn
      <3>1. CASE child' = [child EXCEPT ![p] = None]
                 /\ pc' = [pc EXCEPT ![p] = IF killed[p] THEN "exit" ELSE "user"]
        BY <1>0, <2>1, <3>1 DEF ForkersGoOn, ForkHoldsChild, TypeOK, Forking
      <3>2. CASE child' = child /\ pc' = [pc EXCEPT ![p] = "custom_fork"]
        BY <1>16, <2>1, <3>2 DEF Forking
      <3> QED
        BY <2>1, <3>1, <3>2
    <2>4. /\ pc'[p] \notin {"copy", "fork"}
          /\ \A r \in Procs : state'[r] = IF r = child[p] THEN "RUNNABLE" ELSE state[r]
      BY <1>0, <2>1, <2>2 DEF TypeOK
    <2>5. NobodyDies
      BY <1>0, <2>1, <2>2, <2>3, <2>4 DEF NobodyDies, Dead
    <2>6. SystemSpared
      BY <1>0, <2>1 DEF SystemSpared, TypeOK
    <2>7. OnCpuAwake'
      BY <1>0, <2>1, <2>4 DEF OnCpuAwake, TypeOK, Dead
    <2> QED
      BY <2>5, <2>6, <2>7, NobodyDiesKeepsFamilies
  <1>17. CASE FindChild(c, p)
    <2>1. /\ pc[p] = "custom_fork" /\ pc' = [pc EXCEPT ![p] = "set_start_later"]
          /\ UNCHANGED <<state, parent, killed, budget, chan, child, running>>
      BY <1>0, <1>17 DEF FindChild, ForkHoldsChild, Forking, tableVars
    <2>2. NobodyDies
      BY <1>16, <2>1 DEF NobodyDies, Forking
    <2>3. SystemSpared /\ OnCpuAwake'
      BY <1>0, <2>1 DEF SystemSpared, OnCpuAwake, TypeOK
    <2> QED
      BY <2>2, <2>3, NobodyDiesKeepsFamilies
  <1>18. CASE SetStartLater(c, p)
    <2>1. /\ pc[p] = "set_start_later" /\ pc' = [pc EXCEPT ![p] = "set_exec_time"]
          /\ UNCHANGED <<state, parent, killed, budget, chan, child, running>>
      BY <1>18 DEF SetStartLater
    <2>2. NobodyDies
      BY <1>16, <2>1 DEF NobodyDies, Forking
    <2>3. SystemSpared /\ OnCpuAwake'
      BY <1>0, <2>1 DEF SystemSpared, OnCpuAwake, TypeOK
    <2> QED
      BY <2>2, <2>3, NobodyDiesKeepsFamilies
  <1>19. CASE SetExecTime(c, p)
    <2>1. /\ pc[p] = "set_exec_time" /\ pc' = [pc EXCEPT ![p] = "set_state"]
          /\ \E b \in ExecTimes : budget' = [budget EXCEPT ![child[p]] = b]
          /\ UNCHANGED <<state, parent, killed, chan, child, running>>
      BY <1>19 DEF SetExecTime
    <2>2. NobodyDies
      BY <1>16, <2>1 DEF NobodyDies, Forking
    <2>3. child[p] \notin {init, shell}
      BY <1>0, <2>1 DEF ForkHoldsChild, Forking
    <2>4. SystemSpared /\ OnCpuAwake'
      BY <1>0, <2>1, <2>3 DEF SystemSpared, OnCpuAwake, TypeOK
    <2> QED
      BY <2>2, <2>4, NobodyDiesKeepsFamilies
  <1>20. CASE SetState(c, p)
    <2>1. /\ pc[p] = "set_state"
          /\ state' = [state EXCEPT ![child[p]] =
               IF delay[p] = "later" THEN "WAITING_TO_START" ELSE "RUNNABLE"]
          /\ child' = [child EXCEPT ![p] = None]
          /\ pc' = [pc EXCEPT ![p] = IF killed[p] THEN "exit" ELSE "user"]
          /\ UNCHANGED <<parent, killed, budget, chan, running>>
      BY <1>20 DEF SetState, Return
    <2>2. "SIGBG" \notin Signals
      BY <2>1 DEF HoldsOwnChild, NoCustomFork, Forking
    <2>3. /\ child[p] \in Procs /\ state[child[p]] # "UNUSED"
          /\ \A r \in Procs : child[r] = child[p] => r = p
          /\ parent[child[p]] = p /\ state[p] \notin Dead
      BY <1>0, <2>1, <2>2 DEF ForkHoldsChild, TypeOK, Forking
    <2>4. ForkersGoOn
      BY <1>0, <2>1 DEF ForkersGoOn, ForkHoldsChild, TypeOK, Forking
    <2>5. /\ pc'[p] \notin {"copy", "fork"}
          /\ \A r \in Procs : r # child[p] => state'[r] = state[r]
          /\ state'[child[p]] \in {"WAITING_TO_START", "RUNNABLE"}
      BY <1>0, <2>1, <2>3 DEF TypeOK
    <2>6. NobodyDies
      BY <1>0, <2>1, <2>3, <2>4, <2>5 DEF NobodyDies, Dead
    <2>7. SystemSpared
      BY <1>0, <2>1 DEF SystemSpared, TypeOK
    <2>8. OnCpuAwake'
      BY <1>0, <2>1, <2>5 DEF OnCpuAwake, TypeOK, Dead
    <2> QED
      BY <2>6, <2>7, <2>8, NobodyDiesKeepsFamilies
  <1>21. ASSUME \A q \in Procs : state'[q] # state[q] =>
                  state[q] \notin Dead /\ state'[q] \notin Dead,
                UNCHANGED parent, ForkersGoOn
         PROVE  NobodyDies
    <2>1. \A q \in Procs : state'[q] # state[q] =>
            \A r \in Procs : pc'[r] \in {"copy", "fork"} => child[r] # q
      BY <1>0, <1>21 DEF ForkersGoOn, ForkHoldsChild, Forking, Dead
    <2> QED
      BY <1>21, <2>1 DEF NobodyDies, Dead
  <1>5. CASE SchedulerStart(c, p)
    <2>1. /\ UNCHANGED <<parent, killed, budget, pc, child, chan, running>>
          /\ pc[p] = "user"
          /\ \A q \in Procs : state'[q] # state[q] =>
               state[q] = "WAITING_TO_START" /\ state'[q] = "RUNNABLE"
      BY <1>5 DEF SchedulerStart, InUser
    <2>2. NobodyDies
      BY <1>15, <1>21, <2>1 DEF Dead, Forking
    <2>3. SystemSpared
      BY <1>0, <2>1 DEF SystemSpared
    <2>4. OnCpuAwake'
      BY <1>0, <2>1 DEF OnCpuAwake, TypeOK, Dead
    <2> QED
      BY <2>2, <2>3, <2>4, NobodyDiesKeepsFamilies
  <1>6. CASE KillSome(c, p)
    <2>1. PICK q \in Users :
            /\ killed' = [killed EXCEPT ![q] = TRUE]
            /\ state' = [state EXCEPT ![q] = IF @ = "SLEEPING" THEN "RUNNABLE" ELSE @]
            /\ pc' = [pc EXCEPT ![p] = IF killed'[p] THEN "exit" ELSE "user"]
      BY <1>6 DEF KillSome, Return
    <2>2. UNCHANGED <<parent, child, chan, budget, running>> /\ pc[p] = "user"
      BY <1>6 DEF KillSome, InUser, tableVars
    <2>3. /\ \A r \in Procs : state'[r] # state[r] =>
               state[r] = "SLEEPING" /\ state'[r] = "RUNNABLE"
          /\ \A r \in {init, shell} : ~killed'[r]
          /\ \A r \in Procs : pc'[r] # pc[r] =>
               pc'[r] = "user" \/ (pc'[r] = "exit" /\ killed'[r])
      BY <1>0, <2>1 DEF TypeOK
    <2>4. NobodyDies
      BY <1>0, <1>15, <1>21, <2>1, <2>2, <2>3 DEF Dead, Forking, TypeOK
    <2>5. SystemSpared
      BY <1>0, <2>2, <2>3 DEF SystemSpared
    <2>6. OnCpuAwake'
      BY <1>0, <2>2, <2>3 DEF OnCpuAwake, TypeOK, Dead
    <2> QED
      BY <2>4, <2>5, <2>6, NobodyDiesKeepsFamilies
  <1>7. CASE Exit(c, p)
    BY <1>7, ExitKeepsFamilies
  <1>8. CASE WaitReaps(c, p)
    BY <1>8, ReapKeepsFamilies
  <1>9. ASSUME Return(p, killed), pc[p] \notin Forking,
               UNCHANGED <<killed, parent, child, chan, budget, running>>,
               \A q \in Procs : state'[q] # state[q] =>
                 state[q] = "SLEEPING" /\ state'[q] = "RUNNABLE"
        PROVE  FamilyInv'
    <2>1. NobodyDies
      BY <1>0, <1>9, <1>15, <1>21 DEF Dead, Forking, Return, TypeOK
    <2>2. SystemSpared
      BY <1>0, <1>9 DEF SystemSpared, Return, TypeOK
    <2>3. OnCpuAwake'
      BY <1>0, <1>9 DEF OnCpuAwake, TypeOK, Dead
    <2> QED
      BY <2>1, <2>2, <2>3, NobodyDiesKeepsFamilies
  <1>10. CASE WaitFails(c, p)
    BY <1>9, <1>10 DEF WaitFails, InWait, Forking, tableVars
  <1>11. CASE WaitSleeps(c, p)
    BY <1>11, SleepKeepsFamilies DEF WaitSleeps, InWait, Places, Forking, tableVars
  <1>12. CASE Read(c, p)
    <2>1. CASE Return(p, killed) /\ UNCHANGED <<state, killed, chan, running>>
      BY <1>9, <1>12, <2>1 DEF Read, Forking, tableVars
    <2>2. CASE Sleep(c, p, Console, "read")
      BY <1>12, <2>2, SleepKeepsFamilies DEF Read, Places, Forking, tableVars
    <2> QED
      BY <1>12, <2>1, <2>2 DEF Read
  <1>13. CASE Open(c, p)
    BY <1>13, SleepKeepsFamilies DEF Open, Places, Forking
  <1>14. CASE OpenReturns(c, p)
    <2>1. CASE ReleaseInode /\ Return(p, killed) /\ UNCHANGED <<killed, chan, running>>
      <3>1. \A q \in Procs : state'[q] # state[q] =>
                 state[q] = "SLEEPING" /\ state'[q] = "RUNNABLE"
        BY <2>1 DEF ReleaseInode, Woken
      <3> QED
        BY <1>9, <1>14, <2>1, <3>1 DEF OpenReturns, Forking
    <2>2. CASE Sleep(c, p, Disk, "disk")
      BY <1>14, <2>2, SleepKeepsFamilies DEF OpenReturns, Places, Forking
    <2> QED
      BY <1>14, <2>1, <2>2 DEF OpenReturns
  <1> QED
    BY <1>1, <1>2, <1>3, <1>4, <1>5, <1>6, <1>7, <1>8, <1>10, <1>11, <1>12,
       <1>13, <1>14, <1>17, <1>18, <1>19, <1>20 DEF SystemCall

\* Every interrupt's handler spares init, the shell and the dead, and leaves
\* the end of trap() to do the rest; only Ctrl-B changes parents.
LEMMA HandlersSpare ==
  ASSUME FamilyInv, NEW c \in CPUs, Timer(c) \/ SendSignalToAll(c)
  PROVE  /\ \E states, kills, susp, clock :
              HandlerSpares(states, kills) /\ TrapEnds(c, states, susp, kills, clock)
         /\ \A p \in Procs :
              \/ parent'[p] = parent[p]
              \/ parent'[p] = init /\ state[p] # "UNUSED" /\ "SIGBG" \in Signals
         /\ "SIGBG" \notin Signals => UNCHANGED parent
         /\ UNCHANGED <<chan, startLater, budget, child, delay, inode>>
  <1>0. /\ TypeOK /\ Users \subseteq Procs
        /\ \A q \in {init, shell} :
             q \in Procs /\ q \notin Users /\ state[q] \notin Dead /\ ~killed[q]
    BY SlotFacts DEF FamilyInv, SystemLives, Users
  <1>1. CASE Timer(c)
    <2>1. HandlerSpares(state, killed)
      BY <1>0 DEF HandlerSpares, TypeOK
    <2>2. TrapEnds(c, state, suspended, killed, TRUE)
      BY <1>1 DEF Timer
    <2> QED
      BY <1>1, <2>1, <2>2 DEF Timer, tableVars
  <1>2. CASE SigInt(c)
    <2> DEFINE hit == {p \in Users : state[p] # "UNUSED"}
               freed == {p \in hit : state[p] \in
                   {"SLEEPING", "SUSPENDED", "WAITING_TO_START", "RUNNABLE"}}
               states == [p \in Procs |-> IF p \in freed \cup {shell}
                                          THEN "RUNNABLE" ELSE state[p]]
               kills == [p \in Procs |-> killed[p] \/ p \in hit]
    <2>1. HandlerSpares(states, kills)
      BY <1>0 DEF HandlerSpares, TypeOK, States, Dead
    <2>2. TrapEnds(c, states, suspended, kills, FALSE)
      BY <1>2 DEF SigInt
    <2>3. UNCHANGED <<chan, tableVars>>
      BY <1>2 DEF SigInt
    <2> HIDE DEF states, kills
    <2> QED
      BY <2>1, <2>2, <2>3 DEF tableVars
  <1>3. CASE SigBg(c) /\ "SIGBG" \in Signals
    <2> DEFINE hit == {p \in Users : state[p] \in
                         {"RUNNING", "RUNNABLE", "SLEEPING", "WAITING_TO_START"}}
               states == [p \in Procs |-> IF p \in hit THEN "SUSPENDED"
                                          ELSE IF p = shell THEN "RUNNABLE"
                                          ELSE state[p]]
    <2>1. HandlerSpares(states, killed)
      BY <1>0 DEF HandlerSpares, TypeOK, States, Dead
    <2>2. TrapEnds(c, states, suspended', killed, FALSE)
      BY <1>3 DEF SigBg
    <2>3. /\ \A p \in Procs :
               parent'[p] = parent[p] \/ (parent'[p] = init /\ state[p] # "UNUSED")
          /\ UNCHANGED <<chan, startLater, budget, child, delay, inode>>
      BY <1>3 DEF SigBg
    <2> HIDE DEF states
    <2> QED
      BY <1>3, <2>1, <2>2, <2>3
  <1>4. CASE SigFg(c)
    <2> DEFINE hit == {p \in Users : state[p] = "SUSPENDED"}
               states == [p \in Procs |-> IF p \in hit \cup {shell}
                                          THEN "RUNNABLE" ELSE state[p]]
    <2>1. HandlerSpares(states, killed)
      BY <1>0 DEF HandlerSpares, TypeOK, States, Dead
    <2>2. TrapEnds(c, states, suspended', killed, FALSE)
      BY <1>4 DEF SigFg
    <2>3. UNCHANGED <<chan, tableVars>>
      BY <1>4 DEF SigFg
    <2> HIDE DEF states
    <2> QED
      BY <2>1, <2>2, <2>3 DEF tableVars
  <1> QED
    BY <1>1, <1>2, <1>3, <1>4 DEF SendSignalToAll

\* Interrupts, control keys among them, keep the families.
LEMMA InterruptKeepsFamilies ==
  ASSUME FamilyInv, OneCpuEach, TypeOK', NEW c \in CPUs,
         Timer(c) \/ SendSignalToAll(c)
  PROVE  FamilyInv'
  BY HandlersSpare, TrapEndsKeepsFamilies

\* The scheduler and the devices keep the families.
LEMMA OtherStepsKeepFamilies ==
  ASSUME FamilyInv, TypeOK',
         \/ \E c \in CPUs, p \in Procs : Schedule(c, p)
         \/ \E ch \in {Console, Disk} : Wakeup(ch)
         \/ UNCHANGED vars
  PROVE  FamilyInv'
  <1>0. /\ TypeOK /\ OnCpuAwake /\ init \in Procs /\ shell \in Procs
        /\ \A q \in {init, shell} :
             ~killed[q] /\ ~budget[q] /\ pc[q] \notin {"exit", "dead"}
    BY SlotFacts DEF FamilyInv, SystemLives
  <1>1. CASE \E c \in CPUs, p \in Procs : Schedule(c, p)
    <2>1. PICK c \in CPUs, p \in Procs : Schedule(c, p)
      BY <1>1
    <2>2. /\ state[p] = "RUNNABLE"
          /\ state' = [state EXCEPT ![p] = "RUNNING"]
          /\ running' = [running EXCEPT ![c] = p]
          /\ chan' = [chan EXCEPT ![p] = None]
          /\ UNCHANGED <<parent, killed, budget, child>>
          /\ \/ chan[p] # None /\ killed[p] /\ pc' = [pc EXCEPT ![p] = "exit"]
             \/ pc' = pc
      BY <2>1 DEF Schedule, Eligible
    <2>3. ForkersGoOn
      BY <1>0, <2>2 DEF ForkersGoOn, FamilyInv, ForkHoldsChild, Forking, TypeOK
    <2>4. NobodyDies
      <3>1. \A q \in Procs : state'[q] # state[q] => q = p /\ state'[q] = "RUNNING"
        BY <1>0, <2>2 DEF TypeOK
      <3>2. \A r \in Procs : pc'[r] \in {"copy", "fork"} => child[r] # p
        BY <1>0, <2>2, <2>3 DEF ForkersGoOn, FamilyInv, ForkHoldsChild, Forking
      <3> QED
        BY <2>2, <2>3, <3>1, <3>2 DEF NobodyDies, Dead
    <2>5. SystemSpared
      BY <1>0, <2>2 DEF SystemSpared, TypeOK
    <2>6. OnCpuAwake'
      BY <1>0, <2>2 DEF OnCpuAwake, Dead, TypeOK
    <2> QED
      BY <2>4, <2>5, <2>6, NobodyDiesKeepsFamilies
  <1>2. CASE (\E ch \in {Console, Disk} : Wakeup(ch)) \/ UNCHANGED vars
    <2>1. /\ UNCHANGED <<parent, killed, budget, child, chan, pc, running>>
          /\ \A q \in Procs : state'[q] # state[q] =>
               state[q] = "SLEEPING" /\ state'[q] = "RUNNABLE"
      BY <1>2 DEF Wakeup, Woken, tableVars, vars
    <2>2. ForkersGoOn
      BY <2>1 DEF ForkersGoOn, FamilyInv, ForkHoldsChild
    <2>3. NobodyDies
      BY <2>1, <2>2 DEF NobodyDies, Dead, FamilyInv, ForkHoldsChild, Forking
    <2>4. SystemSpared
      BY <1>0, <2>1 DEF SystemSpared
    <2>5. OnCpuAwake'
      BY <1>0, <2>1 DEF OnCpuAwake, Dead, TypeOK
    <2> QED
      BY <2>3, <2>4, <2>5, NobodyDiesKeepsFamilies
  <1> QED
    BY <1>1, <1>2

\* userinit() and the first shell make a family of two.
LEMMA FamilyInit == Init => FamilyInv
  <1> SUFFICES ASSUME Init PROVE FamilyInv
    OBVIOUS
  <1>1. TypeOK
    BY SlotFacts DEF Init, TypeOK, States, Channels
  <1>2. init # shell /\ init \in Procs /\ shell \in Procs /\ None \notin Procs
    BY SlotFacts DEF init, shell
  <1>3. OnCpuAwake
    BY DEF Init, OnCpuAwake
  <1>4. SystemLives /\ FreeSlotsAreNoChildren /\ ForkHoldsChild /\ ParentsAlive
    BY <1>2 DEF Init, SystemLives, FreeSlotsAreNoChildren, ForkHoldsChild,
                Forking, ParentsAlive, Dead
  <1> QED
    BY <1>1, <1>3, <1>4 DEF FamilyInv

\* Every operation of the process table keeps the families.
LEMMA FamilyStep ==
  ASSUME FamilyInv, OneCpuEach, HoldsOwnChild, [Next]_vars, TypeOK'
  PROVE  FamilyInv'
  BY SystemCallKeepsFamilies, InterruptKeepsFamilies, OtherStepsKeepFamilies DEF Next

-----------------------------------------------------------------------------
(* CPUs.  Without control keys, and without custom_fork() on several CPUs, *)
(* RUNNING says which processes are on a CPU.                              *)

OneCpu == \E c \in CPUs : CPUs = {c}

RunningIffOnCpu ==
  \A p \in Procs : state[p] = "RUNNING" <=> \E c \in CPUs : running[c] = p

NoneSuspended == \A p \in Procs : ~suspended[p]

CpuInv == RunningIffOnCpu /\ OneCpuEach /\ \A p \in Procs : state[p] # "SUSPENDED"

\* Without Ctrl-B nothing is ever suspended.
LEMMA NoneSuspendedStep ==
  ASSUME TypeOK, NoneSuspended, [Next]_vars, "SIGBG" \notin Signals
  PROVE  NoneSuspended'
  <1>1. ASSUME NEW c \in CPUs, NEW p \in Procs, SystemCall(c, p)
        PROVE  NoneSuspended'
    <2>1. \/ UNCHANGED suspended
          \/ \E q \in Procs : suspended' = [suspended EXCEPT ![q] = FALSE]
      BY <1>1 DEF SystemCall, EnterKernel, Fork, CopyProcess, ForkReturns,
         FindChild, SetStartLater, SetExecTime, SetState, SchedulerStart, KillSome, Exit, WaitReaps, WaitFails, WaitSleeps, Read,
         Open, OpenReturns, Sleep
    <2> QED
      BY <2>1 DEF NoneSuspended, TypeOK
  <1>2. ASSUME NEW c \in CPUs, NEW p \in Procs, Schedule(c, p)
        PROVE  NoneSuspended'
    BY <1>2 DEF Schedule, NoneSuspended
  <1>3. ASSUME NEW c \in CPUs, Timer(c) \/ SendSignalToAll(c)
        PROVE  NoneSuspended'
    BY <1>3 DEF Timer, SendSignalToAll, SigInt, SigFg, NoneSuspended
  <1>4. ASSUME NEW ch \in {Console, Disk}, Wakeup(ch)
        PROVE  NoneSuspended'
    BY <1>4 DEF Wakeup, NoneSuspended
  <1>5. CASE UNCHANGED vars
    BY <1>5 DEF vars, NoneSuspended
  <1> QED
    BY <1>1, <1>2, <1>3, <1>4, <1>5 DEF Next

\* Programs that do not call custom_fork() never set its delay.
LEMMA NoCustomForkStep ==
  ASSUME TypeOK, NoCustomFork, [Next]_vars, ~CustomFork
  PROVE  NoCustomFork'
  <1>1. ASSUME NEW c \in CPUs, NEW p \in Procs, SystemCall(c, p)
        PROVE  NoCustomFork'
    <2>1. CASE Fork(c, p)
      <3>1. /\ delay' = [delay EXCEPT ![p] = "none"]
            /\ \E q \in Procs : pc' = [pc EXCEPT ![p] = "copy", ![q] = "user"]
        BY <2>1 DEF Fork
      <3> QED
        BY <3>1 DEF NoCustomFork, Forking, TypeOK
    <2>2. CASE ~Fork(c, p)
      <3>1. /\ UNCHANGED delay
            /\ \/ UNCHANGED pc
               \/ \E k \in {"copy", "fork"} \cup (Places \ Forking) :
                    pc' = [pc EXCEPT ![p] = k]
        <4>1. CASE EnterKernel(c, p)
          BY <4>1 DEF EnterKernel, tableVars, Places, Forking
        <4>2. CASE CopyProcess(c, p)
          BY <4>2 DEF CopyProcess
        <4>3. CASE ForkReturns(c, p)
          BY <4>3 DEF ForkReturns, NoCustomFork, Return, Places, Forking
        <4>4. CASE FindChild(c, p) \/ SetStartLater(c, p) \/ SetExecTime(c, p)
                   \/ SetState(c, p)
          BY <4>4 DEF FindChild, SetStartLater, SetExecTime, SetState, NoCustomFork,
                      Forking
        <4>5. CASE SchedulerStart(c, p) \/ Exit(c, p)
          BY <4>5 DEF SchedulerStart, Exit, Places, Forking
        <4>6. CASE KillSome(c, p)
          BY <4>6 DEF KillSome, Return, tableVars, Places, Forking
        <4>7. CASE WaitReaps(c, p) \/ WaitFails(c, p) \/ WaitSleeps(c, p)
          BY <4>7 DEF WaitReaps, WaitFails, WaitSleeps, Sleep, Return, tableVars,
                      Places, Forking
        <4>8. CASE Read(c, p) \/ Open(c, p) \/ OpenReturns(c, p)
          BY <4>8 DEF Read, Open, OpenReturns, Sleep, Return, tableVars, Places, Forking
        <4> QED
          BY <1>1, <2>2, <4>1, <4>2, <4>3, <4>4, <4>5, <4>6, <4>7, <4>8 DEF SystemCall
      <3> QED
        BY <3>1 DEF NoCustomFork, Places, Forking, TypeOK
    <2> QED
      BY <2>1, <2>2
  <1>2. ASSUME NEW c \in CPUs, NEW p \in Procs, Schedule(c, p)
        PROVE  NoCustomFork'
    BY <1>2 DEF Schedule, NoCustomFork, Forking, TypeOK
  <1>3. ASSUME NEW c \in CPUs, Timer(c) \/ SendSignalToAll(c)
        PROVE  NoCustomFork'
    <2>1. PICK states, susp, kills, clock : TrapEnds(c, states, susp, kills, clock)
      BY <1>3 DEF Timer, SendSignalToAll, SigInt, SigBg, SigFg
    <2>2. \/ UNCHANGED pc
          \/ pc' = [pc EXCEPT ![running[c]] = "exit"]
      BY <2>1 DEF TrapEnds
    <2>3. UNCHANGED delay
      BY <1>3 DEF Timer, SendSignalToAll, SigInt, SigBg, SigFg, tableVars
    <2> QED
      BY <2>2, <2>3 DEF NoCustomFork, Forking, TypeOK
  <1>4. CASE (\E ch \in {Console, Disk} : Wakeup(ch)) \/ UNCHANGED vars
    BY <1>4 DEF Wakeup, NoCustomFork, tableVars, vars
  <1> QED
    BY <1>1, <1>2, <1>3, <1>4 DEF Next

\* Changes of state that do not concern the CPUs.
IdleChange(q) == state'[q] # state[q] =>
                   state[q] # "RUNNING" /\ state'[q] \notin {"RUNNING", "SUSPENDED"}

\* As long as the CPUs keep their processes, RUNNING is right.
LEMMA CpusKept ==
  ASSUME CpuInv, UNCHANGED running, \A q \in Procs : IdleChange(q)
  PROVE  CpuInv'
  <1>1. RunningIffOnCpu' /\ \A q \in Procs : state'[q] # "SUSPENDED"
    BY DEF CpuInv, RunningIffOnCpu, IdleChange
  <1> QED
    BY <1>1 DEF CpuInv, OneCpuEach

\* RUNNING is right after a process has given up its CPU.
LEMMA CpuGivenUp ==
  ASSUME TypeOK, CpuInv, NEW c \in CPUs, NEW p \in Procs, On(c, p),
         NEW states, NEW kills \in [Procs -> BOOLEAN], Sched(c, states, kills),
         states[p] \notin {"RUNNING", "SUSPENDED"},
         \A q \in Procs : q # p /\ states[q] # state[q] =>
           state[q] # "RUNNING" /\ states[q] \notin {"RUNNING", "SUSPENDED"}
  PROVE  CpuInv'
  <1>1. /\ running' = [running EXCEPT ![c] = None] /\ state' = states
        /\ running[c] = p /\ p # None
    BY DEF Sched, On
  <1>2. \A d \in CPUs : running'[d] = IF d = c THEN None ELSE running[d]
    BY <1>1 DEF TypeOK
  <1>3. \A d \in CPUs : d # c => running[d] # p
    BY <1>1 DEF CpuInv, OneCpuEach
  <1>4. RunningIffOnCpu'
    <2> SUFFICES ASSUME NEW q \in Procs
                 PROVE  state'[q] = "RUNNING" <=> \E d \in CPUs : running'[d] = q
      BY DEF RunningIffOnCpu
    <2>1. CASE q = p
      BY <1>1, <1>2, <1>3, <2>1, SlotFacts
    <2>2. CASE q # p
      <3>1. state'[q] = "RUNNING" <=> state[q] = "RUNNING"
        BY <1>1, <2>2
      <3>2. (\E d \in CPUs : running'[d] = q) <=> (\E d \in CPUs : running[d] = q)
        BY <1>1, <1>2, <2>2, SlotFacts
      <3> QED
        BY <3>1, <3>2 DEF CpuInv, RunningIffOnCpu
    <2> QED
      BY <2>1, <2>2
  <1>5. OneCpuEach'
    BY <1>2 DEF CpuInv, OneCpuEach
  <1>6. \A q \in Procs : state'[q] # "SUSPENDED"
    BY <1>1 DEF CpuInv
  <1> QED
    BY <1>4, <1>5, <1>6 DEF CpuInv

\* System calls keep RUNNING right; sys_custom_fork() only if no other CPU can
\* run the child meanwhile.
LEMMA SystemCallKeepsCpus ==
  ASSUME FamilyInv, CpuInv, TypeOK', NEW c \in CPUs, NEW p \in Procs,
         SystemCall(c, p), OneCpu \/ NoCustomFork
  PROVE  CpuInv'
  <1>0. TypeOK /\ killed \in [Procs -> BOOLEAN]
    BY DEF FamilyInv, TypeOK
  <1>1. ASSUME NEW ch, NEW k, On(c, p), Sleep(c, p, ch, k)
        PROVE  CpuInv'
    <2> DEFINE states == [state EXCEPT ![p] = "SLEEPING"]
    <2>1. Sched(c, states, killed) /\ On(c, p)
      BY <1>1 DEF Sleep
    <2>2. states[p] = "SLEEPING" /\ \A q \in Procs : q # p => states[q] = state[q]
      BY <1>0 DEF TypeOK
    <2> HIDE DEF states
    <2> QED
      BY <1>0, <2>1, <2>2, CpuGivenUp
  <1>2. CASE \/ EnterKernel(c, p) \/ WaitFails(c, p) \/ CopyProcess(c, p)
             \/ FindChild(c, p) \/ SetStartLater(c, p) \/ SetExecTime(c, p)
    BY <1>2, CpusKept DEF EnterKernel, WaitFails, CopyProcess, FindChild,
                          SetStartLater, SetExecTime, IdleChange
  <1>3. CASE Fork(c, p)
    <2>1. UNCHANGED running /\ \A q \in Procs : IdleChange(q)
      BY <1>0, <1>3 DEF Fork, IdleChange, TypeOK
    <2> QED
      BY <2>1, CpusKept
  <1>4. CASE ForkReturns(c, p)
    <2>1. child[p] \in Procs /\ state[child[p]] = "EMBRYO"
      BY <1>0, <1>4 DEF FamilyInv, ForkHoldsChild, Forking, ForkReturns, TypeOK
    <2>2. UNCHANGED running /\ \A q \in Procs : IdleChange(q)
      BY <1>0, <1>4, <2>1 DEF ForkReturns, IdleChange, TypeOK
    <2> QED
      BY <2>2, CpusKept
  <1>5. CASE SetState(c, p)
    <2>1. OneCpu /\ On(c, p) /\ UNCHANGED running
      BY <1>5 DEF SetState, NoCustomFork, Forking
    <2>2. child[p] \in Procs /\ child[p] # p
      BY <1>0, <1>5 DEF SetState, FamilyInv, ForkHoldsChild, Forking, TypeOK
    <2>3. state[child[p]] # "RUNNING"
      BY <2>1, <2>2 DEF OneCpu, On, CpuInv, RunningIffOnCpu
    <2>4. \A q \in Procs : IdleChange(q)
      BY <1>0, <1>5, <2>2, <2>3 DEF SetState, IdleChange, TypeOK
    <2> QED
      BY <2>1, <2>4, CpusKept
  <1>6. CASE SchedulerStart(c, p)
    <2>1. UNCHANGED running /\ \A q \in Procs : IdleChange(q)
      BY <1>6 DEF SchedulerStart, IdleChange
    <2> QED
      BY <2>1, CpusKept
  <1>7. CASE KillSome(c, p)
    <2>1. UNCHANGED running /\ \A q \in Procs : IdleChange(q)
      BY <1>0, <1>7 DEF KillSome, IdleChange, TypeOK
    <2> QED
      BY <2>1, CpusKept
  <1>8. CASE Exit(c, p)
    <2> DEFINE once == Woken(parent[p], state)
               twice == Woken(init, once)
               orphaned == \E q \in {r \in Procs : parent[r] = p} : state[q] = "ZOMBIE"
               left == [(IF orphaned THEN twice ELSE once) EXCEPT ![p] = "ZOMBIE"]
    <2>1. Sched(c, left, killed) /\ On(c, p)
      BY <1>8 DEF Exit
    <2>2. /\ left[p] = "ZOMBIE"
          /\ \A q \in Procs : q # p /\ left[q] # state[q] =>
               state[q] = "SLEEPING" /\ left[q] = "RUNNABLE"
      BY DEF Woken
    <2> HIDE DEF left
    <2> QED
      BY <1>0, <2>1, <2>2, CpuGivenUp
  <1>9. CASE WaitReaps(c, p)
    <2>1. UNCHANGED running /\ \A q \in Procs : IdleChange(q)
      BY <1>0, <1>9 DEF WaitReaps, DeadChildren, IdleChange, TypeOK
    <2> QED
      BY <2>1, CpusKept
  <1>10. CASE WaitSleeps(c, p)
    BY <1>1, <1>10 DEF WaitSleeps, InWait
  <1>11. CASE Read(c, p)
    <2>1. CASE UNCHANGED <<state, running>>
      BY <2>1, CpusKept DEF IdleChange
    <2> QED
      BY <1>1, <1>11, <2>1 DEF Read
  <1>12. CASE Open(c, p)
    BY <1>1, <1>12 DEF Open
  <1>13. CASE OpenReturns(c, p)
    <2>1. CASE ReleaseInode /\ UNCHANGED running
      BY <2>1, CpusKept DEF ReleaseInode, Woken, IdleChange
    <2> QED
      BY <1>1, <1>13, <2>1 DEF OpenReturns
  <1> QED
    BY <1>2, <1>3, <1>4, <1>5, <1>6, <1>7, <1>8, <1>9, <1>10, <1>11, <1>12,
       <1>13 DEF SystemCall

\* Without control keys, and without custom_fork() on several CPUs, every
\* step keeps RUNNING right.
LEMMA CpuStep ==
  ASSUME FamilyInv, CpuInv, NoneSuspended, TypeOK', [Next]_vars, Signals = {},
         OneCpu \/ NoCustomFork
  PROVE  CpuInv'
  <1>0. TypeOK /\ killed \in [Procs -> BOOLEAN]
    BY DEF FamilyInv, TypeOK
  <1>1. ASSUME NEW c \in CPUs, NEW p \in Procs, Schedule(c, p)
        PROVE  CpuInv'
    <2>1. /\ state[p] = "RUNNABLE" /\ running[c] = None
          /\ state' = [state EXCEPT ![p] = "RUNNING"]
          /\ running' = [running EXCEPT ![c] = p]
      BY <1>1 DEF Schedule, Eligible
    <2>2. \A d \in CPUs : running[d] # p
      BY <2>1 DEF CpuInv, RunningIffOnCpu
    <2>3. /\ \A d \in CPUs : running'[d] = IF d = c THEN p ELSE running[d]
          /\ \A q \in Procs : state'[q] = IF q = p THEN "RUNNING" ELSE state[q]
      BY <1>0, <2>1 DEF TypeOK
    <2>4. RunningIffOnCpu'
      <3> SUFFICES ASSUME NEW q \in Procs
                   PROVE  state'[q] = "RUNNING" <=> \E d \in CPUs : running'[d] = q
        BY DEF RunningIffOnCpu
      <3>1. state[q] = "RUNNING" <=> \E d \in CPUs : running[d] = q
        BY DEF CpuInv, RunningIffOnCpu
      <3>2. CASE q = p
        BY <2>3, <3>2
      <3>3. CASE q # p
        BY <2>1, <2>3, <3>1, <3>3, SlotFacts
      <3> QED
        BY <3>2, <3>3
    <2>5. OneCpuEach'
      BY <2>2, <2>3 DEF CpuInv, OneCpuEach
    <2> QED
      BY <2>3, <2>4, <2>5 DEF CpuInv
  <1>2. ASSUME NEW c \in CPUs, Timer(c)
        PROVE  CpuInv'
    <2> DEFINE p == running[c]
               yields == \/ pc[p] = "user" /\ suspended[p] /\ p > shell
                         \/ state[p] = "RUNNING" /\ TRUE
                              /\ ~(pc[p] = "user" /\ killed[p])
               left == [state EXCEPT ![p] =
                          IF @ = "SUSPENDED" THEN @ ELSE "RUNNABLE"]
    <2>1. TrapEnds(c, state, suspended, killed, TRUE) /\ p \in Procs /\ p # None
      BY <1>0, <1>2, SlotFacts DEF Timer, TypeOK
    <2>2. CASE yields
      <3>1. Sched(c, left, killed)
        BY <2>1, <2>2 DEF TrapEnds
      <3>2. left[p] = "RUNNABLE" /\ \A q \in Procs : q # p => left[q] = state[q]
        BY <1>0, <2>1 DEF TypeOK, CpuInv
      <3>3. On(c, p)
        BY <2>1 DEF On
      <3> HIDE DEF left, p
      <3> QED
        BY <1>0, <2>1, <3>1, <3>2, <3>3, CpuGivenUp
    <2>3. CASE ~yields
      <3>1. UNCHANGED <<state, running>>
        BY <2>1, <2>3 DEF TrapEnds
      <3> QED
        BY <3>1, CpusKept DEF IdleChange
    <2> QED
      BY <2>2, <2>3
  <1>3. CASE (\E ch \in {Console, Disk} : Wakeup(ch)) \/ UNCHANGED vars
    <2>1. UNCHANGED running /\ \A q \in Procs : IdleChange(q)
      BY <1>3 DEF Wakeup, Woken, IdleChange, vars
    <2> QED
      BY <2>1, CpusKept
  <1> QED
    BY <1>1, <1>2, <1>3, SystemCallKeepsCpus DEF Next, SendSignalToAll

-----------------------------------------------------------------------------
(* The dead and the waiting *)

\* Without custom_fork(), which sets the state of a child that may have
\* exited, no step makes a process that has exited run again.
LEMMA DeadStep ==
  ASSUME FamilyInv, OneCpuEach, NoCustomFork, DeadStaysDead, [Next]_vars
  PROVE  DeadStaysDead'
  <1>0. TypeOK /\ \A q \in Procs : pc[q] = "dead" => state[q] \in {"ZOMBIE", "UNUSED"}
    BY DEF FamilyInv, DeadStaysDead
  <1>1. ASSUME \A q \in Procs : state'[q] # state[q] => state[q] \notin {"ZOMBIE", "UNUSED"},
               \A q \in Procs : pc'[q] = "dead" => pc[q] = "dead"
        PROVE  DeadStaysDead'
    BY <1>0, <1>1 DEF DeadStaysDead
  <1>2. ASSUME NEW c \in CPUs, NEW p \in Procs, NEW ch,
               NEW k \in Places \ {"dead"}, On(c, p), Sleep(c, p, ch, k)
        PROVE  DeadStaysDead'
    <2>1. state' = [state EXCEPT ![p] = "SLEEPING"] /\ pc' = [pc EXCEPT ![p] = k]
      BY <1>2 DEF Sleep, Sched
    <2>2. state[p] \notin Dead
      BY <1>2 DEF On, FamilyInv, OnCpuAwake
    <2> QED
      BY <1>0, <1>1, <2>1, <2>2 DEF Dead, TypeOK
  <1>3. ASSUME NEW c \in CPUs, NEW p \in Procs, Return(p, killed), UNCHANGED state
        PROVE  DeadStaysDead'
    BY <1>0, <1>1, <1>3 DEF Return, TypeOK
  <1>4. ASSUME NEW c \in CPUs, NEW p \in Procs, SystemCall(c, p)
        PROVE  DeadStaysDead'
    <2>1. CASE EnterKernel(c, p)
      BY <1>0, <1>1, <2>1 DEF EnterKernel, TypeOK
    <2>2. CASE Fork(c, p)
      <3>1. PICK q \in Procs :
              /\ state' = [state EXCEPT ![q] = "EMBRYO"]
              /\ pc' = [pc EXCEPT ![p] = "copy", ![q] = "user"]
        BY <2>2 DEF Fork
      <3> QED
        BY <1>0, <3>1 DEF DeadStaysDead, TypeOK
    <2>3. CASE ForkReturns(c, p)
      <3>1. /\ state' = [state EXCEPT ![child[p]] = "RUNNABLE"]
            /\ Return(p, killed)
        BY <2>3 DEF ForkReturns, NoCustomFork
      <3>2. child[p] \in Procs /\ state[child[p]] = "EMBRYO"
        BY <1>0, <2>3 DEF FamilyInv, ForkHoldsChild, Forking, ForkReturns, TypeOK
      <3> QED
        BY <1>0, <1>1, <3>1, <3>2 DEF Return, TypeOK
    <2>4. CASE CopyProcess(c, p)
      BY <1>0, <1>1, <2>4 DEF CopyProcess, TypeOK
    <2>12. CASE FindChild(c, p) \/ SetStartLater(c, p) \/ SetExecTime(c, p)
                \/ SetState(c, p)
      BY <2>12 DEF FindChild, SetStartLater, SetExecTime, SetState, NoCustomFork, Forking
    <2>5. CASE SchedulerStart(c, p)
      BY <1>1, <2>5 DEF SchedulerStart
    <2>6. CASE KillSome(c, p)
      <3>1. PICK q \in Users :
              /\ state' = [state EXCEPT ![q] = IF @ = "SLEEPING" THEN "RUNNABLE" ELSE @]
              /\ pc' = [pc EXCEPT ![p] = IF killed'[p] THEN "exit" ELSE "user"]
        BY <2>6 DEF KillSome, Return
      <3> QED
        BY <1>0, <1>1, <3>1 DEF TypeOK
    <2>7. CASE Exit(c, p)
      <3> DEFINE once == Woken(parent[p], state)
                 twice == Woken(init, once)
                 orphaned == \E q \in {r \in Procs : parent[r] = p} : state[q] = "ZOMBIE"
                 left == [(IF orphaned THEN twice ELSE once) EXCEPT ![p] = "ZOMBIE"]
      <3>1. state' = left /\ pc' = [pc EXCEPT ![p] = "dead"]
        BY <2>7 DEF Exit, Sched
      <3>2. /\ left[p] = "ZOMBIE"
            /\ \A q \in Procs : q # p /\ left[q] # state[q] => state[q] = "SLEEPING"
        BY DEF Woken
      <3> HIDE DEF left
      <3> QED
        BY <1>0, <3>1, <3>2 DEF DeadStaysDead, TypeOK
    <2>8. CASE WaitReaps(c, p)
      <3>1. PICK q \in Procs : state' = [state EXCEPT ![q] = "UNUSED"]
        BY <2>8 DEF WaitReaps, DeadChildren, ChildrenOf
      <3>2. UNCHANGED pc \/ Return(p, killed)
        BY <2>8 DEF WaitReaps
      <3> QED
        BY <1>0, <3>1, <3>2 DEF DeadStaysDead, Return, TypeOK
    <2>9. CASE WaitFails(c, p) \/ WaitSleeps(c, p)
      BY <1>2, <1>3, <2>9 DEF WaitFails, WaitSleeps, InWait, Places
    <2>10. CASE Read(c, p) \/ Open(c, p)
      BY <1>2, <1>3, <2>10 DEF Read, Open, Places
    <2>11. CASE OpenReturns(c, p)
      <3>1. CASE ReleaseInode /\ Return(p, killed)
        BY <1>0, <1>1, <3>1 DEF ReleaseInode, Woken, Return, TypeOK
      <3> QED
        BY <1>2, <2>11, <3>1 DEF OpenReturns, Places
    <2> QED
      BY <1>4, <2>1, <2>2, <2>3, <2>4, <2>5, <2>6, <2>7, <2>8, <2>9, <2>10,
         <2>11, <2>12 DEF SystemCall
  <1>5. ASSUME NEW c \in CPUs, NEW p \in Procs, Schedule(c, p)
        PROVE  DeadStaysDead'
    BY <1>0, <1>1, <1>5 DEF Schedule, Eligible, TypeOK
  <1>6. ASSUME NEW c \in CPUs, Timer(c) \/ SendSignalToAll(c)
        PROVE  DeadStaysDead'
    <2>1. PICK states, kills, susp, clock :
            HandlerSpares(states, kills) /\ TrapEnds(c, states, susp, kills, clock)
      BY <1>6, HandlersSpare
    <2>2. /\ \A q \in Procs : state'[q] # state[q] => state[q] \notin Dead
          /\ \A q \in Procs : pc'[q] # pc[q] => pc'[q] = "exit"
      BY <2>1, TrapEndsEffect
    <2> QED
      BY <1>1, <2>2 DEF Dead
  <1>7. CASE (\E ch \in {Console, Disk} : Wakeup(ch)) \/ UNCHANGED vars
    BY <1>1, <1>7 DEF Wakeup, Woken, vars
  <1> QED
    BY <1>4, <1>5, <1>6, <1>7 DEF Next

\* Nobody is its own parent, and init has none.
NoOwnParent == parent[init] = None /\ \A p \in Procs : parent[p] # p

\* Nobody sleeps in wait() with a dead child to reap or with no child left.
WaitersTold ==
  \A p \in Procs : state[p] = "SLEEPING" /\ chan[p] = p =>
    DeadChildren(p) = {} /\ ChildrenOf(p) # {}

\* Nobody sleeps in acquiresleep() for a lock that is free.
InodeTold ==
  \A p \in Procs : state[p] = "SLEEPING" /\ chan[p] = InodeLock => inode # None

\* Who sleeps in wait() after a step slept there before, or has just found a
\* child to wait for; and what it waits for is still there.
LEMMA WaitersKept ==
  ASSUME TypeOK, WaitersTold, UNCHANGED parent,
         \A q \in Procs : state'[q] = "ZOMBIE" => state[q] = "ZOMBIE",
         \A q \in Procs : state'[q] = "SLEEPING" /\ chan'[q] = q =>
           \/ state[q] = "SLEEPING" /\ chan[q] = q
           \/ DeadChildren(q) = {} /\ ChildrenOf(q) # {}
  PROVE  WaitersTold'
  <1>1. \A q \in Procs : ChildrenOf(q)' = ChildrenOf(q)
    BY DEF ChildrenOf
  <1>2. \A q \in Procs : DeadChildren(q)' \subseteq DeadChildren(q)
    BY DEF DeadChildren, ChildrenOf
  <1> QED
    BY <1>1, <1>2 DEF WaitersTold

\* No step leaves a parent asleep in wait() that has a dead child or none,
\* unless Ctrl-B has changed parents or suspended one.
LEMMA WakeupStep ==
  ASSUME FamilyInv, OneCpuEach, NoneSuspended, WaitersTold, NoOwnParent,
         [Next]_vars, "SIGBG" \notin Signals
  PROVE  WaitersTold' /\ NoOwnParent'
  <1>0. /\ TypeOK /\ init \in Procs /\ None \notin Procs
        /\ \A c \in CPUs : running[c] # None => state[running[c]] \notin Dead \cup {"SLEEPING"}
    BY SlotFacts DEF FamilyInv, OnCpuAwake
  <1>1. ASSUME NEW c \in CPUs, NEW p \in Procs, NEW ch, NEW k, On(c, p),
               Sleep(c, p, ch, k), UNCHANGED parent,
               ch # p \/ (DeadChildren(p) = {} /\ ChildrenOf(p) # {})
        PROVE  WaitersTold' /\ NoOwnParent'
    <2>1. state' = [state EXCEPT ![p] = "SLEEPING"] /\ chan' = [chan EXCEPT ![p] = ch]
      BY <1>1 DEF Sleep, Sched
    <2> QED
      BY <1>0, <1>1, <2>1, WaitersKept DEF NoOwnParent, TypeOK
  <1>2. ASSUME UNCHANGED <<parent, chan>>,
               \A q \in Procs : state'[q] # state[q] => state'[q] \notin {"SLEEPING", "ZOMBIE"}
        PROVE  WaitersTold' /\ NoOwnParent'
    BY <1>0, <1>2, WaitersKept DEF NoOwnParent
  <1>3. ASSUME NEW c \in CPUs, NEW p \in Procs, SystemCall(c, p)
        PROVE  WaitersTold' /\ NoOwnParent'
    <2>1. CASE EnterKernel(c, p) \/ WaitFails(c, p)
      BY <1>2, <2>1 DEF EnterKernel, WaitFails, tableVars
    <2>2. CASE Fork(c, p)
      <3>1. UNCHANGED <<parent, chan>> /\ \E q \in Procs : state' = [state EXCEPT ![q] = "EMBRYO"]
        BY <2>2 DEF Fork
      <3> QED
        BY <1>0, <1>2, <3>1 DEF TypeOK
    <2>13. CASE CopyProcess(c, p)
      <3> DEFINE z == child[p]
      <3>1. /\ z \in Procs /\ z # p /\ z # init /\ parent[z] = None /\ state[z] = "EMBRYO"
            /\ state[p] \notin Dead \cup {"SLEEPING"}
        BY <1>0, <2>13 DEF CopyProcess, On, FamilyInv, ForkHoldsChild, Forking, TypeOK
      <3>2. UNCHANGED <<state, chan>> /\ parent' = [parent EXCEPT ![z] = p]
        BY <2>13 DEF CopyProcess
      <3> HIDE DEF z
      <3>3. \A q \in Procs : parent'[q] = IF q = z THEN p ELSE parent[q]
        BY <1>0, <3>1, <3>2 DEF TypeOK
      <3>4. WaitersTold'
        <4> SUFFICES ASSUME NEW q \in Procs, state'[q] = "SLEEPING", chan'[q] = q
                     PROVE  DeadChildren(q)' = {} /\ ChildrenOf(q)' # {}
          BY DEF WaitersTold
        <4>1. state[q] = "SLEEPING" /\ chan[q] = q /\ q # p
          BY <3>1, <3>2
        <4>2. DeadChildren(q) = {} /\ ChildrenOf(q) # {}
          BY <4>1 DEF WaitersTold
        <4>3. ChildrenOf(q)' = ChildrenOf(q)
          BY <1>0, <3>1, <3>3, <4>1 DEF ChildrenOf
        <4>4. DeadChildren(q)' \subseteq DeadChildren(q)
          BY <3>2, <4>3 DEF DeadChildren, ChildrenOf
        <4> QED
          BY <4>2, <4>3, <4>4
      <3>5. NoOwnParent'
        BY <1>0, <3>1, <3>3 DEF NoOwnParent
      <3> QED
        BY <3>4, <3>5
    <2>3. CASE ForkReturns(c, p)
      BY <1>0, <1>2, <2>3 DEF ForkReturns, TypeOK
    <2>4. CASE FindChild(c, p) \/ SetStartLater(c, p) \/ SetExecTime(c, p)
      BY <1>2, <2>4 DEF FindChild, SetStartLater, SetExecTime, tableVars
    <2>14. CASE SetState(c, p)
      BY <1>0, <1>2, <2>14 DEF SetState, TypeOK
    <2>5. CASE SchedulerStart(c, p)
      BY <1>2, <2>5 DEF SchedulerStart
    <2>6. CASE KillSome(c, p)
      <3>1. PICK q \in Users :
              state' = [state EXCEPT ![q] = IF @ = "SLEEPING" THEN "RUNNABLE" ELSE @]
        BY <2>6 DEF KillSome
      <3>2. UNCHANGED <<parent, chan>>
        BY <2>6 DEF KillSome, tableVars
      <3> QED
        BY <1>0, <1>2, <3>1, <3>2 DEF TypeOK
    <2>7. CASE Exit(c, p)
      <3> DEFINE once == Woken(parent[p], state)
                 twice == Woken(init, once)
                 orphaned == \E q \in {r \in Procs : parent[r] = p} : state[q] = "ZOMBIE"
                 left == [(IF orphaned THEN twice ELSE once) EXCEPT ![p] = "ZOMBIE"]
      <3>1. /\ state' = left /\ chan' = chan
            /\ parent' = [q \in Procs |-> IF parent[q] = p THEN init ELSE parent[q]]
        BY <2>7 DEF Exit, Sched
      <3>2. /\ p # init /\ state[p] \notin Dead \cup {"SLEEPING"}
        BY <1>0, <2>7 DEF Exit, On, FamilyInv, SystemLives
      <3>3. /\ left[p] = "ZOMBIE"
            /\ \A q \in Procs : q # p => left[q] = state[q] \/ left[q] = "RUNNABLE"
            /\ \A q \in Procs : left[q] = "SLEEPING" /\ chan[q] = q =>
                 /\ q # parent[p]
                 /\ q = init => ~orphaned
        BY DEF Woken, NoneSuspended
      <3> HIDE DEF left
      <3>4. WaitersTold'
        <4> SUFFICES ASSUME NEW q \in Procs, state'[q] = "SLEEPING", chan'[q] = q
                     PROVE  DeadChildren(q)' = {} /\ ChildrenOf(q)' # {}
          BY DEF WaitersTold
        <4>1. /\ state[q] = "SLEEPING" /\ chan[q] = q /\ q # p /\ q # parent[p]
              /\ q = init => ~orphaned
          BY <3>1, <3>3
        <4>2. DeadChildren(q) = {} /\ ChildrenOf(q) # {}
          BY <4>1 DEF WaitersTold
        <4>3. ChildrenOf(q) \subseteq ChildrenOf(q)'
          BY <3>1, <4>1 DEF ChildrenOf
        <4>4. ASSUME NEW r \in Procs, parent'[r] = q, state'[r] = "ZOMBIE"
              PROVE  FALSE
          <5>1. CASE parent[r] = q
            BY <3>1, <3>3, <4>1, <4>2, <4>4, <5>1 DEF DeadChildren, ChildrenOf
          <5>2. CASE parent[r] # q
            <6>1. parent[r] = p /\ q = init
              BY <3>1, <4>4, <5>2
            <6>2. r # p
              BY <6>1 DEF NoOwnParent
            <6>3. state[r] = "ZOMBIE"
              BY <3>1, <3>3, <4>4, <6>2
            <6> QED
              BY <4>1, <6>1, <6>3
          <5> QED
            BY <5>1, <5>2
        <4> QED
          BY <4>2, <4>3, <4>4 DEF DeadChildren, ChildrenOf
      <3>5. NoOwnParent'
        BY <1>0, <3>1, <3>2 DEF NoOwnParent
      <3> QED
        BY <3>4, <3>5
    <2>8. CASE WaitReaps(c, p)
      <3>1. PICK z \in Procs :
              /\ parent[z] = p /\ state[z] = "ZOMBIE"
              /\ state' = [state EXCEPT ![z] = "UNUSED"]
              /\ parent' = [parent EXCEPT ![z] = None]
        BY <2>8 DEF WaitReaps, DeadChildren, ChildrenOf
      <3>2. chan' = chan /\ state[p] # "SLEEPING"
        BY <1>0, <2>8 DEF WaitReaps, InWait, On
      <3>3. /\ \A q \in Procs : state'[q] = IF q = z THEN "UNUSED" ELSE state[q]
            /\ \A q \in Procs : parent'[q] = IF q = z THEN None ELSE parent[q]
        BY <1>0, <3>1 DEF TypeOK
      <3>4. WaitersTold'
        <4> SUFFICES ASSUME NEW q \in Procs, state'[q] = "SLEEPING", chan'[q] = q
                     PROVE  DeadChildren(q)' = {} /\ ChildrenOf(q)' # {}
          BY DEF WaitersTold
        <4>1. state[q] = "SLEEPING" /\ chan[q] = q /\ q # p
          BY <3>1, <3>2, <3>3
        <4>2. DeadChildren(q) = {} /\ ChildrenOf(q) # {}
          BY <4>1 DEF WaitersTold
        <4>3. ChildrenOf(q)' = ChildrenOf(q)
          BY <1>0, <3>1, <3>3, <4>1 DEF ChildrenOf
        <4>4. DeadChildren(q)' \subseteq DeadChildren(q)
          BY <3>3, <4>3 DEF DeadChildren, ChildrenOf
        <4> QED
          BY <4>2, <4>3, <4>4
      <3>5. NoOwnParent'
        BY <1>0, <3>3 DEF NoOwnParent
      <3> QED
        BY <3>4, <3>5
    <2>9. CASE WaitSleeps(c, p)
      BY <1>1, <2>9 DEF WaitSleeps, InWait, tableVars
    <2>10. CASE Read(c, p)
      <3>1. CASE UNCHANGED <<state, chan>>
        BY <1>2, <2>10, <3>1 DEF Read, tableVars
      <3> QED
        BY <1>1, <2>10, <3>1, SlotFacts DEF Read, tableVars
    <2>11. CASE Open(c, p)
      BY <1>1, <2>11, SlotFacts DEF Open
    <2>12. CASE OpenReturns(c, p)
      <3>1. CASE ReleaseInode /\ UNCHANGED chan
        BY <1>2, <2>12, <3>1 DEF OpenReturns, ReleaseInode, Woken
      <3> QED
        BY <1>1, <2>12, <3>1, SlotFacts DEF OpenReturns
    <2> QED
      BY <1>3, <2>1, <2>2, <2>3, <2>4, <2>5, <2>6, <2>7, <2>8, <2>9, <2>10,
         <2>11, <2>12, <2>13, <2>14 DEF SystemCall
  <1>4. ASSUME NEW c \in CPUs, NEW p \in Procs, Schedule(c, p)
        PROVE  WaitersTold' /\ NoOwnParent'
    <2>1. /\ state' = [state EXCEPT ![p] = "RUNNING"] /\ chan' = [chan EXCEPT ![p] = None]
          /\ UNCHANGED parent
      BY <1>4 DEF Schedule
    <2> QED
      BY <1>0, <2>1, WaitersKept DEF NoOwnParent, TypeOK
  <1>5. ASSUME NEW c \in CPUs, Timer(c) \/ SendSignalToAll(c)
        PROVE  WaitersTold' /\ NoOwnParent'
    <2>1. PICK states, kills, susp, clock :
            HandlerSpares(states, kills) /\ TrapEnds(c, states, susp, kills, clock)
      BY <1>5, HandlersSpare
    <2>2. \A q \in Procs : state'[q] # state[q] => state'[q] \in {"RUNNABLE", "SUSPENDED"}
      BY <2>1, TrapEndsEffect
    <2>3. UNCHANGED <<parent, chan>>
      BY <1>5, HandlersSpare
    <2> QED
      BY <1>2, <2>2, <2>3
  <1>6. CASE (\E ch \in {Console, Disk} : Wakeup(ch)) \/ UNCHANGED vars
    BY <1>2, <1>6 DEF Wakeup, Woken, tableVars, vars
  <1> QED
    BY <1>3, <1>4, <1>5, <1>6 DEF Next

\* No step leaves a process asleep for an inode's lock that it has freed: the
\* lock is looked at and slept for with one spinlock held.
LEMMA InodeStep ==
  ASSUME FamilyInv, OneCpuEach, NoneSuspended, InodeTold, [Next]_vars
  PROVE  InodeTold'
  <1>0. TypeOK /\ InodeLock \notin {Console, Disk, None} \cup Procs /\ None \notin Procs
    BY ProcAssumption, SlotFacts DEF FamilyInv
  <1>1. ASSUME UNCHANGED inode, \A q \in Procs :
                 state'[q] = "SLEEPING" => state[q] = "SLEEPING" /\ chan'[q] = chan[q]
        PROVE  InodeTold'
    BY <1>1 DEF InodeTold
  <1>2. ASSUME NEW c \in CPUs, NEW p \in Procs, NEW ch, NEW k, Sleep(c, p, ch, k),
               ch = InodeLock => inode # None,
               inode' = inode \/ inode' \in Procs
        PROVE  InodeTold'
    <2>1. state' = [state EXCEPT ![p] = "SLEEPING"] /\ chan' = [chan EXCEPT ![p] = ch]
      BY <1>2 DEF Sleep, Sched
    <2> QED
      BY <1>0, <1>2, <2>1 DEF InodeTold, TypeOK
  <1>3. ASSUME NEW c \in CPUs, NEW p \in Procs, SystemCall(c, p)
        PROVE  InodeTold'
    <2>1. CASE \/ EnterKernel(c, p) \/ WaitFails(c, p) \/ CopyProcess(c, p)
               \/ FindChild(c, p) \/ SetStartLater(c, p) \/ SetExecTime(c, p)
      BY <1>1, <2>1 DEF EnterKernel, WaitFails, CopyProcess, FindChild,
                        SetStartLater, SetExecTime, tableVars
    <2>2. CASE Fork(c, p)
      <3>1. /\ UNCHANGED <<inode, chan>>
            /\ \E q \in Procs : state' = [state EXCEPT ![q] = "EMBRYO"]
        BY <2>2 DEF Fork
      <3> QED
        BY <1>0, <1>1, <3>1 DEF TypeOK
    <2>3. CASE ForkReturns(c, p) \/ SetState(c, p)
      BY <1>0, <1>1, <2>3 DEF ForkReturns, SetState, TypeOK
    <2>4. CASE SchedulerStart(c, p)
      BY <1>0, <1>1, <2>4 DEF SchedulerStart, TypeOK
    <2>5. CASE KillSome(c, p)
      <3>1. /\ UNCHANGED <<inode, chan>>
            /\ \E q \in Users :
                 state' = [state EXCEPT ![q] = IF @ = "SLEEPING" THEN "RUNNABLE" ELSE @]
        BY <2>5 DEF KillSome, tableVars
      <3> QED
        BY <1>0, <1>1, <3>1 DEF TypeOK
    <2>6. CASE Exit(c, p)
      <3> DEFINE once == Woken(parent[p], state)
                 twice == Woken(init, once)
                 orphaned == \E q \in {r \in Procs : parent[r] = p} : state[q] = "ZOMBIE"
                 left == [(IF orphaned THEN twice ELSE once) EXCEPT ![p] = "ZOMBIE"]
      <3>1. state' = left /\ UNCHANGED <<chan, inode>>
        BY <2>6 DEF Exit, Sched
      <3>2. \A q \in Procs : left[q] = "SLEEPING" => state[q] = "SLEEPING"
        BY DEF Woken
      <3> HIDE DEF left
      <3> QED
        BY <1>1, <3>1, <3>2
    <2>7. CASE WaitReaps(c, p)
      <3>1. /\ UNCHANGED <<inode, chan>>
            /\ \E q \in Procs : state' = [state EXCEPT ![q] = "UNUSED"]
        BY <2>7 DEF WaitReaps, DeadChildren, ChildrenOf
      <3> QED
        BY <1>0, <1>1, <3>1 DEF TypeOK
    <2>8. CASE WaitSleeps(c, p)
      BY <1>0, <1>2, <2>8 DEF WaitSleeps, InWait, tableVars
    <2>9. CASE Read(c, p)
      <3>1. CASE UNCHANGED <<state, chan>>
        BY <1>1, <2>9, <3>1 DEF Read, tableVars
      <3> QED
        BY <1>0, <1>2, <2>9, <3>1 DEF Read, tableVars
    <2>10. CASE Open(c, p)
      BY <1>0, <1>2, <2>10 DEF Open
    <2>11. CASE OpenReturns(c, p)
      <3>1. CASE ReleaseInode /\ UNCHANGED chan
        <4>1. \A q \in Procs : state'[q] = "SLEEPING" => chan[q] # InodeLock
          BY <3>1 DEF ReleaseInode, Woken, NoneSuspended
        <4> QED
          BY <3>1, <4>1 DEF InodeTold
      <3> QED
        BY <1>0, <1>2, <2>11, <3>1 DEF OpenReturns
    <2> QED
      BY <1>3, <2>1, <2>2, <2>3, <2>4, <2>5, <2>6, <2>7, <2>8, <2>9, <2>10,
         <2>11 DEF SystemCall
  <1>4. ASSUME NEW c \in CPUs, NEW p \in Procs, Schedule(c, p)
        PROVE  InodeTold'
    <2>1. /\ state' = [state EXCEPT ![p] = "RUNNING"] /\ chan' = [chan EXCEPT ![p] = None]
          /\ UNCHANGED inode
      BY <1>4 DEF Schedule
    <2> QED
      BY <1>0, <1>1, <2>1 DEF TypeOK
  <1>5. ASSUME NEW c \in CPUs, Timer(c) \/ SendSignalToAll(c)
        PROVE  InodeTold'
    <2>1. PICK states, kills, susp, clock :
            HandlerSpares(states, kills) /\ TrapEnds(c, states, susp, kills, clock)
      BY <1>5, HandlersSpare
    <2>2. \A q \in Procs : state'[q] # state[q] => state'[q] \in {"RUNNABLE", "SUSPENDED"}
      BY <2>1, TrapEndsEffect
    <2>3. UNCHANGED <<chan, inode>>
      BY <1>5, HandlersSpare
    <2> QED
      BY <1>1, <2>2, <2>3
  <1>6. CASE (\E ch \in {Console, Disk} : Wakeup(ch)) \/ UNCHANGED vars
    BY <1>1, <1>6 DEF Wakeup, Woken, tableVars, vars
  <1> QED
    BY <1>3, <1>4, <1>5, <1>6 DEF Next

\* custom_fork() sets start_later before the state, and nothing clears it
\* between the two.
DelayedInv ==
  /\ \A p \in Procs : pc[p] \in {"set_exec_time", "set_state"} /\ delay[p] = "later" =>
       startLater[child[p]]
  /\ \A p \in Procs : pc[p] \in Forking => state[child[p]] # "WAITING_TO_START"
  /\ DelayedCanStart

\* Every step keeps the processes that wait to be started known as such.
LEMMA DelayedStep ==
  ASSUME FamilyInv, FamilyInv', OneCpuEach, DelayedInv, [Next]_vars
  PROVE  DelayedInv'
  <1>0. /\ TypeOK /\ None \notin Procs
        /\ \A p \in Procs : pc[p] \in Forking =>
             child[p] \in Procs /\ \A r \in Procs : child[r] = child[p] => r = p
    BY SlotFacts DEF FamilyInv, ForkHoldsChild, TypeOK
  <1>1. ASSUME UNCHANGED <<startLater, delay>>,
               \A q \in Procs : state'[q] # state[q] => state'[q] # "WAITING_TO_START",
               \A p \in Procs : pc'[p] \in Forking =>
                 /\ pc[p] \in Forking /\ child'[p] = child[p]
                 /\ pc'[p] \in {"set_exec_time", "set_state"} =>
                      pc[p] \in {"set_exec_time", "set_state"}
        PROVE  DelayedInv'
    <2>1. \A p \in Procs : pc'[p] \in {"set_exec_time", "set_state"} /\ delay'[p] = "later" =>
            startLater'[child'[p]]
      BY <1>1 DEF DelayedInv, Forking
    <2>2. \A p \in Procs : pc'[p] \in Forking => state'[child'[p]] # "WAITING_TO_START"
      BY <1>0, <1>1 DEF DelayedInv
    <2>3. DelayedCanStart'
      BY <1>1 DEF DelayedInv, DelayedCanStart
    <2> QED
      BY <2>1, <2>2, <2>3 DEF DelayedInv
  <1>2. ASSUME NEW c \in CPUs, NEW p \in Procs, NEW ch, NEW k \in Places \ Forking,
               Sleep(c, p, ch, k), UNCHANGED <<startLater, delay, child>>
        PROVE  DelayedInv'
    <2>1. state' = [state EXCEPT ![p] = "SLEEPING"] /\ pc' = [pc EXCEPT ![p] = k]
      BY <1>2 DEF Sleep, Sched
    <2> QED
      BY <1>0, <1>1, <1>2, <2>1 DEF TypeOK
  <1>3. ASSUME NEW p \in Procs, NEW k \in Places \ Forking, pc' = [pc EXCEPT ![p] = k],
               UNCHANGED <<startLater, delay, child>>,
               \A q \in Procs : state'[q] # state[q] => state'[q] # "WAITING_TO_START"
        PROVE  DelayedInv'
    BY <1>0, <1>1, <1>3 DEF TypeOK
  <1>4. ASSUME NEW c \in CPUs, NEW p \in Procs, SystemCall(c, p)
        PROVE  DelayedInv'
    <2>1. CASE EnterKernel(c, p)
      BY <1>3, <2>1 DEF EnterKernel, tableVars, Places, Forking
    <2>2. CASE Fork(c, p)
      <3>1. PICK q \in Procs :
              /\ state[q] = "UNUSED"
              /\ state' = [state EXCEPT ![q] = "EMBRYO"]
              /\ child' = [child EXCEPT ![p] = q]
              /\ pc' = [pc EXCEPT ![p] = "copy", ![q] = "user"]
        BY <2>2 DEF Fork
      <3>2. UNCHANGED startLater /\ \A r \in Procs : r # p => delay'[r] = delay[r]
        BY <1>0, <2>2 DEF Fork, TypeOK
      <3>3. /\ \A r \in Procs : state'[r] # state[r] => state'[r] # "WAITING_TO_START"
            /\ state'[q] = "EMBRYO"
            /\ \A r \in Procs : pc'[r] \in Forking =>
                 IF r = p THEN child'[r] = q /\ pc'[r] = "copy"
                 ELSE child'[r] = child[r] /\ pc'[r] = pc[r]
        BY <1>0, <3>1 DEF TypeOK, Forking
      <3>4. \A r \in Procs : pc'[r] \in {"set_exec_time", "set_state"} /\ delay'[r] = "later" =>
              startLater'[child'[r]]
        BY <3>2, <3>3 DEF DelayedInv, Forking
      <3>5. \A r \in Procs : pc'[r] \in Forking => state'[child'[r]] # "WAITING_TO_START"
        BY <1>0, <3>3 DEF DelayedInv
      <3>6. DelayedCanStart'
        BY <3>2, <3>3 DEF DelayedInv, DelayedCanStart
      <3> QED
        BY <3>4, <3>5, <3>6 DEF DelayedInv
    <2>3. CASE CopyProcess(c, p)
      BY <1>0, <1>1, <2>3 DEF CopyProcess, TypeOK, Forking
    <2>4. CASE ForkReturns(c, p)
      <3>1. /\ UNCHANGED <<startLater, delay>>
            /\ state' = [state EXCEPT ![child[p]] = "RUNNABLE"]
            /\ \/ child' = [child EXCEPT ![p] = None] /\ Return(p, killed)
               \/ child' = child /\ pc' = [pc EXCEPT ![p] = "custom_fork"]
            /\ pc[p] = "fork"
        BY <2>4 DEF ForkReturns
      <3>2. \A q \in Procs : state'[q] # state[q] => state'[q] # "WAITING_TO_START"
        BY <1>0, <3>1 DEF TypeOK
      <3>3. \A r \in Procs : pc'[r] \in Forking =>
              /\ pc[r] \in Forking /\ child'[r] = child[r]
              /\ pc'[r] \in {"set_exec_time", "set_state"} =>
                   pc[r] \in {"set_exec_time", "set_state"}
        BY <1>0, <3>1 DEF Return, TypeOK, Forking
      <3> QED
        BY <1>1, <3>1, <3>2, <3>3
    <2>5. CASE FindChild(c, p)
      <3>1. /\ pc[p] = "custom_fork" /\ pc' = [pc EXCEPT ![p] = "set_start_later"]
            /\ UNCHANGED <<state, startLater, delay, child>>
        BY <1>0, <2>5 DEF FindChild, Forking, tableVars
      <3> QED
        BY <1>0, <1>1, <3>1 DEF TypeOK, Forking
    <2>6. CASE SetStartLater(c, p)
      <3> DEFINE q == child[p]
      <3>1. /\ pc[p] = "set_start_later" /\ pc' = [pc EXCEPT ![p] = "set_exec_time"]
            /\ startLater' = [startLater EXCEPT ![q] = delay[p] = "later"]
            /\ UNCHANGED <<state, delay, child>>
        BY <2>6 DEF SetStartLater
      <3>2. /\ q \in Procs /\ state[q] # "WAITING_TO_START"
            /\ \A r \in Procs : child[r] = q => r = p
        BY <1>0, <3>1 DEF DelayedInv, Forking
      <3> HIDE DEF q
      <3>3. /\ \A r \in Procs : startLater'[r] = IF r = q THEN delay[p] = "later" ELSE startLater[r]
            /\ \A r \in Procs : pc'[r] = IF r = p THEN "set_exec_time" ELSE pc[r]
        BY <1>0, <3>1, <3>2 DEF TypeOK
      <3>4. ASSUME NEW r \in Procs, pc'[r] \in {"set_exec_time", "set_state"},
                   delay'[r] = "later"
            PROVE  startLater'[child'[r]]
        <4>1. CASE r = p
          BY <3>1, <3>2, <3>3, <3>4, <4>1 DEF q
        <4>2. CASE r # p
          <5>1. child[r] # q /\ pc[r] = pc'[r] /\ child[r] \in Procs
            BY <1>0, <3>2, <3>3, <3>4, <4>2 DEF Forking
          <5> QED
            BY <3>1, <3>3, <3>4, <5>1 DEF DelayedInv
        <4> QED
          BY <4>1, <4>2
      <3>5. \A r \in Procs : pc'[r] \in Forking => state'[child'[r]] # "WAITING_TO_START"
        BY <3>1, <3>3 DEF DelayedInv, Forking
      <3>6. DelayedCanStart'
        BY <3>1, <3>2, <3>3 DEF DelayedInv, DelayedCanStart
      <3> QED
        BY <3>4, <3>5, <3>6 DEF DelayedInv
    <2>7. CASE SetExecTime(c, p)
      BY <1>0, <1>1, <2>7 DEF SetExecTime, TypeOK, Forking
    <2>8. CASE SetState(c, p)
      <3> DEFINE q == child[p]
      <3>1. /\ pc[p] = "set_state" /\ Return(p, killed) /\ UNCHANGED startLater
            /\ state' = [state EXCEPT ![q] =
                 IF delay[p] = "later" THEN "WAITING_TO_START" ELSE "RUNNABLE"]
            /\ child' = [child EXCEPT ![p] = None]
            /\ delay' = [delay EXCEPT ![p] = "none"]
        BY <2>8 DEF SetState
      <3>2. /\ q \in Procs /\ (delay[p] = "later" => startLater[q])
            /\ \A r \in Procs : child[r] = q => r = p
        BY <1>0, <3>1 DEF DelayedInv, Forking
      <3> HIDE DEF q
      <3>3. /\ \A r \in Procs : pc'[r] \in Forking => r # p /\ pc'[r] = pc[r]
            /\ \A r \in Procs : r # p => child'[r] = child[r] /\ delay'[r] = delay[r]
            /\ \A r \in Procs : r # q => state'[r] = state[r]
            /\ state'[q] = "WAITING_TO_START" => delay[p] = "later"
        BY <1>0, <3>1, <3>2 DEF Return, TypeOK, Forking
      <3>4. \A r \in Procs : pc'[r] \in {"set_exec_time", "set_state"} /\ delay'[r] = "later" =>
              startLater'[child'[r]]
        BY <3>1, <3>3 DEF DelayedInv, Forking
      <3>5. \A r \in Procs : pc'[r] \in Forking => state'[child'[r]] # "WAITING_TO_START"
        BY <1>0, <3>2, <3>3 DEF DelayedInv
      <3>6. DelayedCanStart'
        BY <3>1, <3>2, <3>3 DEF DelayedInv, DelayedCanStart
      <3> QED
        BY <3>4, <3>5, <3>6 DEF DelayedInv
    <2>9. CASE SchedulerStart(c, p)
      <3>1. /\ UNCHANGED <<pc, child, delay>>
            /\ \A q \in Procs :
                 IF startLater[q] /\ state[q] = "WAITING_TO_START"
                 THEN state'[q] = "RUNNABLE"
                 ELSE state'[q] = state[q] /\ startLater'[q] = startLater[q]
        BY <1>0, <2>9 DEF SchedulerStart, TypeOK
      <3>2. \A r \in Procs : pc[r] \in Forking =>
              state'[child[r]] # "WAITING_TO_START"
                /\ startLater'[child[r]] = startLater[child[r]]
        BY <1>0, <3>1 DEF DelayedInv
      <3> QED
        BY <3>1, <3>2 DEF DelayedInv, DelayedCanStart, Forking
    <2>10. CASE KillSome(c, p)
      <3>1. PICK q \in Users :
              /\ state' = [state EXCEPT ![q] = IF @ = "SLEEPING" THEN "RUNNABLE" ELSE @]
              /\ pc' = [pc EXCEPT ![p] = IF killed'[p] THEN "exit" ELSE "user"]
        BY <2>10 DEF KillSome, Return
      <3>2. UNCHANGED <<startLater, delay, child>>
        BY <2>10 DEF KillSome, tableVars
      <3>3. PICK k \in {"exit", "user"} : pc' = [pc EXCEPT ![p] = k]
        BY <3>1
      <3>4. \A r \in Procs : state'[r] # state[r] => state'[r] # "WAITING_TO_START"
        BY <1>0, <3>1 DEF TypeOK
      <3> QED
        BY <1>3, <3>2, <3>3, <3>4 DEF Places, Forking
    <2>11. CASE Exit(c, p)
      <3> DEFINE once == Woken(parent[p], state)
                 twice == Woken(init, once)
                 orphaned == \E q \in {r \in Procs : parent[r] = p} : state[q] = "ZOMBIE"
                 left == [(IF orphaned THEN twice ELSE once) EXCEPT ![p] = "ZOMBIE"]
      <3>1. state' = left /\ pc' = [pc EXCEPT ![p] = "dead"]
            /\ UNCHANGED <<startLater, delay, child>>
        BY <2>11 DEF Exit, Sched
      <3>2. \A q \in Procs : left[q] # state[q] => left[q] # "WAITING_TO_START"
        BY DEF Woken
      <3> HIDE DEF left
      <3> QED
        BY <1>3, <3>1, <3>2 DEF Places, Forking
    <2>12. CASE WaitReaps(c, p)
      <3>1. PICK q \in Procs :
              /\ state' = [state EXCEPT ![q] = "UNUSED"]
              /\ child' = [r \in Procs |->
                   IF child[r] = q /\ pc[r] = "custom_fork" THEN None ELSE child[r]]
        BY <2>12 DEF WaitReaps, DeadChildren, ChildrenOf
      <3>2. /\ UNCHANGED <<startLater, delay>>
            /\ UNCHANGED pc \/ Return(p, killed)
        BY <2>12 DEF WaitReaps
      <3>3. \A r \in Procs : pc'[r] \in Forking => pc[r] = pc'[r]
        BY <1>0, <3>2 DEF Return, TypeOK, Forking
      <3>4. \A r \in Procs : pc'[r] \in Forking => child'[r] = child[r]
        BY <1>0, <3>1 DEF FamilyInv, ForkHoldsChild
      <3>5. \A r \in Procs : state'[r] # state[r] => state'[r] # "WAITING_TO_START"
        BY <1>0, <3>1 DEF TypeOK
      <3> QED
        BY <1>1, <3>2, <3>3, <3>4, <3>5
    <2>13. CASE WaitFails(c, p)
      <3>1. UNCHANGED <<state, startLater, delay, child>>
        BY <2>13 DEF WaitFails, tableVars
      <3>2. PICK k \in {"exit", "user"} : pc' = [pc EXCEPT ![p] = k]
        BY <2>13 DEF WaitFails, Return
      <3> QED
        BY <1>3, <3>1, <3>2 DEF Places, Forking
    <2>14. CASE WaitSleeps(c, p)
      BY <1>2, <2>14 DEF WaitSleeps, tableVars, Places, Forking
    <2>15. CASE Read(c, p)
      <3>1. CASE Return(p, killed) /\ UNCHANGED state
        BY <1>3, <2>15, <3>1 DEF Read, Return, tableVars, Places, Forking
      <3> QED
        BY <1>2, <2>15, <3>1 DEF Read, tableVars, Places, Forking
    <2>16. CASE Open(c, p)
      BY <1>2, <2>16 DEF Open, Places, Forking
    <2>17. CASE OpenReturns(c, p)
      <3>1. CASE ReleaseInode /\ Return(p, killed)
        BY <1>3, <2>17, <3>1 DEF OpenReturns, ReleaseInode, Woken, Return, Places, Forking
      <3> QED
        BY <1>2, <2>17, <3>1 DEF OpenReturns, Places, Forking
    <2> QED
      BY <1>4, <2>1, <2>2, <2>3, <2>4, <2>5, <2>6, <2>7, <2>8, <2>9, <2>10,
         <2>11, <2>12, <2>13, <2>14, <2>15, <2>16, <2>17 DEF SystemCall
  <1>5. ASSUME NEW c \in CPUs, NEW p \in Procs, Schedule(c, p)
        PROVE  DelayedInv'
    <2>1. /\ state' = [state EXCEPT ![p] = "RUNNING"]
          /\ UNCHANGED <<startLater, delay, child>>
          /\ pc' = pc \/ pc' = [pc EXCEPT ![p] = "exit"]
      BY <1>5 DEF Schedule
    <2> QED
      BY <1>0, <1>1, <2>1 DEF TypeOK, Forking
  <1>6. ASSUME NEW c \in CPUs, Timer(c) \/ SendSignalToAll(c)
        PROVE  DelayedInv'
    <2>1. PICK states, kills, susp, clock :
            HandlerSpares(states, kills) /\ TrapEnds(c, states, susp, kills, clock)
      BY <1>6, HandlersSpare
    <2>2. /\ \A q \in Procs : state'[q] # state[q] => state'[q] \in {"RUNNABLE", "SUSPENDED"}
          /\ \A q \in Procs : pc'[q] # pc[q] => pc'[q] = "exit"
      BY <2>1, TrapEndsEffect
    <2>3. UNCHANGED <<startLater, delay, child>>
      BY <1>6, HandlersSpare
    <2> QED
      BY <1>1, <2>2, <2>3 DEF Forking
  <1>7. CASE (\E ch \in {Console, Disk} : Wakeup(ch)) \/ UNCHANGED vars
    BY <1>1, <1>7 DEF Wakeup, Woken, tableVars, vars
  <1> QED
    BY <1>4, <1>5, <1>6, <1>7 DEF Next

-----------------------------------------------------------------------------
(* Theorems *)

\* No process is on a CPU that another CPU's custom_fork() or control key can
\* change: no key and one CPU, or no key and no custom_fork().
Serial == Signals = {} /\ (OneCpu \/ ~CustomFork)

\* No process can get onto two CPUs.
Exclusive == OneCpu \/ (Signals = {} /\ ~CustomFork)

\* Ctrl-B cannot give the child of a custom_fork() to init.
NotBoth == "SIGBG" \notin Signals \/ ~CustomFork

KernelInv ==
  /\ FamilyInv /\ CpuInv /\ NoneSuspended
  /\ ~CustomFork => NoCustomFork

\* In such a kernel the invariants about families and CPUs hold together.
LEMMA KernelInvariant ==
  ASSUME Serial
  PROVE  Spec => []KernelInv
  <1>1. Init => KernelInv
    BY FamilyInit, SlotFacts DEF Init, KernelInv, CpuInv, RunningIffOnCpu,
       OneCpuEach, NoneSuspended, NoCustomFork, Forking
  <1>2. KernelInv /\ TypeOK' /\ [Next]_vars => KernelInv'
    BY FamilyStep, CpuStep, NoneSuspendedStep, NoCustomForkStep
       DEF KernelInv, CpuInv, FamilyInv, Serial, HoldsOwnChild
  <1> QED
    BY <1>1, <1>2, TypeCorrect, PTL DEF Spec

\* No process is on two CPUs if there is only one, or if no control key is
\* pressed and custom_fork() is not called: fork(), kill(), sleep(), wakeup(),
\* exit(), wait() and the scheduler alone never let it happen.
THEOREM NeverOnTwoCpus ==
  ASSUME Exclusive
  PROVE  Spec => []OneCpuEach
  <1>1. CASE OneCpu
    <2>1. TypeOK => OneCpuEach
      BY <1>1 DEF OneCpu, OneCpuEach
    <2> QED
      BY <2>1, TypeCorrect, PTL
  <1>2. CASE Signals = {} /\ ~CustomFork
    <2>1. Spec => []KernelInv
      BY <1>2, KernelInvariant DEF Serial
    <2>2. KernelInv => OneCpuEach
      BY DEF KernelInv, CpuInv
    <2> QED
      BY <2>1, <2>2, PTL
  <1> QED
    BY <1>1, <1>2 DEF Exclusive

\* Families hold for as long as no process is on two CPUs, unless both Ctrl-B
\* and custom_fork() are used.
LEMMA FamilyInvariant ==
  ASSUME NotBoth
  PROVE  Spec /\ []OneCpuEach => []FamilyInv
  <1>1. CASE "SIGBG" \notin Signals
    <2>1. FamilyInv /\ OneCpuEach /\ TypeOK' /\ [Next]_vars => FamilyInv'
      BY <1>1, FamilyStep DEF HoldsOwnChild
    <2> QED
      BY <2>1, FamilyInit, TypeCorrect, PTL DEF Spec
  <1>2. CASE ~CustomFork
    <2>1. Init => NoCustomFork
      BY DEF Init, NoCustomFork, Forking
    <2>2. NoCustomFork /\ TypeOK /\ [Next]_vars => NoCustomFork'
      BY <1>2, NoCustomForkStep
    <2>3. FamilyInv /\ OneCpuEach /\ NoCustomFork /\ TypeOK' /\ [Next]_vars => FamilyInv'
      BY FamilyStep DEF HoldsOwnChild
    <2> QED
      BY <2>1, <2>2, <2>3, FamilyInit, TypeCorrect, PTL DEF Spec
  <1> QED
    BY <1>1, <1>2 DEF NotBoth

\* As long as no process is on two CPUs, and unless both Ctrl-B and
\* custom_fork() are used: from the end of its fork() on, every process but
\* init has a living parent that can wait for it.
THEOREM ParentsStayAlive ==
  ASSUME NotBoth
  PROVE  Spec /\ []OneCpuEach => []ParentsAlive
  BY FamilyInvariant, PTL DEF FamilyInv

\* So it is wherever no process can get onto two CPUs.
COROLLARY ParentsAreAlive ==
  ASSUME Exclusive, NotBoth
  PROVE  Spec => []ParentsAlive
  BY ParentsStayAlive, NeverOnTwoCpus, PTL

\* Without control keys, and with custom_fork() on one CPU only, the processes
\* that are RUNNING are those on a CPU, each on exactly one.
THEOREM RunningCorrect ==
  ASSUME Serial
  PROVE  Spec => []RunningOnOneCpu
  <1>1. KernelInv => RunningOnOneCpu
    <2> SUFFICES ASSUME KernelInv, NEW p \in Procs
                 PROVE  Cardinality({c \in CPUs : running[c] = p}) =
                          IF state[p] = "RUNNING" THEN 1 ELSE 0
      BY DEF RunningOnOneCpu
    <2> DEFINE mine == {c \in CPUs : running[c] = p}
    <2>1. CASE state[p] = "RUNNING"
      <3>1. PICK c \in CPUs : running[c] = p
        BY <2>1 DEF KernelInv, CpuInv, RunningIffOnCpu
      <3>2. mine = {c}
        BY <3>1, SlotFacts DEF KernelInv, CpuInv, OneCpuEach
      <3> QED
        BY <2>1, <3>2, FS_Singleton
    <2>2. CASE state[p] # "RUNNING"
      <3>1. mine = {}
        BY <2>2 DEF KernelInv, CpuInv, RunningIffOnCpu
      <3> QED
        BY <2>2, <3>1, FS_EmptySet
    <2> QED
      BY <2>1, <2>2
  <1> QED
    BY <1>1, KernelInvariant, PTL

\* Programs that do not call custom_fork() never see a process that has exited
\* run again, whatever the control keys do, as long as none is on two CPUs.
THEOREM TheDeadStayDead ==
  ASSUME ~CustomFork
  PROVE  Spec /\ []OneCpuEach => []DeadStaysDead
  <1>1. Init => NoCustomFork /\ DeadStaysDead
    BY DEF Init, NoCustomFork, DeadStaysDead, Forking
  <1>2. NoCustomFork /\ TypeOK /\ [Next]_vars => NoCustomFork'
    BY NoCustomForkStep
  <1>3. FamilyInv /\ OneCpuEach /\ NoCustomFork /\ DeadStaysDead /\ [Next]_vars
          => DeadStaysDead'
    BY DeadStep
  <1>4. Spec /\ []OneCpuEach => []FamilyInv
    BY FamilyInvariant DEF NotBoth
  <1> QED
    BY <1>1, <1>2, <1>3, <1>4, TypeCorrect, PTL DEF Spec

\* So it is wherever no process can get onto two CPUs.
COROLLARY TheDeadAreDead ==
  ASSUME Exclusive, ~CustomFork
  PROVE  Spec => []DeadStaysDead
  BY TheDeadStayDead, NeverOnTwoCpus, PTL

\* Without Ctrl-B, and as long as no process is on two CPUs, nobody sleeps in
\* wait() with a dead child or with none, or for an inode's lock that is free:
\* exit() wakes the parent, and init when it is given dead children,
\* releasesleep() wakes every sleeper, and no interrupt gets between a look at
\* what is waited for and the sleep.
THEOREM WakeupsAreNotLost ==
  ASSUME "SIGBG" \notin Signals
  PROVE  Spec /\ []OneCpuEach => []NoLostWakeup
  <1>1. Init => NoneSuspended /\ WaitersTold /\ NoOwnParent /\ InodeTold
    BY SlotFacts DEF Init, NoneSuspended, WaitersTold, NoOwnParent, InodeTold,
       DeadChildren, ChildrenOf, init, shell
  <1>2. NoneSuspended /\ TypeOK /\ [Next]_vars => NoneSuspended'
    BY NoneSuspendedStep
  <1>3. /\ FamilyInv /\ OneCpuEach /\ NoneSuspended /\ WaitersTold /\ NoOwnParent
        /\ [Next]_vars
        => WaitersTold' /\ NoOwnParent'
    BY WakeupStep
  <1>4. FamilyInv /\ OneCpuEach /\ NoneSuspended /\ InodeTold /\ [Next]_vars => InodeTold'
    BY InodeStep
  <1>5. Spec /\ []OneCpuEach => []FamilyInv
    BY FamilyInvariant DEF NotBoth
  <1>6. WaitersTold /\ InodeTold => NoLostWakeup
    BY DEF WaitersTold, InodeTold, NoLostWakeup
  <1> QED
    BY <1>1, <1>2, <1>3, <1>4, <1>5, <1>6, TypeCorrect, PTL DEF Spec

\* So it is wherever no process can get onto two CPUs.
COROLLARY NoWakeupIsLost ==
  ASSUME Exclusive, "SIGBG" \notin Signals
  PROVE  Spec => []NoLostWakeup
  BY WakeupsAreNotLost, NeverOnTwoCpus, PTL

\* Without Ctrl-B, and as long as no process is on two CPUs, scheduler_start()
\* finds every process that waits to be started: the three writes that
\* custom_fork() makes without a lock come in the order that this needs.
THEOREM DelayedChildrenCanStart ==
  ASSUME "SIGBG" \notin Signals
  PROVE  Spec /\ []OneCpuEach => []DelayedCanStart
  <1>1. Init => DelayedInv
    BY DEF Init, DelayedInv, DelayedCanStart, Forking
  <1>2. FamilyInv /\ FamilyInv' /\ OneCpuEach /\ DelayedInv /\ [Next]_vars => DelayedInv'
    BY DelayedStep
  <1>3. Spec /\ []OneCpuEach => []FamilyInv
    BY FamilyInvariant DEF NotBoth
  <1>4. DelayedInv => DelayedCanStart
    BY DEF DelayedInv
  <1> QED
    BY <1>1, <1>2, <1>3, <1>4, PTL DEF Spec

\* So it is wherever no process can get onto two CPUs.
COROLLARY DelayedAreFound ==
  ASSUME Exclusive, "SIGBG" \notin Signals
  PROVE  Spec => []DelayedCanStart
  BY DelayedChildrenCanStart, NeverOnTwoCpus, PTL

=============================================================================

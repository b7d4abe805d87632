-------------------------- MODULE SwapContentProofs -------------------------
(***************************************************************************)
(* What SwapArea promises a program: its types, the owners of the swap     *)
(* slots, what rss counts, and what the pages hold.                        *)
(***************************************************************************)
EXTENDS SwapFramesProofs

-----------------------------------------------------------------------------
(* The invariants *)

Contents == Values \cup {Junk}

\* Frames and slots hold what programs store, zeroes, or junk.
DataInv ==
  /\ data \in [Frames -> Contents]
  /\ disk \in [Slots -> Contents]

\* A slot in use is named by one entry, and by none while it is written.
SlotInv ==
  ~overrun =>
    /\ \A p, q \in Procs : \A v, w \in Pages :
         pgdir[p][v].at = "swap" =>
           /\ pgdir[p][v].n \in usedSlots
           /\ pgdir[q][w].at = "swap" /\ pgdir[q][w].n = pgdir[p][v].n =>
                p = q /\ v = w
    /\ \A p, q \in Procs : \A v \in Pages :
         kernel[p].pc = "writing" /\ pgdir[q][v].at = "swap" =>
           pgdir[q][v].n # kernel[p].slot

-----------------------------------------------------------------------------
(* What frames and slots hold *)

\* Every step stores values of the right kind.
LEMMA DataKept ==
  ASSUME ShapeInv, DataInv, [Next]_vars
  PROVE  DataInv'
  <1>1. Junk \in Contents /\ 0 \in Contents /\ Values \subseteq Contents
    BY SwapAssumption DEF Contents
  <1>2. ASSUME UNCHANGED <<data, disk>> PROVE DataInv'
    BY <1>2 DEF DataInv
  <1>3. ASSUME UNCHANGED disk, NEW fs, data' = Junked(fs) PROVE DataInv'
    BY <1>1, <1>3 DEF DataInv, Junked
  <1>4. ASSUME UNCHANGED disk, NEW f, NEW x \in Contents, data' = [data EXCEPT ![f] = x]
        PROVE  DataInv'
    BY <1>4 DEF DataInv
  <1>5. CASE UNCHANGED vars
    BY <1>2, <1>5 DEF vars
  <1>6. ASSUME NEW p \in Procs,
               \/ KallocTakes(p) \/ KallocFindsNone(p) \/ SwapIn(p) \/ CopyLooks(p)
               \/ ForkKernelPage(p) \/ Fork(p) \/ Exec(p) \/ Exit(p)
               \/ \E n \in 1 .. MaxPages : Sbrk(p, n)
               \/ \E v \in Pages : Fault(p, v)
        PROVE  DataInv'
    <2>1. UNCHANGED <<data, disk>>
      BY <1>6 DEF KallocTakes, KallocFindsNone, SwapIn, CopyLooks, ForkKernelPage,
                  Fork, Exec, Exit, Sbrk, Fault, Panic, memory, swap
    <2> QED
      BY <1>2, <2>1
  <1>7. ASSUME NEW p \in Procs, SwapOut(p) PROVE DataInv'
    <2>1. CASE NoVictim
      BY <1>2, <1>7, <2>1 DEF SwapOut, Panic, memory, swap
    <2>2. CASE ~NoVictim
      <3> DEFINE q == VictimProcess
                 v == VictimPage(pgdir[q])
      <3>1. pgdir[q][v].n \in Frames /\ SwapAlloc \in Slots
        BY <2>2, VictimFacts, FramesOfFacts DEF ShapeInv, KernelInv
      <3>2. disk' = [disk EXCEPT ![SwapAlloc] = data[pgdir[q][v].n]] /\ data' = data
        BY <1>7, <2>2 DEF SwapOut, memory
      <3> QED
        BY <3>1, <3>2 DEF DataInv
    <2> QED
      BY <2>1, <2>2
  <1>8. ASSUME NEW p \in Procs,
               SwapOutDone(p) \/ Wait(p) \/ \E n \in 1 .. MaxPages : Shrink(p, n)
        PROVE  DataInv'
    <2>1. disk' = disk /\ \E fs : data' = Junked(fs)
      BY <1>8 DEF SwapOutDone, Wait, Shrink, swap
    <2> QED
      BY <1>3, <2>1
  <1>9. ASSUME NEW p \in Procs, ExecDone(p) PROVE DataInv'
    <2>1. disk' = disk /\ \E fs : \E f : data' = [Junked(fs) EXCEPT ![f] = 0]
      BY <1>9 DEF ExecDone, swap
    <2> QED
      BY <1>1, <2>1 DEF DataInv, Junked
  <1>10. ASSUME NEW p \in Procs,
                SbrkPage(p) \/ SwapRead(p) \/ ExecPage(p) \/ CopyPage(p)
         PROVE  DataInv'
    <2> DEFINE k == kernel[p]
    <2>1. CallShape(p) /\ pgdir[p] \in Tables /\ sz[p] \in 0 .. MaxPages /\ KernelShape(k)
          /\ k \in KernelTypes
      BY DEF ShapeInv, KernelInv, TableInv
    <2>2. CASE SbrkPage(p) \/ ExecPage(p)
      BY <1>1, <1>4, <2>2 DEF SbrkPage, ExecPage, swap
    <2>3. CASE SwapRead(p)
      <3>1. k.page \in Pages /\ pgdir[p][k.page].at = "swap"
        BY <2>1, <2>3, SwapAssumption DEF SwapRead, CallShape, Pages
      <3>2. pgdir[p][k.page].n \in Slots
        BY <2>1, <3>1, EntryFacts DEF Tables
      <3> QED
        BY <1>4, <2>3, <3>2 DEF SwapRead, swap, DataInv
    <2>4. CASE CopyPage(p)
      <3>1. k.source.at = "ram" /\ k.source \in Entries
        BY <2>1, <2>4 DEF CopyPage, At, CallShape, KernelTypes
      <3>2. k.source.n \in Frames
        BY <3>1, EntryFacts
      <3> QED
        BY <1>4, <2>4, <3>2 DEF CopyPage, swap, DataInv
    <2> QED
      BY <1>10, <2>2, <2>3, <2>4
  <1>11. ASSUME NEW p \in Procs, \E v \in Pages : \E x \in Values : Touch(p, v, x)
         PROVE  DataInv'
    BY <1>1, <1>4, <1>11 DEF Touch, swap
  <1>12. CASE Next
    <2>1. PICK p \in Procs : Kernel(p) \/ User(p)
      BY <1>12 DEF Next
    <2> QED
      BY <1>6, <1>7, <1>8, <1>9, <1>10, <1>11, <2>1 DEF Kernel, User
  <1> QED
    BY <1>5, <1>12

\* Every variable keeps its type, Th and Npg their range, in every shortage.
THEOREM TypeCorrect == Spec => []TypeOK
  <1>1. Init => DataInv
    BY SwapAssumption DEF Init, DataInv, Contents
  <1>2. ShapeInv /\ DataInv /\ [Next]_vars => DataInv'
    BY DataKept
  <1>3. ASSUME ShapeInv, FrameInv, DataInv PROVE TypeOK
    <2>1. \A p \in Procs : FramesOf(pgdir[p]) \subseteq Frames
      BY <1>3, FramesOfFacts DEF ShapeInv, KernelInv
    <2> QED
      BY <1>3, <2>1 DEF TypeOK, ShapeInv, KernelInv, StackInv, TableInv, FrameInv,
                        DataInv, Contents
  <1> QED
    BY <1>1, <1>2, <1>3, FramesHold, PTL DEF Spec

-----------------------------------------------------------------------------
(* The slots of the swap area *)

\* The slot an entry names, or -1.
SlotOf(e) == IF e.at = "swap" THEN e.n ELSE -1

\* A step that names no new slot, keeps those that are named, and writes none.
LEMMA SlotsKept ==
  ASSUME SlotInv, overrun' = overrun,
         \A q \in Procs : \A v \in Pages :
           SlotOf(pgdir'[q][v]) \in {SlotOf(pgdir[q][v]), -1},
         \A q \in Procs : \A v \in Pages :
           pgdir'[q][v].at = "swap" => pgdir'[q][v].n \in Slots,
         ~overrun => \A q \in Procs : \A v \in Pages :
           pgdir'[q][v].at = "swap" /\ pgdir'[q][v].n \in usedSlots =>
             pgdir'[q][v].n \in usedSlots',
         \A q \in Procs : kernel'[q].pc = "writing" =>
           kernel[q].pc = "writing" /\ kernel'[q].slot = kernel[q].slot
  PROVE  SlotInv'
  <1> SUFFICES ASSUME ~overrun PROVE SlotInv'
    BY DEF SlotInv
  <1>1. -1 \notin Slots
    BY Numbers
  <1>2. ASSUME NEW q \in Procs, NEW v \in Pages, pgdir'[q][v].at = "swap"
        PROVE  pgdir[q][v].at = "swap" /\ pgdir[q][v].n = pgdir'[q][v].n
    BY <1>1, <1>2 DEF SlotOf
  <1> QED
    BY <1>2 DEF SlotInv

\* Only one process can be writing.
LEMMA OneWrites ==
  ASSUME ShapeInv, NEW p \in Procs, state[p] = "RUNNABLE", kernel[p].pc # "wait"
  PROVE  \A q \in Procs : q # p => kernel[q].pc # "writing"
  BY Alone DEF ShapeInv

\* swap_out() and its end: the slot is free until the write, and has no entry
\* until its end.
LEMMA SwapOutKeepsSlots ==
  ASSUME ShapeInv, ShapeInv', SlotInv, NEW p \in Procs,
         SwapOut(p) \/ SwapOutDone(p)
  PROVE  SlotInv'
  <1> DEFINE k == kernel[p]
  <1>1. /\ kernel \in [Procs -> KernelTypes] /\ pgdir \in [Procs -> Tables]
        /\ k \in KernelTypes /\ KernelShape(k) /\ CallShape(p)
    BY DEF ShapeInv, KernelInv, TableInv
  <1>2. \A q \in Procs : q # p => kernel[q].pc # "writing"
    <2>1. state[p] = "RUNNABLE" /\ k.pc # "wait"
      BY DEF SwapOut, SwapOutDone, At, Runs
    <2> QED
      BY <2>1, OneWrites
  <1>3. CASE SwapOut(p) /\ NoVictim
    BY <1>3 DEF SwapOut, Panic, swap, procs, history, SlotInv
  <1>4. CASE SwapOut(p) /\ ~NoVictim
    <2> DEFINE q == VictimProcess
               v == VictimPage(pgdir[q])
               s == SwapAlloc
    <2>1. /\ pgdir' = [pgdir EXCEPT ![q] = Aged(pgdir[q])]
          /\ usedSlots' = usedSlots \cup {s}
          /\ overrun' = (overrun \/ usedSlots = Slots)
          /\ kernel' = [kernel EXCEPT ![p].pc = "writing", ![p].victim = q,
                             ![p].vpage = v, ![p].slot = s]
      BY <1>1, <1>4 DEF SwapOut
    <2>2. /\ q \in Procs /\ s \in Slots /\ (usedSlots # Slots => s \notin usedSlots)
      BY <1>4, VictimFacts DEF ShapeInv
    <2>3. kernel'[p].slot = s /\ \A r \in Procs : r # p => kernel'[r] = kernel[r]
      BY <1>1, <2>1 DEF KernelTypes
    <2> HIDE DEF q, v, s
    <2>4. \A r \in Procs : \A w \in Pages :
            pgdir'[r][w].at = pgdir[r][w].at /\ pgdir'[r][w].n = pgdir[r][w].n
      BY <1>1, <2>1, <2>2, AgedFacts
    <2>5. ~overrun' => ~overrun /\ s \notin usedSlots
      BY <2>1, <2>2
    <2> SUFFICES ASSUME ~overrun' PROVE SlotInv'
      BY DEF SlotInv
    <2>6. ASSUME NEW r \in Procs, NEW w \in Pages, pgdir'[r][w].at = "swap"
          PROVE  /\ pgdir[r][w].at = "swap" /\ pgdir'[r][w].n = pgdir[r][w].n
                 /\ pgdir'[r][w].n \in usedSlots /\ pgdir'[r][w].n # s
      BY <2>4, <2>5, <2>6 DEF SlotInv
    <2>7. ASSUME NEW r \in Procs, kernel'[r].pc = "writing" PROVE kernel'[r].slot = s
      BY <1>2, <2>3, <2>7
    <2>8. ASSUME NEW r \in Procs, NEW w \in Pages, NEW r2 \in Procs, NEW w2 \in Pages,
                 pgdir'[r][w].at = "swap", pgdir'[r2][w2].at = "swap",
                 pgdir'[r2][w2].n = pgdir'[r][w].n
          PROVE  r = r2 /\ w = w2
      BY <2>5, <2>6, <2>8 DEF SlotInv
    <2>9. \A r \in Procs : \A w \in Pages :
            pgdir'[r][w].at = "swap" => pgdir'[r][w].n \in usedSlots'
      BY <2>1, <2>6
    <2>10. \A t, r \in Procs : \A w \in Pages :
             kernel'[t].pc = "writing" /\ pgdir'[r][w].at = "swap" =>
               pgdir'[r][w].n # kernel'[t].slot
      BY <2>6, <2>7
    <2> QED
      BY <2>8, <2>9, <2>10 DEF SlotInv
  <1>5. CASE SwapOutDone(p)
    <2> DEFINE q == k.victim
               v == k.vpage
               s == k.slot
    <2>1. /\ pgdir' = [pgdir EXCEPT ![q][v] = InSwap(s)]
          /\ usedSlots' = usedSlots /\ overrun' = overrun
          /\ k.pc = "writing"
      BY <1>5 DEF SwapOutDone, At, swap, history
    <2>2. q \in Procs /\ v \in Pages /\ s \in usedSlots
      BY <1>1, <2>1 DEF KernelShape, CallShape, WritingShape
    <2>3. kernel'[p].pc # "writing" /\ \A r \in Procs : r # p => kernel'[r] = kernel[r]
      BY <1>1, <1>5, <2>1 DEF SwapOutDone, KernelTypes, KernelShape
    <2>4. \A r \in Procs : \A w \in Pages :
            pgdir'[r][w] = IF r = q /\ w = v THEN InSwap(s) ELSE pgdir[r][w]
      <3> DEFINE e == InSwap(s)
      <3>1. pgdir' = [pgdir EXCEPT ![q][v] = e]
        BY <2>1
      <3> HIDE DEF q, v, s, e
      <3>2. \A r \in Procs : \A w \in Pages :
              pgdir'[r][w] = IF r = q /\ w = v THEN e ELSE pgdir[r][w]
        BY <1>1, <2>2, <3>1 DEF Tables
      <3> QED
        BY <3>2 DEF e
    <2>5. InSwap(s).at = "swap" /\ InSwap(s).n = s
      BY DEF InSwap
    <2>6. ~overrun => \A r \in Procs : \A w \in Pages :
            pgdir[r][w].at = "swap" => pgdir[r][w].n # s
      BY <2>1 DEF SlotInv
    <2> HIDE DEF q, v, s
    <2> SUFFICES ASSUME ~overrun PROVE SlotInv'
      BY <2>1 DEF SlotInv
    <2>7. ASSUME NEW r \in Procs, NEW w \in Pages, pgdir'[r][w].at = "swap"
          PROVE  /\ pgdir'[r][w].n \in usedSlots
                 /\ pgdir'[r][w].n = s => r = q /\ w = v
                 /\ r = q /\ w = v => pgdir'[r][w].n = s
                 /\ ~ (r = q /\ w = v) => pgdir'[r][w] = pgdir[r][w]
      BY <2>2, <2>4, <2>5, <2>6, <2>7 DEF SlotInv
    <2>8. ASSUME NEW r \in Procs, NEW w \in Pages, NEW r2 \in Procs, NEW w2 \in Pages,
                 pgdir'[r][w].at = "swap", pgdir'[r2][w2].at = "swap",
                 pgdir'[r2][w2].n = pgdir'[r][w].n
          PROVE  r = r2 /\ w = w2
      BY <2>7, <2>8 DEF SlotInv
    <2>9. \A r \in Procs : kernel'[r].pc # "writing"
      BY <1>2, <2>3
    <2> QED
      BY <2>1, <2>7, <2>8, <2>9 DEF SlotInv
  <1> QED
    BY <1>3, <1>4, <1>5

\* Only swap_out() starts to write.
LEMMA OthersDoNotWrite ==
  ASSUME ShapeInv, NEW p \in Procs, Kernel(p) \/ User(p), ~SwapOut(p)
  PROVE  \A q \in Procs : kernel'[q].pc = "writing" =>
           kernel[q].pc = "writing" /\ kernel'[q].slot = kernel[q].slot
  <1> DEFINE k == kernel[p]
  <1>1. kernel \in [Procs -> KernelTypes] /\ k \in KernelTypes /\ KernelShape(k)
    BY DEF ShapeInv, KernelInv
  <1>2. Idle.pc = "user"
    BY DEF Idle
  <1>3. CASE kernel' = kernel
    BY <1>3
  <1>4. ASSUME NEW k2, k2.pc # "writing", kernel' = [kernel EXCEPT ![p] = k2]
        PROVE  \A q \in Procs : kernel'[q].pc = "writing" => kernel'[q] = kernel[q]
    BY <1>1, <1>4
  <1>5. \A c : [k EXCEPT !.pc = c].pc = c
    BY <1>1 DEF KernelTypes
  <1>6. CASE KallocTakes(p) \/ KallocFindsNone(p) \/ SwapOutDone(p)
    <2>1. CASE KallocTakes(p)
      <3>1. kernel'[p].pc # "writing" /\ \A q \in Procs : q # p => kernel'[q] = kernel[q]
        BY <1>1, <2>1 DEF KallocTakes, KernelTypes
      <3> QED
        BY <3>1
    <2>2. CASE KallocFindsNone(p) /\ k.pc = "again"
      BY <1>3, <2>2 DEF KallocFindsNone, Panic
    <2>3. CASE KallocFindsNone(p) /\ k.pc # "again"
      <3>1. kernel'[p].pc # "writing" /\ \A q \in Procs : q # p => kernel'[q] = kernel[q]
        BY <1>1, <2>3 DEF KallocFindsNone, KernelTypes
      <3> QED
        BY <3>1
    <2>4. CASE SwapOutDone(p)
      <3>1. kernel'[p].pc # "writing" /\ \A q \in Procs : q # p => kernel'[q] = kernel[q]
        BY <1>1, <2>4 DEF SwapOutDone, At, KernelTypes, KernelShape
      <3> QED
        BY <3>1
    <2> QED
      BY <1>6, <2>1, <2>2, <2>3, <2>4
  <1>7. CASE \/ SbrkPage(p) \/ SwapRead(p) \/ SwapIn(p) \/ ExecPage(p) \/ ExecDone(p)
             \/ ForkKernelPage(p) \/ CopyPage(p) \/ Wait(p)
    <2>1. NextPage(k).pc = "kalloc"
      BY <1>1 DEF NextPage, KernelTypes
    <2>2. \E k2 : k2.pc # "writing" /\ kernel' = [kernel EXCEPT ![p] = k2]
      <3>1. CASE SbrkPage(p)
        BY <1>2, <2>1, <3>1 DEF SbrkPage, Enter, Return
      <3>2. CASE SwapRead(p)
        <4> DEFINE k2 == [k EXCEPT !.pc = "read", !.slot = pgdir[p][k.page].n]
        <4>1. k2.pc = "read" /\ kernel' = [kernel EXCEPT ![p] = k2]
          BY <1>1, <3>2 DEF SwapRead, Enter, KernelTypes
        <4> HIDE DEF k2
        <4> QED
          BY <4>1
      <3>3. CASE SwapIn(p) \/ ExecDone(p) \/ Wait(p)
        BY <1>2, <3>3 DEF SwapIn, ExecDone, Wait, Enter, Return
      <3>4. CASE ExecPage(p)
        <4> DEFINE first == [NextPage(k) EXCEPT !.kpage = k.frame]
                   later == [NextPage(k) EXCEPT !.table[k.page] = InRam(k.frame, FALSE)]
        <4>1. first.pc = "kalloc" /\ later.pc = "kalloc"
          BY <1>1, <2>1 DEF NextPage, KernelTypes
        <4>2. \/ kernel' = [kernel EXCEPT ![p] = first]
              \/ kernel' = [kernel EXCEPT ![p] = later]
          BY <3>4 DEF ExecPage, Enter
        <4> HIDE DEF first, later
        <4> QED
          BY <4>1, <4>2
      <3>5. CASE ForkKernelPage(p)
        <4> DEFINE k2 == [NextPage(k) EXCEPT !.kpage = k.frame, !.pc = "copy"]
        <4>1. k2.pc = "copy" /\ kernel' = [kernel EXCEPT ![p] = k2]
          BY <1>1, <3>5 DEF ForkKernelPage, Enter, NextPage, KernelTypes
        <4> HIDE DEF k2
        <4> QED
          BY <4>1
      <3>6. CASE CopyPage(p)
        <4> DEFINE table == [k.table EXCEPT ![k.page] = InRam(k.frame, k.source.used)]
                   first == [NextPage(k) EXCEPT !.pc = "copy", !.table = table]
                   later == [Idle EXCEPT !.pc = "wait", !.child = k.child]
        <4>1. first.pc = "copy"
          BY <1>1 DEF NextPage, KernelTypes
        <4>2. later.pc = "wait"
          BY DEF Idle
        <4>3. \/ kernel' = [kernel EXCEPT ![p] = first]
              \/ kernel' = [kernel EXCEPT ![p] = later]
          BY <3>6 DEF CopyPage, Enter
        <4> HIDE DEF first, later
        <4> QED
          BY <4>1, <4>2, <4>3
      <3> QED
        BY <1>7, <3>1, <3>2, <3>3, <3>4, <3>5, <3>6
    <2> QED
      BY <1>4, <2>2
  <1>8. CASE CopyLooks(p)
    <2>1. CASE pgdir[p][k.page].at # "ram"
      BY <1>3, <1>8, <2>1 DEF CopyLooks, Panic
    <2>2. CASE pgdir[p][k.page].at = "ram"
      <3> DEFINE k2 == [k EXCEPT !.pc = "kalloc", !.source = pgdir[p][k.page]]
      <3>1. k2.pc = "kalloc" /\ kernel' = [kernel EXCEPT ![p] = k2]
        BY <1>1, <1>8, <2>2 DEF CopyLooks, Enter, KernelTypes
      <3> HIDE DEF k2
      <3> QED
        BY <1>4, <3>1
    <2> QED
      BY <2>1, <2>2
  <1>9. CASE User(p)
    <2>1. ASSUME NEW c, NEW i, NEW j, NEW d
          PROVE  /\ [Idle EXCEPT !.pc = "kalloc", !.call = c, !.page = i].pc = "kalloc"
                 /\ [Idle EXCEPT !.pc = "kalloc", !.call = c, !.page = i,
                                 !.goal = j].pc = "kalloc"
                 /\ [Idle EXCEPT !.pc = "kalloc", !.call = c, !.page = i,
                                 !.child = d].pc = "kalloc"
      BY DEF Idle
    <2>2. ASSUME NEW k2, k2.pc = "kalloc", Enter(p, k2)
          PROVE  \A q \in Procs : kernel'[q].pc = "writing" => kernel'[q] = kernel[q]
      BY <1>4, <2>2 DEF Enter
    <2>3. CASE \E n \in 1 .. MaxPages : Sbrk(p, n)
      <3>1. PICK n \in 1 .. MaxPages : Sbrk(p, n)
        BY <2>3
      <3> DEFINE k2 == [Idle EXCEPT !.pc = "kalloc", !.call = "sbrk", !.page = sz[p],
                                    !.goal = n]
      <3>2. k2.pc = "kalloc" /\ Enter(p, k2)
        BY <2>1, <3>1 DEF Sbrk
      <3> HIDE DEF k2
      <3> QED
        BY <2>2, <3>2
    <2>4. CASE \E v \in Pages : Fault(p, v)
      <3>1. PICK v \in Pages : Fault(p, v)
        BY <2>4
      <3> DEFINE k2 == [Idle EXCEPT !.pc = "kalloc", !.call = "fault", !.page = v]
      <3>2. k2.pc = "kalloc" /\ Enter(p, k2)
        BY <2>1, <3>1 DEF Fault
      <3> HIDE DEF k2
      <3> QED
        BY <2>2, <3>2
    <2>5. CASE Exec(p)
      <3> DEFINE k2 == [Idle EXCEPT !.pc = "kalloc", !.call = "exec", !.page = -1]
      <3>2. k2.pc = "kalloc" /\ Enter(p, k2)
        BY <2>1, <2>5 DEF Exec
      <3> HIDE DEF k2
      <3> QED
        BY <2>2, <3>2
    <2>6. CASE Fork(p)
      <3>1. PICK c \in Procs :
              Enter(p, [Idle EXCEPT !.pc = "kalloc", !.call = "fork",
                                    !.page = -1, !.child = c])
        BY <2>6 DEF Fork
      <3> DEFINE k2 == [Idle EXCEPT !.pc = "kalloc", !.call = "fork", !.page = -1,
                                    !.child = c]
      <3>2. k2.pc = "kalloc" /\ Enter(p, k2)
        BY <2>1, <3>1
      <3> HIDE DEF k2
      <3> QED
        BY <2>2, <3>2
    <2>7. CASE \/ \E n \in 1 .. MaxPages : Shrink(p, n)
               \/ \E v \in Pages : \E x \in Values : Touch(p, v, x)
               \/ Exit(p)
      BY <1>3, <2>7 DEF Shrink, Exit, Touch
    <2> QED
      BY <1>9, <2>3, <2>4, <2>5, <2>6, <2>7 DEF User
  <1> QED
    BY <1>6, <1>7, <1>8, <1>9 DEF Kernel

\* The calls and the program take slots only away.
LEMMA OthersKeepSlots ==
  ASSUME ShapeInv, ShapeInv', SlotInv, NEW p \in Procs, Kernel(p) \/ User(p),
         ~SwapOut(p), ~SwapOutDone(p)
  PROVE  SlotInv'
  <1> DEFINE k == kernel[p]
             Less == \A q \in Procs : \A v \in Pages :
                       SlotOf(pgdir'[q][v]) \in {SlotOf(pgdir[q][v]), -1}
             Named == ~overrun => \A q \in Procs : \A v \in Pages :
                        pgdir'[q][v].at = "swap" /\ pgdir'[q][v].n \in usedSlots =>
                          pgdir'[q][v].n \in usedSlots'
  <1>1. /\ kernel \in [Procs -> KernelTypes] /\ pgdir \in [Procs -> Tables]
        /\ k \in KernelTypes /\ KernelShape(k) /\ CallShape(p) /\ k.table \in Tables
    BY DEF ShapeInv, KernelInv, TableInv, KernelTypes
  <1>2. \A q \in Procs : \A v \in Pages :
          pgdir'[q][v].at = "swap" => pgdir'[q][v].n \in Slots
    BY EntryFacts DEF ShapeInv, KernelInv, Tables
  <1>3. \A q \in Procs : kernel'[q].pc = "writing" =>
          kernel[q].pc = "writing" /\ kernel'[q].slot = kernel[q].slot
    BY OthersDoNotWrite
  <1>4. ASSUME overrun' = overrun, Less, Named PROVE SlotInv'
    BY <1>2, <1>3, <1>4, SlotsKept
  <1>5. ASSUME UNCHANGED <<pgdir, usedSlots, overrun>> PROVE SlotInv'
    BY <1>4, <1>5
  <1>6. ASSUME UNCHANGED <<usedSlots, overrun>>, Less PROVE SlotInv'
    BY <1>4, <1>6
  <1>7. SlotOf(Unmapped) = -1 /\ \A f, u : SlotOf(InRam(f, u)) = -1
    BY DEF SlotOf, Unmapped, InRam
  <1>8. CASE \/ KallocTakes(p) \/ KallocFindsNone(p) \/ SwapRead(p) \/ ExecPage(p)
             \/ ForkKernelPage(p) \/ CopyLooks(p)
    <2>1. UNCHANGED <<pgdir, usedSlots, overrun>>
      BY <1>8 DEF KallocTakes, KallocFindsNone, SwapRead, ExecPage, ForkKernelPage,
                  CopyLooks, Panic, procs, swap, history
    <2> QED
      BY <1>5, <2>1
  <1>9. CASE \/ Fork(p) \/ Exec(p) \/ \E n \in 1 .. MaxPages : Sbrk(p, n)
             \/ \E v \in Pages : Fault(p, v)
    <2>1. UNCHANGED <<pgdir, usedSlots, overrun>>
      BY <1>9 DEF Fork, Exec, Sbrk, Fault, procs, swap, history
    <2> QED
      BY <1>5, <2>1
  <1>10. CASE SbrkPage(p)
    <2> DEFINE e == InRam(k.frame, FALSE)
               w == k.page
    <2>1. /\ pgdir' = [pgdir EXCEPT ![p][w] = e] /\ UNCHANGED <<usedSlots, overrun>>
      BY <1>10 DEF SbrkPage, swap
    <2>2. SlotOf(e) = -1
      BY <1>7
    <2> HIDE DEF e, w
    <2>3. Less
      BY <1>1, <2>1, <2>2 DEF Tables
    <2> QED
      BY <1>6, <2>1, <2>3
  <1>11. CASE SwapIn(p)
    <2> DEFINE e == InRam(k.frame, FALSE)
               w == k.page
               s == k.slot
    <2>1. /\ pgdir' = [pgdir EXCEPT ![p][w] = e] /\ overrun' = overrun
          /\ usedSlots' = usedSlots \ {s} /\ k.pc = "read"
      BY <1>11 DEF SwapIn, At, history
    <2>2. SlotOf(e) = -1
      BY <1>7
    <2>3. w \in Pages /\ pgdir[p][w].at = "swap" /\ s = pgdir[p][w].n
      <3>1. k.call = "fault"
        BY <1>1, <2>1 DEF KernelShape
      <3>2. sz[p] \in 0 .. MaxPages
        BY DEF ShapeInv, TableInv
      <3> QED
        BY <1>1, <2>1, <3>1, <3>2, SwapAssumption DEF CallShape, Pages
    <2>4. e.at # "swap"
      BY DEF InRam
    <2> HIDE DEF e, w, s
    <2>5. \A r \in Procs : \A v \in Pages :
            pgdir'[r][v] = IF r = p /\ v = w THEN e ELSE pgdir[r][v]
      BY <1>1, <2>1, <2>3 DEF Tables
    <2>6. Less
      BY <2>2, <2>5
    <2>7. Named
      <3> SUFFICES ASSUME ~overrun, NEW r \in Procs, NEW v \in Pages,
                          pgdir'[r][v].at = "swap", pgdir'[r][v].n \in usedSlots
                   PROVE  pgdir'[r][v].n \in usedSlots'
        OBVIOUS
      <3>1. ~ (r = p /\ v = w) /\ pgdir'[r][v] = pgdir[r][v]
        BY <2>4, <2>5
      <3>2. pgdir[r][v].n # s
        BY <2>3, <3>1 DEF SlotInv
      <3> QED
        BY <2>1, <3>1, <3>2
    <2> QED
      BY <1>4, <2>1, <2>6, <2>7
  <1>12. CASE ExecDone(p)
    <2> DEFINE e == InRam(k.frame, FALSE)
               w == k.page
               new == [k.table EXCEPT ![w] = e]
    <2>1. pgdir' = [pgdir EXCEPT ![p] = new] /\ UNCHANGED <<usedSlots, overrun>>
      BY <1>12 DEF ExecDone, swap
    <2>2. \A v \in Pages : SlotOf(k.table[v]) = -1
      <3>1. k.call = "exec"
        BY <1>12 DEF ExecDone
      <3>2. BuiltTo(k.table, w)
        BY <1>1, <3>1 DEF CallShape
      <3> QED
        BY <1>7, <3>2 DEF BuiltTo, SlotOf
    <2>3. SlotOf(e) = -1
      BY <1>7
    <2> HIDE DEF e, w
    <2>4. Less
      BY <1>1, <2>1, <2>2, <2>3 DEF Tables
    <2> QED
      BY <1>6, <2>1, <2>4
  <1>13. CASE CopyPage(p)
    <2> DEFINE e == InRam(k.frame, k.source.used)
               w == k.page
               c == k.child
               new == [k.table EXCEPT ![w] = e]
    <2>1. /\ pgdir' = pgdir \/ pgdir' = [pgdir EXCEPT ![c] = new]
          /\ UNCHANGED <<usedSlots, overrun>>
      BY <1>13 DEF CopyPage, swap
    <2>2. \A v \in Pages : SlotOf(k.table[v]) = -1
      <3>1. k.call = "fork"
        BY <1>13 DEF CopyPage
      <3>2. BuiltTo(k.table, w)
        BY <1>1, <3>1 DEF CallShape
      <3> QED
        BY <1>7, <3>2 DEF BuiltTo, SlotOf
    <2>3. SlotOf(e) = -1
      BY <1>7
    <2> HIDE DEF e, w, c
    <2>4. Less
      BY <1>1, <2>1, <2>2, <2>3 DEF Tables
    <2> QED
      BY <1>6, <2>1, <2>4
  <1>14. CASE \E n \in 1 .. MaxPages : Shrink(p, n)
    <2>1. PICK n \in 1 .. MaxPages : Shrink(p, n)
      BY <1>14
    <2> DEFINE gone == {v \in Resident(pgdir[p]) : v >= n}
    <2>2. /\ pgdir' = [pgdir EXCEPT ![p] =
               [v \in Pages |-> IF v \in gone THEN Unmapped ELSE pgdir[p][v]]]
          /\ UNCHANGED <<usedSlots, overrun>>
      BY <1>1, <2>1 DEF Shrink, swap
    <2> HIDE DEF gone
    <2>3. Less
      BY <1>1, <1>7, <2>2
    <2> QED
      BY <1>6, <2>2, <2>3
  <1>15. CASE Exit(p)
    <2> DEFINE out == SwappedOut(p)
    <2>1. /\ pgdir' = [pgdir EXCEPT ![p] =
               [v \in Pages |-> IF v \in out THEN Unmapped ELSE pgdir[p][v]]]
          /\ usedSlots' = usedSlots \ {pgdir[p][v].n : v \in out}
          /\ overrun' = overrun
      BY <1>1, <1>15 DEF Exit
    <2>2. \A v \in out : v \in Pages /\ pgdir[p][v].at = "swap"
      <3>1. sz[p] \in 0 .. MaxPages
        BY DEF ShapeInv, TableInv
      <3> QED
        BY <3>1, SwapAssumption DEF SwappedOut, Pages
    <2> HIDE DEF out
    <2>3. Less
      BY <1>1, <1>7, <2>1
    <2>4. Named
      <3> SUFFICES ASSUME ~overrun, NEW r \in Procs, NEW v \in Pages,
                          pgdir'[r][v].at = "swap", pgdir'[r][v].n \in usedSlots
                   PROVE  pgdir'[r][v].n \in usedSlots'
        OBVIOUS
      <3>1. pgdir'[r][v] = pgdir[r][v] /\ (r = p => v \notin out)
        BY <1>1, <2>1 DEF Unmapped
      <3>2. \A u \in out : pgdir[p][u].n # pgdir[r][v].n
        BY <2>2, <3>1 DEF SlotInv
      <3> QED
        BY <2>1, <3>1, <3>2
    <2> QED
      BY <1>4, <2>1, <2>3, <2>4
  <1>16. CASE Wait(p)
    <2> DEFINE c == k.child
    <2>1. pgdir' = [pgdir EXCEPT ![c] = NoPages] /\ UNCHANGED <<usedSlots, overrun>>
      BY <1>16 DEF Wait, swap, history
    <2>2. \A v \in Pages : NoPages[v] = Unmapped
      BY DEF NoPages
    <2> HIDE DEF c
    <2>3. Less
      BY <1>1, <1>7, <2>1, <2>2
    <2> QED
      BY <1>6, <2>1, <2>3
  <1>17. CASE \E v \in Pages : \E x \in Values : Touch(p, v, x)
    <2>1. PICK v \in Pages, x \in Values : Touch(p, v, x)
      BY <1>17
    <2>2. pgdir' = [pgdir EXCEPT ![p][v].used = TRUE] /\ UNCHANGED <<usedSlots, overrun>>
      BY <2>1 DEF Touch, swap
    <2>3. pgdir[p][v] \in Entries /\ pgdir[p][v].at = "ram"
      BY <1>1, <2>1 DEF Touch, Resident, Tables
    <2> DEFINE e == [pgdir[p][v] EXCEPT !.used = TRUE]
    <2>4. e.at = "ram"
      BY <2>3, MarkedFacts
    <2>5. \A r \in Procs : \A w \in Pages :
            pgdir'[r][w] = IF r = p /\ w = v THEN e ELSE pgdir[r][w]
      BY <1>1, <2>2 DEF Tables
    <2> HIDE DEF e
    <2>6. Less
      BY <2>4, <2>5 DEF SlotOf
    <2> QED
      BY <1>6, <2>2, <2>6
  <1> QED
    BY <1>8, <1>9, <1>10, <1>11, <1>12, <1>13, <1>14, <1>15, <1>16, <1>17
       DEF Kernel, User

\* The invariants so far hold together: what frames and slots hold, and that no
\* two entries name a slot, nor one the slot that is being written.
THEOREM SlotsHold == Spec => [](ShapeInv /\ FrameInv /\ DataInv /\ SlotInv)
  <1>1. Init => DataInv /\ SlotInv
    BY SwapAssumption DEF Init, DataInv, Contents, SlotInv, Unmapped, InRam, Idle
  <1>2. ASSUME ShapeInv, ShapeInv', SlotInv, [Next]_vars PROVE SlotInv'
    <2>1. CASE UNCHANGED vars
      BY <1>2, <2>1 DEF vars, SlotInv
    <2>2. CASE Next
      <3>1. PICK p \in Procs : Kernel(p) \/ User(p)
        BY <2>2 DEF Next
      <3> QED
        BY <1>2, <3>1, OthersKeepSlots, SwapOutKeepsSlots
    <2> QED
      BY <1>2, <2>1, <2>2
  <1>3. ShapeInv /\ DataInv /\ [Next]_vars => DataInv'
    BY DataKept
  <1> QED
    BY <1>1, <1>2, <1>3, FramesHold, PTL DEF Spec

\* As long as swap_alloc() has found a slot whenever it was asked, a slot that
\* an entry names is in use and no other entry names it.
THEOREM SlotsAreOwned == Spec => []SlotsHaveOneOwner
  <1>1. SlotInv => SlotsHaveOneOwner
    BY DEF SlotInv, SlotsHaveOneOwner
  <1> QED
    BY <1>1, SlotsHold, PTL

-----------------------------------------------------------------------------
(* rss *)

\* The pages that rss may count: exec() counts those of the new table too.
CountOf(table, k) ==
  Cardinality(Resident(table))
    + IF k.call = "exec" THEN Cardinality(Resident(k.table)) ELSE 0

\* rss of a child that fork() is building counts the pages of its new table, and
\* so does that of a process in exec() from the moment it has its kernel page.
RssInv ==
  /\ \A p \in Procs : InUse(p) => rss[p] <= CountOf(pgdir[p], kernel[p])
  /\ \A p \in Procs : kernel[p].call = "exec" /\ kernel[p].page >= 0 =>
       rss[p] <= kernel[p].page
  /\ \A p \in Procs : kernel[p].call = "fork" /\ kernel[p].page >= 0 =>
       rss[kernel[p].child] <= kernel[p].page

\* The number of resident pages, and how it changes with one of them.
LEMMA ResidentFacts ==
  /\ \A table \in Tables :
       IsFiniteSet(Resident(table)) /\ Cardinality(Resident(table)) \in Nat
  /\ Cardinality(Resident(NoPages)) = 0
  /\ \A old, new \in Tables :
       (\A v \in Pages : new[v].at = "ram" <=> old[v].at = "ram") =>
         Resident(new) = Resident(old)
  <1>1. ASSUME NEW table \in Tables
        PROVE  IsFiniteSet(Resident(table)) /\ Cardinality(Resident(table)) \in Nat
    <2>1. Resident(table) \subseteq Pages
      BY DEF Resident
    <2> QED
      BY <2>1, Numbers, FS_Subset, FS_CardinalityType
  <1>2. Resident(NoPages) = {}
    BY DEF Resident, NoPages, Unmapped
  <1> QED
    BY <1>1, <1>2, FS_EmptySet DEF Resident

\* One page more, or less.
LEMMA ResidentChanged ==
  ASSUME NEW old \in Tables, NEW new \in Tables, NEW v \in Pages,
         old[v].at # "ram", new[v].at = "ram",
         \A w \in Pages : w # v => (new[w].at = "ram" <=> old[w].at = "ram")
  PROVE  Cardinality(Resident(new)) = Cardinality(Resident(old)) + 1
  <1>1. Resident(new) = Resident(old) \cup {v} /\ v \notin Resident(old)
    BY DEF Resident
  <1> QED
    BY <1>1, ResidentFacts, FS_AddElement

\* A table that is built up to page v has that many.
LEMMA BuiltCount ==
  ASSUME NEW table \in Tables, NEW v \in Nat, v <= MaxPages, BuiltTo(table, v)
  PROVE  Cardinality(Resident(table)) = v
  <1>1. Resident(table) = 0 .. v - 1
    <2>1. Pages = 0 .. MaxPages - 1 /\ MaxPages \in Nat
      BY SwapAssumption DEF Pages
    <2>2. \A w \in Pages : w \in Resident(table) <=> w < v
      BY DEF BuiltTo, Resident, Unmapped
    <2>3. Resident(table) \subseteq Pages
      BY DEF Resident
    <2>4. ASSUME NEW w \in Resident(table) PROVE w \in 0 .. v - 1
      BY <2>1, <2>2, <2>3
    <2>5. ASSUME NEW w \in 0 .. v - 1 PROVE w \in Resident(table)
      <3>1. w \in Pages /\ w < v
        BY <2>1
      <3> QED
        BY <2>2, <3>1
    <2> QED
      BY <2>4, <2>5
  <1> QED
    BY <1>1, FS_Interval

\* What is compared are numbers.
CountsAreNumbers ==
  \A q \in Procs : CountOf(pgdir[q], kernel[q]) \in Nat /\ rss[q] \in Int

\* The count of a process is a number.
LEMMA CountFacts == ShapeInv => CountsAreNumbers
  <1> SUFFICES ASSUME ShapeInv PROVE CountsAreNumbers
    OBVIOUS
  <1>1. \A q \in Procs : pgdir[q] \in Tables /\ kernel[q].table \in Tables
    BY DEF ShapeInv, KernelInv, KernelTypes
  <1> QED
    BY <1>1, ResidentFacts DEF CountOf, ShapeInv, KernelInv, CountsAreNumbers

\* And after a step.
LEMMA CountFactsNext == ShapeInv' => CountsAreNumbers'
  BY CountFacts, PTL

\* What a step does to the process that takes it is enough.
LEMMA RssOf ==
  ASSUME ShapeInv, NEW p \in Procs, state[p] = "RUNNABLE", kernel[p].pc # "wait",
         \A q \in Procs : q # p => kernel'[q] = kernel[q],
         \A q \in Procs : InUse(q)' => rss'[q] <= CountOf(pgdir'[q], kernel'[q]),
         kernel'[p].call = "exec" /\ kernel'[p].page >= 0 =>
           rss'[p] <= kernel'[p].page,
         kernel'[p].call = "fork" /\ kernel'[p].page >= 0 =>
           rss'[kernel'[p].child] <= kernel'[p].page
  PROVE  RssInv'
  <1>1. \A q \in Procs : q # p => kernel'[q].call \notin {"exec", "fork"}
    BY Alone DEF ShapeInv
  <1>2. \A q \in Procs : kernel'[q].call = "fork" /\ kernel'[q].page >= 0 =>
          rss'[kernel'[q].child] <= kernel'[q].page
    BY <1>1
  <1>3. \A q \in Procs : kernel'[q].call = "exec" /\ kernel'[q].page >= 0 =>
          rss'[q] <= kernel'[q].page
    BY <1>1
  <1> QED
    BY <1>2, <1>3 DEF RssInv

\* The processes whose pages and rss do not change keep the bound.
LEMMA RssOthers ==
  ASSUME ShapeInv, ShapeInv', RssInv, NEW q \in Procs, InUse(q), rss'[q] = rss[q],
         \A v \in Pages : pgdir'[q][v].at = "ram" <=> pgdir[q][v].at = "ram",
         kernel'[q].call = kernel[q].call, kernel'[q].table = kernel[q].table
  PROVE  rss'[q] <= CountOf(pgdir'[q], kernel'[q])
  <1>1. pgdir[q] \in Tables /\ pgdir'[q] \in Tables
    BY DEF ShapeInv, KernelInv
  <1>2. Resident(pgdir'[q]) = Resident(pgdir[q])
    BY <1>1, ResidentFacts
  <1> QED
    BY <1>2 DEF RssInv, CountOf

\* Within kalloc() and before the copy of a page nothing is counted.
LEMMA KallocKeepsRss ==
  ASSUME ShapeInv, ShapeInv', RssInv, NEW p \in Procs,
         \/ KallocTakes(p) \/ KallocFindsNone(p) \/ SwapOut(p) \/ SwapRead(p)
         \/ CopyLooks(p)
  PROVE  RssInv'
  <1> DEFINE k == kernel[p]
  <1>1. /\ kernel \in [Procs -> KernelTypes] /\ pgdir \in [Procs -> Tables]
        /\ k \in KernelTypes
    BY DEF ShapeInv, KernelInv
  <1>2. /\ rss' = rss /\ state' = state
    BY DEF KallocTakes, KallocFindsNone, SwapOut, SwapRead, CopyLooks, Panic, procs
  <1>3. \A q \in Procs : \A v \in Pages : pgdir'[q][v].at = pgdir[q][v].at
    <2>1. CASE SwapOut(p) /\ ~NoVictim
      <3> DEFINE q == VictimProcess
      <3>1. pgdir' = [pgdir EXCEPT ![q] = Aged(pgdir[q])] /\ q \in Procs
        BY <1>1, <2>1, VictimFacts DEF SwapOut, ShapeInv
      <3> HIDE DEF q
      <3> QED
        BY <1>1, <3>1, AgedFacts
    <2>2. CASE ~ (SwapOut(p) /\ ~NoVictim)
      <3>1. pgdir' = pgdir
        BY <2>2 DEF KallocTakes, KallocFindsNone, SwapOut, SwapRead, CopyLooks,
                    Panic, procs
      <3> QED
        BY <3>1
    <2> QED
      BY <2>1, <2>2
  <1>4. /\ \A q \in Procs : q # p => kernel'[q] = kernel[q]
        /\ kernel'[p].call = k.call /\ kernel'[p].table = k.table
        /\ kernel'[p].page = k.page /\ kernel'[p].child = k.child
    <2>1. CASE KallocTakes(p)
      BY <1>1, <2>1 DEF KallocTakes, KernelTypes
    <2>2. CASE KallocFindsNone(p)
      <3>1. CASE k.pc = "again"
        BY <2>2, <3>1 DEF KallocFindsNone, Panic
      <3>2. CASE k.pc # "again"
        BY <1>1, <2>2, <3>2 DEF KallocFindsNone, KernelTypes
      <3> QED
        BY <3>1, <3>2
    <2>3. CASE SwapOut(p) /\ NoVictim
      BY <2>3 DEF SwapOut, Panic
    <2>4. CASE SwapOut(p) /\ ~NoVictim
      BY <1>1, <2>4 DEF SwapOut, KernelTypes
    <2>5. CASE SwapRead(p)
      BY <1>1, <2>5 DEF SwapRead, Enter, KernelTypes
    <2>6. CASE CopyLooks(p)
      <3>1. CASE pgdir[p][k.page].at # "ram"
        BY <2>6, <3>1 DEF CopyLooks, Panic
      <3>2. CASE pgdir[p][k.page].at = "ram"
        <4> DEFINE k2 == [k EXCEPT !.pc = "kalloc", !.source = pgdir[p][k.page]]
        <4>1. kernel' = [kernel EXCEPT ![p] = k2]
          BY <2>6, <3>2 DEF CopyLooks, Enter
        <4>2. /\ k2.call = k.call /\ k2.table = k.table /\ k2.page = k.page
              /\ k2.child = k.child
          BY <1>1 DEF KernelTypes
        <4> HIDE DEF k2
        <4> QED
          BY <1>1, <4>1, <4>2
      <3> QED
        BY <3>1, <3>2
    <2> HIDE DEF k
    <2> QED
      BY <2>1, <2>2, <2>3, <2>4, <2>5, <2>6
  <1>5. ASSUME NEW q \in Procs, InUse(q)'
        PROVE  rss'[q] <= CountOf(pgdir'[q], kernel'[q])
    <2>1. InUse(q) /\ rss'[q] = rss[q]
      BY <1>2, <1>5 DEF InUse
    <2>2. kernel'[q].call = kernel[q].call /\ kernel'[q].table = kernel[q].table
      BY <1>4
    <2> QED
      BY <1>3, <2>1, <2>2, RssOthers
  <1>6. state[p] = "RUNNABLE" /\ k.pc # "wait"
    BY DEF KallocTakes, KallocFindsNone, SwapOut, SwapRead, CopyLooks, At, Runs
  <1>7. kernel'[p].call = "fork" /\ kernel'[p].page >= 0 =>
          rss'[kernel'[p].child] <= kernel'[p].page
    BY <1>2, <1>4 DEF RssInv
  <1>8. kernel'[p].call = "exec" /\ kernel'[p].page >= 0 => rss'[p] <= kernel'[p].page
    BY <1>2, <1>4 DEF RssInv
  <1> QED
    BY <1>4, <1>5, <1>6, <1>7, <1>8, RssOf

\* Nor is it when a call begins, or a program uses a page; exit() starts anew.
LEMMA CallKeepsRss ==
  ASSUME ShapeInv, ShapeInv', RssInv, NEW p \in Procs,
         \/ \E n \in 1 .. MaxPages : Sbrk(p, n)
         \/ \E v \in Pages : Fault(p, v) \/ \E x \in Values : Touch(p, v, x)
         \/ Fork(p) \/ Exec(p) \/ Exit(p)
  PROVE  RssInv'
  <1> DEFINE k == kernel[p]
  <1>1. /\ kernel \in [Procs -> KernelTypes] /\ pgdir \in [Procs -> Tables]
        /\ rss \in [Procs -> Int]
    BY DEF ShapeInv, KernelInv
  <1>2. AtUser(p)
    BY DEF Sbrk, Fault, Touch, Fork, Exec, Exit
  <1>3. k = Idle /\ state[p] = "RUNNABLE" /\ k.pc # "wait" /\ k.call = "none"
    BY <1>2, AtUserFacts
  <1>4. Idle.call = "none" /\ Idle.page = 0 /\ Idle.table = NoPages
    BY DEF Idle
  <1>5. CASE \/ \E n \in 1 .. MaxPages : Sbrk(p, n)
             \/ \E v \in Pages : Fault(p, v)
             \/ Fork(p) \/ Exec(p)
    <2>1. PICK k2 : /\ Enter(p, k2) /\ k2.table = NoPages
                    /\ k2.call \in {"exec", "fork"} => k2.page = -1
      <3>1. CASE \E n \in 1 .. MaxPages : Sbrk(p, n)
        <4>1. PICK n \in 1 .. MaxPages : Sbrk(p, n)
          BY <3>1
        <4> DEFINE k2 == [Idle EXCEPT !.pc = "kalloc", !.call = "sbrk",
                                      !.page = sz[p], !.goal = n]
        <4>2. k2.table = NoPages /\ k2.call = "sbrk"
          BY DEF Idle
        <4>3. Enter(p, k2)
          BY <4>1 DEF Sbrk
        <4> HIDE DEF k2
        <4> QED
          BY <4>2, <4>3
      <3>2. CASE \E v \in Pages : Fault(p, v)
        <4>1. PICK v \in Pages : Fault(p, v)
          BY <3>2
        <4> DEFINE k2 == [Idle EXCEPT !.pc = "kalloc", !.call = "fault", !.page = v]
        <4>2. k2.table = NoPages /\ k2.call = "fault"
          BY DEF Idle
        <4>3. Enter(p, k2)
          BY <4>1 DEF Fault
        <4> HIDE DEF k2
        <4> QED
          BY <4>2, <4>3
      <3>3. CASE Exec(p)
        <4> DEFINE k2 == [Idle EXCEPT !.pc = "kalloc", !.call = "exec", !.page = -1]
        <4>2. k2.table = NoPages /\ k2.page = -1
          BY DEF Idle
        <4>3. Enter(p, k2)
          BY <3>3 DEF Exec
        <4> HIDE DEF k2
        <4> QED
          BY <4>2, <4>3
      <3>4. CASE Fork(p)
        <4>1. PICK c \in Procs :
                Enter(p, [Idle EXCEPT !.pc = "kalloc", !.call = "fork",
                                      !.page = -1, !.child = c])
          BY <3>4 DEF Fork
        <4> DEFINE k2 == [Idle EXCEPT !.pc = "kalloc", !.call = "fork", !.page = -1,
                                      !.child = c]
        <4>2. k2.table = NoPages /\ k2.page = -1
          BY DEF Idle
        <4>3. Enter(p, k2)
          BY <4>1
        <4> HIDE DEF k2
        <4> QED
          BY <4>2, <4>3
      <3> QED
        BY <1>5, <3>1, <3>2, <3>3, <3>4
    <2>2. rss' = rss /\ pgdir' = pgdir /\ \A q \in Procs : InUse(q)' => InUse(q)
      <3>1. rss' = rss /\ pgdir' = pgdir
        BY <1>5 DEF Sbrk, Fault, Fork, Exec, procs
      <3>2. state' = state \/ \E c \in Procs : state' = [state EXCEPT ![c] = "EMBRYO"]
        BY <1>5 DEF Sbrk, Fault, Fork, Exec, procs
      <3>3. state \in [Procs -> {"UNUSED", "EMBRYO", "RUNNABLE", "ZOMBIE"}]
        BY DEF ShapeInv, StackInv
      <3> QED
        BY <3>1, <3>2, <3>3 DEF InUse
    <2>3. kernel'[p] = k2 /\ \A q \in Procs : q # p => kernel'[q] = kernel[q]
      BY <1>1, <2>1 DEF Enter
    <2>4. ASSUME NEW q \in Procs, InUse(q)'
          PROVE  rss'[q] <= CountOf(pgdir'[q], kernel'[q])
      <3>1. rss[q] <= CountOf(pgdir[q], kernel[q]) /\ rss[q] \in Int
        BY <1>1, <2>2, <2>4 DEF RssInv
      <3>2. CASE q # p
        BY <2>2, <2>3, <3>1, <3>2
      <3>3. CASE q = p
        <4>1. CountOf(pgdir[p], k) = Cardinality(Resident(pgdir[p])) + 0
          BY <1>3 DEF CountOf
        <4>2. CountOf(pgdir'[p], k2) = Cardinality(Resident(pgdir[p])) + 0
          BY <2>1, <2>2, ResidentFacts DEF CountOf
        <4> QED
          BY <2>2, <2>3, <3>1, <3>3, <4>1, <4>2
      <3> QED
        BY <3>2, <3>3
    <2> QED
      BY <1>3, <2>1, <2>3, <2>4, RssOf
  <1>6. CASE \E v \in Pages : \E x \in Values : Touch(p, v, x)
    <2>1. PICK v \in Pages, x \in Values : Touch(p, v, x)
      BY <1>6
    <2>2. /\ pgdir' = [pgdir EXCEPT ![p][v].used = TRUE]
          /\ UNCHANGED <<rss, state, kernel>>
      BY <2>1 DEF Touch
    <2>3. pgdir[p][v] \in Entries /\ pgdir[p][v].at = "ram"
      BY <1>1, <2>1 DEF Touch, Resident, Tables
    <2> DEFINE e == [pgdir[p][v] EXCEPT !.used = TRUE]
    <2>4. e.at = pgdir[p][v].at
      BY <2>3, MarkedFacts
    <2>5. \A r \in Procs : \A w \in Pages :
            pgdir'[r][w] = IF r = p /\ w = v THEN e ELSE pgdir[r][w]
      BY <1>1, <2>2 DEF Tables
    <2> HIDE DEF e
    <2>6. ASSUME NEW q \in Procs, InUse(q)'
          PROVE  rss'[q] <= CountOf(pgdir'[q], kernel'[q])
      <3>1. InUse(q) /\ \A w \in Pages : pgdir'[q][w].at = "ram" <=> pgdir[q][w].at = "ram"
        BY <2>2, <2>4, <2>5, <2>6 DEF InUse
      <3> QED
        BY <2>2, <3>1, RssOthers
    <2> QED
      BY <1>3, <2>2, <2>6, RssOf
  <1>7. CASE Exit(p)
    <2>1. /\ pgdir' = [pgdir EXCEPT ![p] =
               [v \in Pages |-> IF v \in SwappedOut(p) THEN Unmapped ELSE pgdir[p][v]]]
          /\ rss' = [rss EXCEPT ![p] = 0] /\ kernel' = kernel
          /\ state' = [state EXCEPT ![p] = "ZOMBIE"]
      BY <1>1, <1>7 DEF Exit
    <2>2. ASSUME NEW q \in Procs, InUse(q)'
          PROVE  rss'[q] <= CountOf(pgdir'[q], kernel'[q])
      <3>1. CASE q = p
        <4>1. CountOf(pgdir'[p], kernel'[p]) \in Nat
          BY CountFactsNext DEF CountsAreNumbers
        <4> QED
          BY <1>1, <2>1, <3>1, <4>1
      <3>2. CASE q # p
        <4>1. rss'[q] = rss[q] /\ pgdir'[q] = pgdir[q] /\ kernel'[q] = kernel[q] /\ InUse(q)
          BY <1>1, <2>1, <2>2, <3>2 DEF InUse, ShapeInv, StackInv
        <4> QED
          BY <4>1 DEF RssInv
      <3> QED
        BY <3>1, <3>2
    <2> QED
      BY <1>3, <2>1, <2>2, RssOf
  <1> QED
    BY <1>5, <1>6, <1>7

\* A page that is swapped out is no longer counted, whoever has it.
LEMMA SwapOutDoneKeepsRss ==
  ASSUME ShapeInv, ShapeInv', RssInv, NEW p \in Procs, SwapOutDone(p)
  PROVE  RssInv'
  <1> DEFINE k == kernel[p]
             q == k.victim
             v == k.vpage
             new == [pgdir[q] EXCEPT ![v] = InSwap(k.slot)]
  <1>1. /\ kernel \in [Procs -> KernelTypes] /\ pgdir \in [Procs -> Tables]
        /\ k \in KernelTypes /\ rss \in [Procs -> Int]
        /\ KernelShape(k) /\ CallShape(p)
    BY DEF ShapeInv, KernelInv, TableInv
  <1>2. /\ k.pc = "writing" /\ state[p] = "RUNNABLE"
        /\ pgdir' = [pgdir EXCEPT ![q][v] = InSwap(k.slot)]
        /\ rss' = [rss EXCEPT ![q] = @ - 1] /\ state' = state
    BY DEF SwapOutDone, At, Runs
  <1>3. q \in Procs /\ v \in Pages /\ InUse(q) /\ pgdir[q][v].at = "ram"
    BY <1>1, <1>2 DEF KernelShape, CallShape, WritingShape
  <1>4. /\ \A r \in Procs : r # p => kernel'[r] = kernel[r]
        /\ kernel'[p].call = k.call /\ kernel'[p].table = k.table
        /\ kernel'[p].page = k.page /\ kernel'[p].child = k.child
    BY <1>1 DEF SwapOutDone, KernelTypes
  <1>5. \A r \in Procs : /\ kernel'[r].call = kernel[r].call
                         /\ kernel'[r].table = kernel[r].table
    BY <1>4
  <1>6. InSwap(k.slot).at = "swap"
    BY DEF InSwap
  <1>7. pgdir'[q] = new /\ \A r \in Procs : r # q => pgdir'[r] = pgdir[r]
    BY <1>1, <1>2, <1>3
  <1>8. Cardinality(Resident(pgdir[q])) = Cardinality(Resident(new)) + 1
    <2>1. new \in Tables
      <3> HIDE DEF new, q
      <3> QED
        BY <1>3, <1>7 DEF ShapeInv, KernelInv
    <2>2. new[v].at # "ram" /\ \A w \in Pages : w # v => new[w] = pgdir[q][w]
      BY <1>1, <1>3, <1>6 DEF Tables
    <2> HIDE DEF new, q, v
    <2>3. pgdir[q] \in Tables
      BY <1>1, <1>3
    <2> QED
      BY <1>3, <2>1, <2>2, <2>3, ResidentChanged
  <1>9. Cardinality(Resident(new)) \in Nat /\ Cardinality(Resident(pgdir[q])) \in Nat
        /\ Cardinality(Resident(kernel[q].table)) \in Nat
    <2> HIDE DEF new, q
    <2>1. new \in Tables /\ kernel[q].table \in Tables /\ pgdir[q] \in Tables
      BY <1>1, <1>3, <1>7 DEF ShapeInv, KernelInv, KernelTypes
    <2> QED
      BY <2>1, ResidentFacts
  <1>10. ASSUME NEW r \in Procs, InUse(r)'
         PROVE  rss'[r] <= CountOf(pgdir'[r], kernel'[r])
    <2>1. InUse(r)
      BY <1>2, <1>10 DEF InUse
    <2>2. CASE r # q
      BY <1>1, <1>2, <1>3, <1>5, <1>7, <2>1, <2>2, RssOthers
    <2>3. CASE r = q
      <3> HIDE DEF new, q
      <3>1. rss'[q] = rss[q] - 1 /\ rss[q] \in Int
        BY <1>1, <1>2, <1>3
      <3>2. rss[q] <= CountOf(pgdir[q], kernel[q])
        BY <1>3 DEF RssInv
      <3> QED
        BY <1>3, <1>5, <1>7, <1>8, <1>9, <2>3, <3>1, <3>2 DEF CountOf
    <2> QED
      BY <2>2, <2>3
  <1>12. k.call = "exec" /\ k.page >= 0 => rss'[p] <= k.page
    <2> SUFFICES ASSUME k.call = "exec", k.page >= 0 PROVE rss'[p] <= k.page
      OBVIOUS
    <2>1. rss[p] <= k.page /\ rss[p] \in Int /\ k.page \in Int
      BY <1>1 DEF RssInv, CallShape
    <2>2. rss'[p] \in {rss[p], rss[p] - 1}
      BY <1>1, <1>2
    <2> QED
      BY <2>1, <2>2
  <1>11. k.call = "fork" /\ k.page >= 0 => rss'[k.child] <= k.page
    <2> SUFFICES ASSUME k.call = "fork", k.page >= 0 PROVE rss'[k.child] <= k.page
      OBVIOUS
    <2>1. k.child \in Procs /\ state[k.child] = "EMBRYO"
      BY DEF ShapeInv, StackInv
    <2>2. k.child # q
      BY <1>3, <2>1 DEF InUse
    <2>3. rss'[k.child] = rss[k.child]
      BY <1>1, <1>2, <2>1, <2>2
    <2> QED
      BY <2>3 DEF RssInv
  <1> QED
    BY <1>2, <1>4, <1>10, <1>11, <1>12, RssOf

\* allocuvm() and a page fault count the page they map.
LEMMA PageKeepsRss ==
  ASSUME ShapeInv, ShapeInv', RssInv, NEW p \in Procs, SbrkPage(p) \/ SwapIn(p)
  PROVE  RssInv'
  <1> DEFINE k == kernel[p]
             w == k.page
             e == InRam(k.frame, FALSE)
             new == [pgdir[p] EXCEPT ![w] = e]
  <1>1. /\ kernel \in [Procs -> KernelTypes] /\ pgdir \in [Procs -> Tables]
        /\ k \in KernelTypes /\ rss \in [Procs -> Int]
        /\ KernelShape(k) /\ CallShape(p)
    BY DEF ShapeInv, KernelInv, TableInv
  <1>2. k.call \in {"sbrk", "fault"}
    BY <1>1 DEF SbrkPage, SwapIn, At, KernelShape
  <1>3. w \in Pages /\ pgdir[p][w].at # "ram"
    <2>1. sz[p] \in 0 .. MaxPages /\ MaxPages \in Nat
      BY SwapAssumption DEF ShapeInv, TableInv
    <2>2. CASE k.call = "sbrk"
      <3>1. w \in sz[p] .. k.goal - 1 /\ k.goal <= MaxPages /\ k.goal \in Int
        BY <1>1, <2>2 DEF CallShape, KernelTypes
      <3>2. w \in Pages /\ w >= Extent(p)
        BY <2>1, <2>2, <3>1 DEF Pages, Extent
      <3> QED
        BY <3>2 DEF ShapeInv, TableInv
    <2>3. CASE k.call = "fault"
      BY <1>1, <2>1, <2>3 DEF CallShape, Pages
    <2> QED
      BY <1>2, <2>2, <2>3
  <1>4. /\ pgdir' = [pgdir EXCEPT ![p][w] = e] /\ rss' = [rss EXCEPT ![p] = @ + 1]
        /\ state' = state /\ state[p] = "RUNNABLE"
        /\ k.pc # "wait"
    BY DEF SbrkPage, SwapIn, At, Runs
  <1>5. /\ \A r \in Procs : r # p => kernel'[r] = kernel[r]
        /\ kernel'[p].call \notin {"exec", "fork"}
    <2>1. Idle.call = "none"
      BY DEF Idle
    <2>2. k.pc = "got" /\ k.call = "sbrk" => NextPage(k).call = "sbrk"
      BY <1>1, NextPageFacts DEF Calls
    <2>3. \/ kernel' = [kernel EXCEPT ![p] = Idle]
          \/ k.pc = "got" /\ k.call = "sbrk" /\ kernel' = [kernel EXCEPT ![p] = NextPage(k)]
      BY DEF SbrkPage, SwapIn, Return, Enter, At
    <2> QED
      BY <1>1, <2>1, <2>2, <2>3
  <1>6. pgdir'[p] = new /\ \A r \in Procs : r # p => pgdir'[r] = pgdir[r]
    BY <1>1, <1>4
  <1>7. e.at = "ram"
    BY DEF InRam
  <1>8. /\ Cardinality(Resident(new)) = Cardinality(Resident(pgdir[p])) + 1
        /\ Cardinality(Resident(pgdir[p])) \in Nat
    <2>1. new \in Tables
      <3> HIDE DEF new
      <3> QED
        BY <1>6 DEF ShapeInv, KernelInv
    <2>2. new[w].at = "ram" /\ \A v \in Pages : v # w => new[v] = pgdir[p][v]
      BY <1>1, <1>3, <1>7 DEF Tables
    <2> HIDE DEF new, e, w
    <2> QED
      BY <1>1, <1>3, <2>1, <2>2, ResidentChanged, ResidentFacts
  <1>9. ASSUME NEW r \in Procs, InUse(r)'
        PROVE  rss'[r] <= CountOf(pgdir'[r], kernel'[r])
    <2> HIDE DEF new, e, w
    <2>1. InUse(r)
      BY <1>4, <1>9 DEF InUse
    <2>2. CASE r # p
      BY <1>1, <1>4, <1>5, <1>6, <2>1, <2>2 DEF RssInv
    <2>3. CASE r = p
      <3>1. rss'[p] = rss[p] + 1 /\ rss[p] \in Int
        BY <1>1, <1>4
      <3>2. rss[p] <= CountOf(pgdir[p], k)
        BY <2>1, <2>3 DEF RssInv
      <3>3. CountOf(pgdir[p], k) = Cardinality(Resident(pgdir[p])) + 0
        BY <1>2 DEF CountOf
      <3>4. CountOf(pgdir'[p], kernel'[p]) = Cardinality(Resident(new)) + 0
        BY <1>5, <1>6 DEF CountOf
      <3> QED
        BY <1>8, <2>3, <3>1, <3>2, <3>3, <3>4
    <2> QED
      BY <2>2, <2>3
  <1> QED
    BY <1>4, <1>5, <1>9, RssOf

\* exec() counts the pages of the new table, and then counts none of them.
LEMMA ExecKeepsRss ==
  ASSUME ShapeInv, ShapeInv', RssInv, NEW p \in Procs, ExecPage(p) \/ ExecDone(p)
  PROVE  RssInv'
  <1> DEFINE k == kernel[p]
             w == k.page
             e == InRam(k.frame, FALSE)
  <1>1. /\ kernel \in [Procs -> KernelTypes] /\ pgdir \in [Procs -> Tables]
        /\ k \in KernelTypes /\ rss \in [Procs -> Int]
        /\ KernelShape(k) /\ CallShape(p)
    BY DEF ShapeInv, KernelInv, TableInv
  <1>2. k.call = "exec" /\ k.pc = "got" /\ state[p] = "RUNNABLE" /\ state' = state
    BY DEF ExecPage, ExecDone, At, Runs
  <1>3. CountsAreNumbers' /\ CountsAreNumbers
    BY CountFacts, CountFactsNext
  <1>4. /\ NextPage(k).call = "exec" /\ NextPage(k).table = k.table
        /\ NextPage(k).page = w + 1 /\ NextPage(k) \in KernelTypes
    BY <1>1, <1>2, NextPageFacts DEF Calls
  <1>5. ASSUME kernel'[p].call # "fork",
               kernel'[p].call = "exec" => rss'[p] <= kernel'[p].page,
               \A r \in Procs : r # p =>
                 kernel'[r] = kernel[r] /\ pgdir'[r] = pgdir[r] /\ rss'[r] = rss[r],
               rss'[p] <= CountOf(pgdir'[p], kernel'[p])
        PROVE  RssInv'
    <2>1. ASSUME NEW r \in Procs, InUse(r)'
          PROVE  rss'[r] <= CountOf(pgdir'[r], kernel'[r])
      <3>1. CASE r = p
        BY <1>5, <3>1
      <3>2. CASE r # p
        <4>1. InUse(r)
          BY <1>2, <2>1 DEF InUse
        <4> QED
          BY <1>5, <3>2, <4>1 DEF RssInv
      <3> QED
        BY <3>1, <3>2
    <2> QED
      BY <1>2, <1>5, <2>1, RssOf
  <1>6. CASE ExecPage(p) /\ w = -1
    <2> DEFINE k2 == [NextPage(k) EXCEPT !.kpage = k.frame]
    <2>1. /\ kernel' = [kernel EXCEPT ![p] = k2] /\ pgdir' = pgdir
          /\ rss' = [rss EXCEPT ![p] = 0]
      BY <1>6 DEF ExecPage, Enter
    <2>2. k2.call = "exec" /\ k2.page = 0
      BY <1>4, <1>6 DEF KernelTypes
    <2> HIDE DEF k2
    <2>4. rss'[p] = 0 /\ kernel'[p] = k2
      BY <1>1, <2>1
    <2>3. rss'[p] <= CountOf(pgdir'[p], kernel'[p])
      BY <1>1, <1>3, <2>1 DEF CountsAreNumbers
    <2> QED
      BY <1>1, <1>5, <2>1, <2>2, <2>3, <2>4
  <1>7. CASE ExecPage(p) /\ w # -1
    <2> DEFINE new == [k.table EXCEPT ![w] = e]
               k2 == [NextPage(k) EXCEPT !.table[w] = e]
    <2>1. /\ kernel' = [kernel EXCEPT ![p] = k2] /\ pgdir' = pgdir
          /\ rss' = [rss EXCEPT ![p] = @ + 1]
      BY <1>7 DEF ExecPage, Enter
    <2>2. k2.call = "exec" /\ k2.table = new /\ k2.page = w + 1
      BY <1>4 DEF KernelTypes
    <2>3. w \in Pages /\ k.table[w].at # "ram" /\ k.table \in Tables
      <3>1. w \in 0 .. ProgramPages - 1
        BY <1>1, <1>2, <1>7 DEF CallShape
      <3>2. w \in Pages
        BY <3>1, SwapAssumption DEF Pages
      <3>3. BuiltTo(k.table, w)
        BY <1>1, <1>2 DEF CallShape
      <3> QED
        BY <1>1, <3>1, <3>2, <3>3 DEF BuiltTo, Unmapped, KernelTypes
    <2>4. kernel'[p] = k2
      BY <1>1, <2>1
    <2>5. new \in Tables
      <3> HIDE DEF k2, new
      <3> QED
        BY <2>2, <2>4 DEF ShapeInv, KernelInv, KernelTypes
    <2>6. new[w].at = "ram" /\ \A v \in Pages : v # w => new[v] = k.table[v]
      BY <2>3 DEF Tables, InRam
    <2>7. Cardinality(Resident(new)) = Cardinality(Resident(k.table)) + 1
      <3> HIDE DEF new, w, k
      <3> QED
        BY <2>3, <2>5, <2>6, ResidentChanged
    <2> HIDE DEF k2, new
    <2>8. CountOf(pgdir'[p], kernel'[p]) = CountOf(pgdir[p], k) + 1
      <3>1. Cardinality(Resident(k.table)) \in Nat /\ Cardinality(Resident(pgdir[p])) \in Nat
        BY <1>1, <2>3, ResidentFacts
      <3> QED
        BY <1>2, <2>1, <2>2, <2>4, <2>7, <3>1 DEF CountOf
    <2>9. rss'[p] <= CountOf(pgdir'[p], kernel'[p])
      <3>1. rss[p] <= CountOf(pgdir[p], k)
        BY <1>2 DEF RssInv, InUse
      <3>2. rss'[p] = rss[p] + 1
        BY <1>1, <2>1
      <3> QED
        BY <1>3, <2>8, <3>1, <3>2 DEF CountsAreNumbers
    <2>10. rss'[p] <= w + 1
      <3>1. w \in 0 .. ProgramPages - 1
        BY <1>1, <1>2, <1>7 DEF CallShape
      <3>2. rss[p] <= w /\ rss'[p] = rss[p] + 1
        BY <1>1, <1>2, <2>1, <3>1 DEF RssInv
      <3> HIDE DEF w
      <3> QED
        BY <1>1, <3>1, <3>2, SwapAssumption
    <2> HIDE DEF w
    <2> QED
      BY <1>1, <1>5, <2>1, <2>2, <2>4, <2>9, <2>10
  <1>8. CASE ExecDone(p)
    <2> DEFINE table == [k.table EXCEPT ![w] = e]
    <2>1. /\ kernel' = [kernel EXCEPT ![p] = Idle]
          /\ pgdir' = [pgdir EXCEPT ![p] = table]
          /\ rss' = [rss EXCEPT ![p] = Min({0, rss[p] + 1})]
      BY <1>1, <1>8 DEF ExecDone, Return, Enter
    <2>2. Idle.call = "none"
      BY DEF Idle
    <2> DEFINE m == Min({0, rss[p] + 1})
    <2>3. m \in Int /\ m <= 0
      <3>1. rss[p] + 1 \in Int
        BY <1>1
      <3> QED
        BY <3>1, MinMax
    <2> HIDE DEF table, m
    <2>4. rss'[p] <= CountOf(pgdir'[p], kernel'[p])
      <3>1. rss'[p] = m
        BY <1>1, <2>1 DEF m
      <3> QED
        BY <1>3, <2>3, <3>1 DEF CountsAreNumbers
    <2> QED
      BY <1>1, <1>5, <2>1, <2>2, <2>4
  <1> QED
    BY <1>6, <1>7, <1>8

\* fork() counts for the child the pages it has copied.
LEMMA ForkKeepsRss ==
  ASSUME ShapeInv, ShapeInv', RssInv, NEW p \in Procs,
         ForkKernelPage(p) \/ CopyPage(p)
  PROVE  RssInv'
  <1> DEFINE k == kernel[p]
             c == k.child
             w == k.page
             e == InRam(k.frame, k.source.used)
             table == [k.table EXCEPT ![w] = e]
  <1>1. /\ kernel \in [Procs -> KernelTypes] /\ pgdir \in [Procs -> Tables]
        /\ k \in KernelTypes /\ rss \in [Procs -> Int]
        /\ KernelShape(k) /\ CallShape(p) /\ k.table \in Tables
    BY DEF ShapeInv, KernelInv, TableInv, KernelTypes
  <1>2. k.call = "fork" /\ k.pc = "got" /\ state[p] = "RUNNABLE"
    BY DEF ForkKernelPage, CopyPage, At, Runs
  <1>3. c \in Procs /\ state[c] = "EMBRYO" /\ c # p
    BY <1>2 DEF ShapeInv, StackInv
  <1>4. /\ NextPage(k).call = "fork" /\ NextPage(k).table = k.table
        /\ NextPage(k).child = c /\ NextPage(k).page = w + 1
        /\ NextPage(k) \in KernelTypes
    BY <1>1, <1>2, NextPageFacts DEF Calls
  <1>5. CountsAreNumbers' /\ CountsAreNumbers
    BY CountFacts, CountFactsNext
  <1>6. ASSUME kernel'[p].call # "exec", pgdir'[p] = pgdir[p], rss'[p] = rss[p]
        PROVE  rss'[p] <= CountOf(pgdir'[p], kernel'[p])
    <2>1. rss[p] <= CountOf(pgdir[p], k)
      BY <1>2 DEF RssInv, InUse
    <2> QED
      BY <1>2, <1>6, <2>1 DEF CountOf
  <1>7. ASSUME kernel'[p].call # "exec", state'[p] = "RUNNABLE",
               \A r \in Procs : r \notin {p, c} =>
                 kernel'[r] = kernel[r] /\ pgdir'[r] = pgdir[r] /\ rss'[r] = rss[r]
                   /\ state'[r] = state[r],
               pgdir'[p] = pgdir[p], rss'[p] = rss[p], kernel'[c] = kernel[c],
               state'[c] # "EMBRYO" => rss'[c] <= CountOf(pgdir'[c], kernel'[c]),
               kernel'[p].call = "fork" =>
                 kernel'[p].page >= 0 /\ kernel'[p].child = c /\ rss'[c] <= kernel'[p].page
        PROVE  RssInv'
    <2>1. ASSUME NEW r \in Procs, InUse(r)'
          PROVE  rss'[r] <= CountOf(pgdir'[r], kernel'[r])
      <3>1. CASE r = p
        BY <1>6, <1>7, <3>1
      <3>2. CASE r = c
        <4> HIDE DEF c
        <4> QED
          BY <1>7, <2>1, <3>2 DEF InUse
      <3>3. CASE r \notin {p, c}
        <4>1. InUse(r)
          BY <1>7, <2>1, <3>3 DEF InUse
        <4> QED
          BY <1>7, <3>3, <4>1 DEF RssInv
      <3> QED
        BY <3>1, <3>2, <3>3
    <2>2. \A r \in Procs : r # p => kernel'[r] = kernel[r]
      BY <1>7
    <2> QED
      BY <1>2, <1>7, <2>1, <2>2, RssOf
  <1>8. CASE ForkKernelPage(p)
    <2> DEFINE k2 == [NextPage(k) EXCEPT !.kpage = k.frame, !.pc = "copy"]
    <2>1. /\ kernel' = [kernel EXCEPT ![p] = k2] /\ pgdir' = pgdir /\ state' = state
          /\ rss' = [rss EXCEPT ![c] = 0] /\ w = -1
      BY <1>8 DEF ForkKernelPage, Enter
    <2>2. k2.call = "fork" /\ k2.child = c /\ k2.page = 0
      BY <1>4, <2>1 DEF KernelTypes
    <2> HIDE DEF k2, c
    <2>3. /\ kernel'[p] = k2 /\ \A r \in Procs : r # p => kernel'[r] = kernel[r]
          /\ rss'[c] = 0 /\ \A r \in Procs : r # c => rss'[r] = rss[r]
      BY <1>1, <1>3, <2>1
    <2>4. state'[c] = "EMBRYO"
      BY <1>3, <2>1
    <2> QED
      BY <1>2, <1>3, <1>7, <2>1, <2>2, <2>3, <2>4
  <1>9. CASE CopyPage(p)
    <2>1. /\ w \in Pages /\ w \in Nat /\ sz[p] \in Nat /\ sz[p] <= MaxPages
          /\ w <= sz[p] - 1 /\ BuiltTo(k.table, w) /\ rss[c] <= w
      <3>1. w >= 0 /\ w \in -1 .. sz[p] - 1 /\ BuiltTo(k.table, w)
        BY <1>1, <1>2, <1>9 DEF CopyPage, CallShape
      <3>2. sz[p] \in 0 .. MaxPages /\ MaxPages \in Nat
        BY SwapAssumption DEF ShapeInv, TableInv
      <3>3. rss[c] <= w
        BY <1>2, <3>1 DEF RssInv
      <3> QED
        BY <3>1, <3>2, <3>3 DEF Pages
    <2>2. rss' = [rss EXCEPT ![c] = @ + 1]
      BY <1>9 DEF CopyPage
    <2>3. rss'[c] <= w + 1 /\ \A r \in Procs : r # c => rss'[r] = rss[r]
      <3> HIDE DEF c, w
      <3> QED
        BY <1>1, <1>3, <2>1, <2>2
    <2>4. CASE w + 1 < sz[p]
      <3> DEFINE k2 == [NextPage(k) EXCEPT !.pc = "copy", !.table = table]
      <3>1. kernel' = [kernel EXCEPT ![p] = k2] /\ UNCHANGED <<state, pgdir>>
        BY <1>9, <2>4 DEF CopyPage, Enter
      <3>2. k2.call = "fork" /\ k2.child = c /\ k2.page = w + 1
        BY <1>4 DEF KernelTypes
      <3> HIDE DEF k2, c, w
      <3>3. kernel'[p] = k2 /\ \A r \in Procs : r # p => kernel'[r] = kernel[r]
        BY <1>1, <3>1
      <3>4. state'[c] = "EMBRYO"
        BY <1>3, <3>1
      <3> QED
        BY <1>2, <1>3, <1>7, <2>1, <2>3, <3>1, <3>2, <3>3, <3>4
    <2>5. CASE ~ (w + 1 < sz[p])
      <3> DEFINE k2 == [Idle EXCEPT !.pc = "wait", !.child = c]
      <3>1. /\ kernel' = [kernel EXCEPT ![p] = k2]
            /\ pgdir' = [pgdir EXCEPT ![c] = table]
            /\ state' = [state EXCEPT ![c] = "RUNNABLE"]
        BY <1>9, <2>5 DEF CopyPage, Enter
      <3>2. k2.call = "none"
        BY DEF Idle
      <3>3. e.at = "ram" /\ e \in Entries
        <4>1. k.frame \in Frames /\ k.source \in Entries /\ k.source.at = "ram"
          BY <1>1, <1>2, <1>9 DEF KernelShape, CallShape, KernelTypes, CopyPage
        <4> QED
          BY <4>1, EntryFacts DEF InRam
      <3>4. table \in Tables /\ BuiltTo(table, w + 1)
        <4> HIDE DEF e, w
        <4> QED
          BY <1>1, <2>1, <3>3, BuiltFacts DEF Tables
      <3>5. Cardinality(Resident(table)) = w + 1
        <4> HIDE DEF table, w
        <4>1. w + 1 \in Nat /\ w + 1 <= MaxPages
          BY <2>1, SwapAssumption
        <4>2. ASSUME NEW u, u = w + 1 PROVE Cardinality(Resident(table)) = u
          BY <3>4, <4>1, <4>2, BuiltCount
        <4> QED
          BY <4>2
      <3> HIDE DEF k2, c, w, table
      <3>6. /\ kernel'[p] = k2 /\ \A r \in Procs : r # p => kernel'[r] = kernel[r]
            /\ pgdir'[c] = table /\ \A r \in Procs : r # c => pgdir'[r] = pgdir[r]
            /\ \A r \in Procs : r # c => state'[r] = state[r]
        BY <1>1, <1>3, <3>1 DEF ShapeInv, StackInv
      <3>7. rss'[c] <= CountOf(pgdir'[c], kernel'[c])
        <4>1. kernel[c].call = "none"
          <5>1. kernel[c] = Idle
            BY <1>3 DEF ShapeInv, StackInv
          <5> QED
            BY <5>1 DEF Idle
        <4>2. CountOf(pgdir'[c], kernel'[c]) = (w + 1) + 0
          BY <1>3, <3>5, <3>6, <4>1 DEF CountOf
        <4> QED
          BY <2>1, <2>3, <4>2
      <3> QED
        BY <1>2, <1>3, <1>7, <2>3, <3>2, <3>6, <3>7
    <2> QED
      BY <2>4, <2>5
  <1> QED
    BY <1>8, <1>9

\* deallocuvm() lowers rss by at least what it frees, or to zero.
LEMMA ShrinkKeepsRss ==
  ASSUME ShapeInv, ShapeInv', RssInv, NEW p \in Procs, NEW n \in 1 .. MaxPages,
         Shrink(p, n)
  PROVE  RssInv'
  <1> DEFINE old == pgdir[p]
             gone == {v \in Resident(old) : v >= n}
             new == [v \in Pages |-> IF v \in gone THEN Unmapped ELSE old[v]]
             r == rss[p]
             m == sz[p] - n
  <1>1. /\ pgdir \in [Procs -> Tables] /\ old \in Tables /\ rss \in [Procs -> Int]
        /\ sz[p] \in 0 .. MaxPages /\ n \in 1 .. sz[p] - 1 /\ MaxPages \in Nat
    BY SwapAssumption DEF ShapeInv, KernelInv, TableInv, Shrink
  <1>2. /\ pgdir' = [pgdir EXCEPT ![p] = new] /\ state' = state /\ kernel' = kernel
        /\ rss' = [rss EXCEPT ![p] = RssLowered(r, m)]
    BY <1>1 DEF Shrink
  <1>3. state[p] = "RUNNABLE" /\ kernel[p] = Idle /\ kernel[p].pc = "user"
        /\ kernel[p].call = "none" /\ Extent(p) = sz[p]
    BY AtUserFacts DEF Shrink
  <1>4. gone \subseteq n .. sz[p] - 1
    <2> SUFFICES ASSUME NEW v \in gone PROVE v \in n .. sz[p] - 1
      OBVIOUS
    <2>1. v \in Pages /\ v \in Int /\ v >= n /\ old[v].at = "ram"
      BY Numbers DEF Resident
    <2>2. ~ (v >= sz[p])
      BY <1>3, <2>1 DEF ShapeInv, TableInv
    <2> QED
      BY <1>1, <2>1, <2>2
  <1>5. IsFiniteSet(gone) /\ Cardinality(gone) \in Nat /\ Cardinality(gone) <= m
    <2>1. IsFiniteSet(n .. sz[p] - 1) /\ Cardinality(n .. sz[p] - 1) = m
      <3>1. ASSUME NEW a \in Int, NEW b \in Int, a <= b
            PROVE  IsFiniteSet(a .. b) /\ Cardinality(a .. b) = b - a + 1
        BY <3>1, FS_Interval
      <3>2. n \in Int /\ sz[p] - 1 \in Int /\ n <= sz[p] - 1
        BY <1>1
      <3>3. IsFiniteSet(n .. sz[p] - 1)
            /\ Cardinality(n .. sz[p] - 1) = (sz[p] - 1) - n + 1
        BY <3>1, <3>2
      <3> QED
        BY <1>1, <3>3
    <2> HIDE DEF gone
    <2> QED
      BY <1>4, <2>1, FS_Subset, FS_CardinalityType
  <1>6. Resident(new) = Resident(old) \ gone /\ gone \subseteq Resident(old)
    BY DEF Resident, Unmapped
  <1>7. new \in Tables
    BY <1>1, EntryFacts DEF Tables
  <1>8. Cardinality(Resident(old)) = Cardinality(Resident(new)) + Cardinality(gone)
    <2> HIDE DEF gone, new, old
    <2>1. IsFiniteSet(Resident(old)) /\ IsFiniteSet(Resident(new))
          /\ Cardinality(Resident(new)) \in Nat
      BY <1>1, <1>7, ResidentFacts
    <2>2. Resident(new) \cup gone = Resident(old) /\ Resident(new) \cap gone = {}
      BY <1>6
    <2>3. Cardinality(Resident(new) \cap gone) = 0
      BY <2>2, FS_EmptySet, Zenon
    <2>4. Cardinality(Resident(new) \cup gone) =
            Cardinality(Resident(new)) + Cardinality(gone) - Cardinality(Resident(new) \cap gone)
      BY <1>5, <2>1, FS_Union
    <2>5. Cardinality(Resident(old)) =
            Cardinality(Resident(new)) + Cardinality(gone) - Cardinality(Resident(new) \cap gone)
      BY <2>2, <2>4
    <2> QED
      BY <1>5, <2>1, <2>3, <2>5
  <1> HIDE DEF gone, new, old, m
  <1>9. Cardinality(Resident(new)) \in Nat /\ Cardinality(Resident(old)) \in Nat
    BY <1>1, <1>7, ResidentFacts
  <1>10. r \in Int /\ r <= Cardinality(Resident(old)) + 0
    BY <1>1, <1>3 DEF RssInv, CountOf, InUse, old
  <1>11. RssLowered(r, m) <= Cardinality(Resident(new))
    <2>1. m \in Int
      BY <1>1 DEF m
    <2>2. CASE r > 0
      <3>1. r - m \in Int
        BY <1>10, <2>1
      <3>2. Max({0, r - m}) \in {0, r - m}
        <4> HIDE DEF r, m
        <4>1. \A x \in Int : Max({0, x}) \in {0, x}
          BY MinMax
        <4> QED
          BY <3>1, <4>1
      <3>3. RssLowered(r, m) \in {0, r - m}
        BY <2>2, <3>2 DEF RssLowered
      <3> HIDE DEF r
      <3> QED
        BY <1>5, <1>8, <1>9, <1>10, <2>1, <3>3
    <2>3. CASE ~ (r > 0)
      BY <1>9, <1>10, <2>3 DEF RssLowered
    <2> QED
      BY <2>2, <2>3
  <1>12. ASSUME NEW q \in Procs, InUse(q)'
         PROVE  rss'[q] <= CountOf(pgdir'[q], kernel'[q])
    <2>1. CASE q # p
      <3>1. InUse(q)
        BY <1>2, <1>12 DEF InUse
      <3> QED
        BY <1>1, <1>2, <2>1, <3>1 DEF RssInv
    <2>2. CASE q = p
      <3>1. CountOf(pgdir'[p], kernel'[p]) = Cardinality(Resident(new)) + 0
        BY <1>1, <1>2, <1>3 DEF CountOf
      <3>2. rss'[p] = RssLowered(r, m)
        BY <1>1, <1>2
      <3> QED
        BY <1>9, <1>11, <2>2, <3>1, <3>2
    <2> QED
      BY <2>1, <2>2
  <1> QED
    BY <1>2, <1>3, <1>12, RssOf

\* A child that is gone is in use no more.
LEMMA WaitKeepsRss ==
  ASSUME ShapeInv, ShapeInv', RssInv, NEW p \in Procs, Wait(p)
  PROVE  RssInv'
  <1> DEFINE c == p + 1
  <1>1. /\ kernel \in [Procs -> KernelTypes] /\ pgdir \in [Procs -> Tables]
        /\ state \in [Procs -> {"UNUSED", "EMBRYO", "RUNNABLE", "ZOMBIE"}]
    BY DEF ShapeInv, KernelInv, StackInv
  <1>2. /\ kernel[p] = Waiting(c) /\ kernel[p].child = c /\ c \in Procs
        /\ \A q \in Procs : kernel[q].call = "none" /\ kernel[q].table = NoPages
    BY Reaping DEF Wait, ShapeInv
  <1>3. /\ pgdir' = [pgdir EXCEPT ![c] = NoPages]
        /\ state' = [state EXCEPT ![c] = "UNUSED"]
        /\ kernel' = [kernel EXCEPT ![p] = Idle] /\ rss' = rss
    BY <1>2 DEF Wait, Return, Enter
  <1>4. Idle.call = "none" /\ Idle.table = NoPages
    BY DEF Idle
  <1> HIDE DEF c
  <1>5. \A q \in Procs : kernel'[q].call = "none" /\ kernel'[q].table = NoPages
    BY <1>1, <1>2, <1>3, <1>4
  <1>6. ASSUME NEW q \in Procs, InUse(q)'
        PROVE  rss'[q] <= CountOf(pgdir'[q], kernel'[q])
    <2>1. q # c /\ InUse(q)
      BY <1>1, <1>2, <1>3, <1>6 DEF InUse
    <2>2. pgdir'[q] = pgdir[q]
      BY <1>1, <1>3, <2>1
    <2>3. kernel'[q].call = kernel[q].call /\ kernel'[q].table = kernel[q].table
      BY <1>2, <1>5
    <2> QED
      BY <1>3, <2>1, <2>2, <2>3, RssOthers
  <1> QED
    BY <1>5, <1>6 DEF RssInv

\* rss counts no page that is not resident in the table it counts, whatever
\* fork(), exec() and swap_out() have done.  A victim picked for a positive rss
\* thus has a page to give, unless fork() or exec() is building an image for it:
\* a child of fork() is not in use yet, and what exec() counts is not where the
\* victim page is looked for.
THEOREM RssIsBounded == Spec => []RssNeverTooHigh
  <1>1. ASSUME Init PROVE RssInv
    <2>1. ShapeInv
      BY <1>1, ShapeInit
    <2>2. CountsAreNumbers
      BY <2>1, CountFacts
    <2>3. \A q \in Procs : rss[q] = 0 /\ kernel[q].call = "none"
      BY <1>1 DEF Init, Idle
    <2> QED
      BY <2>2, <2>3 DEF RssInv, CountsAreNumbers
  <1>2. ASSUME ShapeInv, ShapeInv', RssInv, [Next]_vars PROVE RssInv'
    <2>1. CASE UNCHANGED vars
      BY <1>2, <2>1 DEF vars, RssInv, CountOf, InUse
    <2>2. CASE Next
      <3>1. PICK p \in Procs : Kernel(p) \/ User(p)
        BY <2>2 DEF Next
      <3> QED
        BY <1>2, <3>1, KallocKeepsRss, CallKeepsRss, SwapOutDoneKeepsRss, PageKeepsRss,
           ExecKeepsRss, ForkKeepsRss, ShrinkKeepsRss, WaitKeepsRss DEF Kernel, User
    <2> QED
      BY <1>2, <2>1, <2>2
  <1>3. ASSUME ShapeInv, RssInv PROVE RssNeverTooHigh
    <2> SUFFICES ASSUME NEW p \in Procs, InUse(p)
                 PROVE  rss[p] <= Cardinality(Resident(CountedTable(p)))
      BY DEF RssNeverTooHigh
    <2> DEFINE k == kernel[p]
    <2>1. /\ pgdir[p] \in Tables /\ k.table \in Tables /\ rss[p] \in Int
          /\ CallShape(p)
      BY <1>3 DEF ShapeInv, KernelInv, KernelTypes, TableInv
    <2>2. /\ Cardinality(Resident(pgdir[p])) \in Nat
          /\ Cardinality(Resident(NoPages)) = 0
      BY <2>1, ResidentFacts
    <2>3. rss[p] <= CountOf(pgdir[p], k)
      BY <1>3 DEF RssInv
    <2>4. CASE k.call = "exec" /\ k.page >= 0
      <3>1. /\ k.page \in Nat /\ k.page <= MaxPages /\ BuiltTo(k.table, k.page)
            /\ rss[p] <= k.page
        BY <1>3, <2>1, <2>4, SwapAssumption DEF CallShape, RssInv
      <3>2. Cardinality(Resident(k.table)) = k.page
        BY <2>1, <3>1, BuiltCount
      <3> QED
        BY <2>4, <3>1, <3>2 DEF CountedTable
    <2>5. CASE k.call = "exec" /\ ~ (k.page >= 0)
      <3>1. k.page = -1 /\ BuiltTo(k.table, -1)
        BY <2>1, <2>5, SwapAssumption DEF CallShape
      <3>2. \A v \in Pages : v >= 0 /\ v \in Int
        BY SwapAssumption DEF Pages
      <3>3. Resident(k.table) = {}
        BY <3>1, <3>2 DEF BuiltTo, Resident, Unmapped
      <3>4. Cardinality(Resident(k.table)) = 0
        BY <3>3, FS_EmptySet
      <3> QED
        BY <2>1, <2>2, <2>3, <2>5, <3>4 DEF CountOf, CountedTable
    <2>6. CASE k.call # "exec"
      BY <2>1, <2>2, <2>3, <2>6 DEF CountOf, CountedTable
    <2> QED
      BY <2>4, <2>5, <2>6
  <1> QED
    BY <1>1, <1>2, <1>3, ShapeHolds, PTL DEF Spec

-----------------------------------------------------------------------------
(* What the pages hold *)

\* A page is mapped and holds what its process stored there last.
Holds(p, v) ==
  /\ pgdir[p][v].at # "none"
  /\ ~overrun => Held(p, v) = stored[p][v]

\* exec() has cleared the pages it has built.
ExecZero(p) ==
  kernel[p].call = "exec" =>
    \A v \in Pages : v < kernel[p].page => data[kernel[p].table[v].n] = 0

\* What is written has arrived before the entry changes, and what was read is
\* there before the page is mapped.
InFlight(p) ==
  ~overrun =>
    /\ kernel[p].pc = "writing" =>
         disk[kernel[p].slot] = data[pgdir[kernel[p].victim][kernel[p].vpage].n]
    /\ kernel[p].pc = "read" => data[kernel[p].frame] = disk[kernel[p].slot]

ContentTypes ==
  /\ stored \in [Procs -> [Pages -> Contents]]
  /\ overrun \in BOOLEAN

\* Every page of a program holds what was stored, in memory, on the disk, or on
\* its way from the one to the other.
ContentInv ==
  /\ ContentTypes
  /\ \A p \in Procs : ExecZero(p) /\ InFlight(p)
  /\ \A p \in Procs : \A v \in Pages :
       state[p] = "RUNNABLE" /\ v < Extent(p) => Holds(p, v)

\* All that the other invariants say.
BaseInv == ShapeInv /\ FrameInv /\ DataInv /\ SlotInv

\* The frames of two places differ.
LEMMA Apart ==
  ASSUME BaseInv, NEW q \in Procs, NEW r \in Procs, NEW v \in Pages, NEW w \in Pages
  PROVE  /\ pgdir[q][v].at = "ram" =>
              /\ pgdir[q][v].n \in Frames
              /\ pgdir[r][w].at = "ram" /\ pgdir[r][w].n = pgdir[q][v].n => r = q /\ w = v
              /\ pgdir[q][v].n # kernel[r].frame
              /\ pgdir[q][v].n # kpage[r]
              /\ kernel[r].table[w].at = "ram" => pgdir[q][v].n # kernel[r].table[w].n
         /\ kernel[q].table[v].at = "ram" =>
              /\ kernel[q].table[v].n \in Frames
              /\ kernel[q].table[v].n # kernel[r].frame
              /\ kernel[q].table[v].n # kpage[r]
         /\ kernel[q].frame \in Frames => kernel[q].frame # kpage[r]
  <1> DEFINE H == Holding
  <1>1. pgdir[q][v] \in Entries /\ kernel[q].table[v] \in Entries
        /\ pgdir[r][w] \in Entries /\ kernel[r].table[w] \in Entries
    BY DEF BaseInv, ShapeInv, KernelInv, KernelTypes, Tables
  <1>2. /\ H[<<"page", q, v>>] = FrameOf(pgdir[q][v])
        /\ H[<<"table", q, v>>] = FrameOf(kernel[q].table[v])
        /\ H[<<"page", r, w>>] = FrameOf(pgdir[r][w])
        /\ H[<<"table", r, w>>] = FrameOf(kernel[r].table[w])
    BY HoldingAt DEF BaseInv
  <1>3. /\ H[<<"frame", q, 0>>] = kernel[q].frame
        /\ H[<<"frame", r, 0>>] = kernel[r].frame
        /\ H[<<"kpage", r, 0>>] = kpage[r]
    BY HoldingAt, Numbers DEF BaseInv
  <1>4. \A x, y \in Places : H[x] = H[y] /\ H[x] # NoFrame => x = y
    BY DEF BaseInv, FrameInv, Shared
  <1>5. /\ <<"page", q, v>> \in Places /\ <<"table", q, v>> \in Places
        /\ <<"page", r, w>> \in Places /\ <<"table", r, w>> \in Places
        /\ <<"frame", q, 0>> \in Places /\ <<"frame", r, 0>> \in Places
        /\ <<"kpage", r, 0>> \in Places
    BY PlaceFacts, Numbers
  <1> HIDE DEF H
  <1>6. ASSUME pgdir[q][v].at = "ram"
        PROVE  /\ pgdir[q][v].n \in Frames
               /\ pgdir[r][w].at = "ram" /\ pgdir[r][w].n = pgdir[q][v].n => r = q /\ w = v
               /\ pgdir[q][v].n # kernel[r].frame
               /\ pgdir[q][v].n # kpage[r]
               /\ kernel[r].table[w].at = "ram" => pgdir[q][v].n # kernel[r].table[w].n
    <2>1. pgdir[q][v].n \in Frames /\ FrameOf(pgdir[q][v]) = pgdir[q][v].n
      BY <1>1, <1>6, EntryFacts DEF FrameOf
    <2>2. pgdir[q][v].n # NoFrame
      BY <2>1, Numbers
    <2>3. /\ <<"page", q, v>> # <<"frame", r, 0>> /\ <<"page", q, v>> # <<"kpage", r, 0>>
          /\ <<"page", q, v>> # <<"table", r, w>>
      OBVIOUS
    <2>4. ASSUME pgdir[r][w].at = "ram", pgdir[r][w].n = pgdir[q][v].n PROVE r = q /\ w = v
      <3>1. H[<<"page", r, w>>] = H[<<"page", q, v>>]
        BY <1>2, <2>1, <2>4 DEF FrameOf
      <3>2. <<"page", r, w>> = <<"page", q, v>>
        BY <1>2, <1>4, <1>5, <2>1, <2>2, <3>1
      <3> QED
        BY <3>2
    <2>5. pgdir[q][v].n # kernel[r].frame /\ pgdir[q][v].n # kpage[r]
      BY <1>2, <1>3, <1>4, <1>5, <2>1, <2>2, <2>3
    <2>6. kernel[r].table[w].at = "ram" => pgdir[q][v].n # kernel[r].table[w].n
      BY <1>2, <1>4, <1>5, <2>1, <2>2, <2>3 DEF FrameOf
    <2> QED
      BY <2>1, <2>4, <2>5, <2>6
  <1>7. ASSUME kernel[q].table[v].at = "ram"
        PROVE  /\ kernel[q].table[v].n \in Frames
               /\ kernel[q].table[v].n # kernel[r].frame
               /\ kernel[q].table[v].n # kpage[r]
    <2>1. kernel[q].table[v].n \in Frames
          /\ FrameOf(kernel[q].table[v]) = kernel[q].table[v].n
      BY <1>1, <1>7, EntryFacts DEF FrameOf
    <2>2. kernel[q].table[v].n # NoFrame
      BY <2>1, Numbers
    <2>3. /\ <<"table", q, v>> # <<"frame", r, 0>> /\ <<"table", q, v>> # <<"kpage", r, 0>>
      OBVIOUS
    <2> QED
      BY <1>2, <1>3, <1>4, <1>5, <2>1, <2>2, <2>3
  <1>8. ASSUME kernel[q].frame \in Frames PROVE kernel[q].frame # kpage[r]
    <2>1. <<"frame", q, 0>> # <<"kpage", r, 0>> /\ kernel[q].frame # NoFrame
      BY <1>8, Numbers
    <2> QED
      BY <1>3, <1>4, <1>5, <2>1
  <1> QED
    BY <1>6, <1>7, <1>8

\* A page whose entry and contents stay holds what it held.
LEMMA HoldsSame ==
  ASSUME ShapeInv, NEW q \in Procs, NEW v \in Pages, Holds(q, v),
         ~overrun' => ~overrun,
         pgdir'[q][v].at = pgdir[q][v].at, pgdir'[q][v].n = pgdir[q][v].n,
         stored'[q][v] = stored[q][v],
         pgdir[q][v].at = "ram" => data'[pgdir[q][v].n] = data[pgdir[q][v].n],
         pgdir[q][v].at = "swap" /\ ~overrun' => disk'[pgdir[q][v].n] = disk[pgdir[q][v].n]
  PROVE  Holds(q, v)'
  <1>1. pgdir[q][v].at \in {"none", "ram", "swap"}
    BY EntryFacts DEF ShapeInv, KernelInv, Tables
  <1> QED
    BY <1>1 DEF Holds, Held

\* The process that takes the step is the only one in a call.
LEMMA ContentOf ==
  ASSUME ShapeInv, NEW p \in Procs, state[p] = "RUNNABLE", kernel[p].pc # "wait",
         \A q \in Procs : q # p => kernel'[q] = kernel[q],
         ContentTypes', ExecZero(p)', InFlight(p)',
         \A q \in Procs : \A v \in Pages :
           state'[q] = "RUNNABLE" /\ v < Extent(q)' => Holds(q, v)'
  PROVE  ContentInv'
  <1>1. \A q \in Procs : q # p =>
          kernel'[q].call = "none" /\ kernel'[q].pc \in {"user", "wait"}
    BY Alone DEF ShapeInv
  <1>2. \A q \in Procs : ExecZero(q)' /\ InFlight(q)'
    BY <1>1 DEF ExecZero, InFlight
  <1> QED
    BY <1>2 DEF ContentInv

\* The extent of a process whose size stays, and that does not grow.
LEMMA ExtentSame ==
  ASSUME NEW q \in Procs, sz'[q] = sz[q],
         \/ kernel'[q] = kernel[q]
         \/ kernel'[q].call = kernel[q].call /\ kernel'[q].page = kernel[q].page
         \/ kernel'[q].call # "sbrk" /\ kernel[q].call # "sbrk"
  PROVE  Extent(q)' = Extent(q)
  BY DEF Extent

\* A step that touches no page, no slot and no content.
LEMMA ContentQuiet ==
  ASSUME BaseInv, ContentInv, NEW p \in Procs, state[p] = "RUNNABLE",
         kernel[p].pc # "wait",
         \A q \in Procs : q # p => kernel'[q] = kernel[q],
         UNCHANGED <<data, disk, pgdir, stored, overrun>>,
         \A q \in Procs : state'[q] = "RUNNABLE" =>
           state[q] = "RUNNABLE" /\ Extent(q)' = Extent(q),
         kernel'[p].pc \notin {"writing", "read"},
         kernel'[p].call = "exec" =>
           \/ kernel'[p].page \in {-1, 0}
           \/ kernel[p].call = "exec" /\ kernel'[p].page = kernel[p].page
                /\ kernel'[p].table = kernel[p].table
  PROVE  ContentInv'
  <1>1. ContentTypes' /\ InFlight(p)'
    BY DEF ContentInv, ContentTypes, InFlight
  <1>2. ExecZero(p)'
    BY Numbers DEF ContentInv, ExecZero
  <1>3. ASSUME NEW q \in Procs, NEW v \in Pages, state'[q] = "RUNNABLE", v < Extent(q)'
        PROVE  Holds(q, v)'
    <2>1. Holds(q, v)
      BY <1>3 DEF ContentInv
    <2> QED
      BY <2>1, HoldsSame DEF BaseInv
  <1> QED
    BY <1>1, <1>2, <1>3, ContentOf DEF BaseInv

\* kalloc() up to swap_out(), and the calls up to their first kalloc().
LEMMA QuietKeepsContent ==
  ASSUME BaseInv, ContentInv, NEW p \in Procs,
         \/ KallocTakes(p) \/ KallocFindsNone(p) \/ CopyLooks(p) \/ ForkKernelPage(p)
         \/ \E n \in 1 .. MaxPages : Sbrk(p, n)
         \/ \E v \in Pages : Fault(p, v)
         \/ Fork(p) \/ Exec(p)
  PROVE  ContentInv'
  <1> DEFINE k == kernel[p]
  <1>1. /\ kernel \in [Procs -> KernelTypes] /\ pgdir \in [Procs -> Tables]
        /\ k \in KernelTypes /\ ShapeInv /\ KernelShape(k)
        /\ state \in [Procs -> {"UNUSED", "EMBRYO", "RUNNABLE", "ZOMBIE"}]
    BY DEF BaseInv, ShapeInv, KernelInv, StackInv
  <1>2. state[p] = "RUNNABLE" /\ k.pc # "wait"
    BY DEF KallocTakes, KallocFindsNone, CopyLooks, ForkKernelPage, Sbrk, Fault,
           Fork, Exec, At, AtUser, Runs
  <1>3. UNCHANGED <<data, disk, pgdir, stored, overrun, sz>>
    BY DEF KallocTakes, KallocFindsNone, CopyLooks, ForkKernelPage, Sbrk, Fault,
           Fork, Exec, Panic, memory, swap, procs, history
  <1>4. ASSUME state' = state, UNCHANGED kernel PROVE ContentInv'
    <2>1. \A q \in Procs : \A v \in Pages : Holds(q, v)' <=> Holds(q, v)
      BY <1>3, <1>4 DEF Holds, Held
    <2>2. \A q \in Procs : Extent(q)' = Extent(q)
      BY <1>3, <1>4 DEF Extent
    <2>3. \A q \in Procs : ExecZero(q)' /\ InFlight(q)'
      BY <1>3, <1>4 DEF ContentInv, ExecZero, InFlight
    <2> QED
      BY <1>3, <1>4, <2>1, <2>2, <2>3 DEF ContentInv, ContentTypes
  <1>5. ASSUME NEW k2, kernel' = [kernel EXCEPT ![p] = k2],
               k2.pc \notin {"writing", "read"},
               \A q \in Procs : state'[q] = "RUNNABLE" => state[q] = "RUNNABLE",
               \/ k2.call = k.call /\ k2.page = k.page
               \/ k2.call = "sbrk" /\ k2.page = sz[p] /\ k.call # "sbrk"
               \/ k2.call # "sbrk" /\ k.call # "sbrk",
               k2.call = "exec" =>
                 \/ k2.page \in {-1, 0}
                 \/ k.call = "exec" /\ k2.page = k.page /\ k2.table = k.table
        PROVE  ContentInv'
    <2>1. kernel'[p] = k2 /\ \A q \in Procs : q # p => kernel'[q] = kernel[q]
      BY <1>1, <1>5
    <2>2. ASSUME NEW q \in Procs PROVE Extent(q)' = Extent(q)
      <3>1. CASE q = p
        BY <1>3, <1>5, <2>1, <3>1 DEF Extent
      <3>2. CASE q # p
        BY <1>3, <2>1, <3>2 DEF Extent
      <3> QED
        BY <3>1, <3>2
    <2> QED
      BY <1>2, <1>3, <1>5, <2>1, <2>2, ContentQuiet
  <1>6. CASE KallocTakes(p)
    <2>1. /\ \A q \in Procs : q # p => kernel'[q] = kernel[q]
          /\ kernel'[p].call = k.call /\ kernel'[p].table = k.table
          /\ kernel'[p].page = k.page /\ kernel'[p].pc \in {"adaptive", "got"}
      BY <1>1, <1>6 DEF KallocTakes, KernelTypes
    <2>2. state' = state
      BY <1>6 DEF KallocTakes, procs
    <2>3. ASSUME NEW q \in Procs PROVE Extent(q)' = Extent(q)
      BY <1>3, <2>1 DEF Extent
    <2> QED
      BY <1>2, <1>3, <2>1, <2>2, <2>3, ContentQuiet
  <1>7. CASE KallocFindsNone(p)
    <2>1. CASE k.pc = "again"
      BY <1>4, <1>7, <2>1 DEF KallocFindsNone, Panic, procs
    <2>2. CASE k.pc # "again"
      <3> DEFINE k2 == [k EXCEPT !.pc = "emergency", !.left = 1, !.after = "again"]
      <3>1. kernel' = [kernel EXCEPT ![p] = k2] /\ state' = state
        BY <1>1, <1>7, <2>2 DEF KallocFindsNone, procs
      <3>2. /\ k2.table = k.table /\ k2.call = k.call /\ k2.page = k.page
            /\ k2.pc = "emergency"
        BY <1>1 DEF KernelTypes
      <3> HIDE DEF k2
      <3> QED
        BY <1>5, <3>1, <3>2
    <2> QED
      BY <2>1, <2>2
  <1>8. CASE CopyLooks(p)
    <2>1. CASE pgdir[p][k.page].at # "ram"
      BY <1>4, <1>8, <2>1 DEF CopyLooks, Panic, procs
    <2>2. CASE pgdir[p][k.page].at = "ram"
      <3> DEFINE k2 == [k EXCEPT !.pc = "kalloc", !.source = pgdir[p][k.page]]
      <3>1. kernel' = [kernel EXCEPT ![p] = k2] /\ state' = state
        BY <1>8, <2>2 DEF CopyLooks, Enter, procs
      <3>2. /\ k2.table = k.table /\ k2.call = k.call /\ k2.page = k.page
            /\ k2.pc = "kalloc"
        BY <1>1 DEF KernelTypes
      <3> HIDE DEF k2
      <3> QED
        BY <1>5, <3>1, <3>2
    <2> QED
      BY <2>1, <2>2
  <1>9. CASE ForkKernelPage(p)
    <2> DEFINE k2 == [NextPage(k) EXCEPT !.kpage = k.frame, !.pc = "copy"]
    <2>1. kernel' = [kernel EXCEPT ![p] = k2] /\ state' = state
          /\ k.call = "fork" /\ k.pc = "got"
      BY <1>9 DEF ForkKernelPage, Enter, At
    <2>2. k2.call = "fork" /\ k2.pc = "copy"
      <3>1. NextPage(k).call = "fork" /\ NextPage(k) \in KernelTypes
        BY <1>1, <2>1, NextPageFacts DEF Calls
      <3> QED
        BY <3>1 DEF KernelTypes
    <2> HIDE DEF k2
    <2> QED
      BY <1>5, <2>1, <2>2
  <1>10. ASSUME AtUser(p) PROVE k.call = "none"
    BY <1>1, <1>10, AtUserFacts
  <1>11. CASE \E n \in 1 .. MaxPages : Sbrk(p, n)
    <2>1. PICK n \in 1 .. MaxPages : Sbrk(p, n)
      BY <1>11
    <2> DEFINE k2 == [Idle EXCEPT !.pc = "kalloc", !.call = "sbrk", !.page = sz[p],
                                  !.goal = n]
    <2>2. kernel' = [kernel EXCEPT ![p] = k2] /\ state' = state /\ AtUser(p)
      BY <2>1 DEF Sbrk, Enter, procs
    <2>3. k2.call = "sbrk" /\ k2.page = sz[p] /\ k2.pc = "kalloc"
      BY DEF Idle
    <2> HIDE DEF k2
    <2> QED
      BY <1>5, <1>10, <2>2, <2>3
  <1>12. CASE \E v \in Pages : Fault(p, v)
    <2>1. PICK v \in Pages : Fault(p, v)
      BY <1>12
    <2> DEFINE k2 == [Idle EXCEPT !.pc = "kalloc", !.call = "fault", !.page = v]
    <2>2. kernel' = [kernel EXCEPT ![p] = k2] /\ state' = state /\ AtUser(p)
      BY <2>1 DEF Fault, Enter, procs
    <2>3. k2.call = "fault" /\ k2.pc = "kalloc"
      BY DEF Idle
    <2> HIDE DEF k2
    <2> QED
      BY <1>5, <1>10, <2>2, <2>3
  <1>13. CASE Exec(p)
    <2> DEFINE k2 == [Idle EXCEPT !.pc = "kalloc", !.call = "exec", !.page = -1]
    <2>2. kernel' = [kernel EXCEPT ![p] = k2] /\ state' = state /\ AtUser(p)
      BY <1>13 DEF Exec, Enter, procs
    <2>3. k2.call = "exec" /\ k2.page = -1 /\ k2.pc = "kalloc"
      BY DEF Idle
    <2> HIDE DEF k2
    <2> QED
      BY <1>5, <1>10, <2>2, <2>3
  <1>14. CASE Fork(p)
    <2>1. PICK c \in Procs :
            /\ Enter(p, [Idle EXCEPT !.pc = "kalloc", !.call = "fork",
                                     !.page = -1, !.child = c])
            /\ state' = [state EXCEPT ![c] = "EMBRYO"]
      BY <1>14 DEF Fork
    <2> DEFINE k2 == [Idle EXCEPT !.pc = "kalloc", !.call = "fork", !.page = -1,
                                  !.child = c]
    <2>2. kernel' = [kernel EXCEPT ![p] = k2] /\ AtUser(p)
      BY <1>14, <2>1 DEF Fork, Enter
    <2>3. k2.call = "fork" /\ k2.pc = "kalloc"
      BY DEF Idle
    <2>4. \A q \in Procs : state'[q] = "RUNNABLE" => state[q] = "RUNNABLE"
      BY <1>1, <2>1
    <2> HIDE DEF k2
    <2> QED
      BY <1>5, <1>10, <2>2, <2>3, <2>4
  <1> QED
    BY <1>6, <1>7, <1>8, <1>9, <1>11, <1>12, <1>13, <1>14

\* Nothing happens, or the kernel panics.
LEMMA PanicKeepsContent ==
  ASSUME ContentInv, UNCHANGED <<data, disk, pgdir, stored, overrun, sz, state, kernel>>
  PROVE  ContentInv'
  <1>1. \A q \in Procs : \A v \in Pages : Holds(q, v)' <=> Holds(q, v)
    BY DEF Holds, Held
  <1>2. \A q \in Procs : Extent(q)' = Extent(q) /\ ExecZero(q)' /\ InFlight(q)'
    BY DEF Extent, ContentInv, ExecZero, InFlight
  <1> QED
    BY <1>1, <1>2 DEF ContentInv, ContentTypes

\* swap_out() writes to a slot that no page has.
LEMMA SwapOutKeepsContent ==
  ASSUME BaseInv, BaseInv', ContentInv, NEW p \in Procs, SwapOut(p)
  PROVE  ContentInv'
  <1> DEFINE k == kernel[p]
  <1>1. /\ kernel \in [Procs -> KernelTypes] /\ pgdir \in [Procs -> Tables]
        /\ k \in KernelTypes /\ ShapeInv /\ disk \in [Slots -> Contents]
        /\ SlotInv
    BY DEF BaseInv, ShapeInv, KernelInv, DataInv
  <1>2. CASE NoVictim
    BY <1>2, PanicKeepsContent DEF SwapOut, Panic, memory, swap, procs, history
  <1>3. CASE ~NoVictim
    <2> DEFINE q == VictimProcess
               u == VictimPage(pgdir[q])
               s == SwapAlloc
    <2>1. /\ pgdir' = [pgdir EXCEPT ![q] = Aged(pgdir[q])]
          /\ overrun' = (overrun \/ usedSlots = Slots)
          /\ disk' = [disk EXCEPT ![s] = data[pgdir[q][u].n]]
          /\ kernel' = [kernel EXCEPT ![p].pc = "writing", ![p].victim = q,
                             ![p].vpage = u, ![p].slot = s]
          /\ UNCHANGED <<data, sz, state, stored>>
          /\ state[p] = "RUNNABLE" /\ k.pc \in {"adaptive", "emergency"}
      BY <1>1, <1>3 DEF SwapOut, At, Runs, memory
    <2>2. /\ q \in Procs /\ s \in Slots /\ (usedSlots # Slots => s \notin usedSlots)
          /\ u \in Pages
      BY <1>1, <1>3, VictimFacts DEF ShapeInv
    <2>3. /\ kernel'[p].slot = s /\ kernel'[p].victim = q /\ kernel'[p].vpage = u
          /\ kernel'[p].pc = "writing" /\ kernel'[p].call = k.call
          /\ kernel'[p].page = k.page /\ kernel'[p].table = k.table
          /\ \A r \in Procs : r # p => kernel'[r] = kernel[r]
      BY <1>1, <2>1 DEF KernelTypes
    <2> HIDE DEF q, u, s
    <2>4. \A r \in Procs : \A w \in Pages :
            pgdir'[r][w].at = pgdir[r][w].at /\ pgdir'[r][w].n = pgdir[r][w].n
      BY <1>1, <2>1, <2>2, AgedFacts
    <2>5. overrun \in BOOLEAN /\ overrun' \in BOOLEAN
      BY <2>1 DEF ContentInv, ContentTypes
    <2>6. ~overrun' => ~overrun /\ s \notin usedSlots
      BY <2>1, <2>2, <2>5
    <2>7. ContentTypes'
      BY <2>1, <2>5 DEF ContentInv, ContentTypes
    <2>8. ExecZero(p)'
      BY <2>1, <2>3 DEF ContentInv, ExecZero
    <2>9. disk'[s] = data[pgdir[q][u].n]
      BY <1>1, <2>1, <2>2
    <2>10. InFlight(p)'
      BY <2>1, <2>2, <2>3, <2>4, <2>9 DEF InFlight
    <2>11. ASSUME NEW r \in Procs, NEW w \in Pages, state'[r] = "RUNNABLE", w < Extent(r)'
           PROVE  Holds(r, w)'
      <3>1. Extent(r)' = Extent(r)
        <4>1. CASE r = p
          BY <2>1, <2>3, <4>1, ExtentSame
        <4>2. CASE r # p
          BY <2>1, <2>3, <4>2, ExtentSame
        <4> QED
          BY <4>1, <4>2
      <3>2. Holds(r, w)
        BY <2>1, <2>11, <3>1 DEF ContentInv
      <3>3. pgdir[r][w].at = "swap" /\ ~overrun' => disk'[pgdir[r][w].n] = disk[pgdir[r][w].n]
        <4> SUFFICES ASSUME pgdir[r][w].at = "swap", ~overrun'
                     PROVE  disk'[pgdir[r][w].n] = disk[pgdir[r][w].n]
          OBVIOUS
        <4>1. pgdir[r][w].n \in usedSlots
          BY <1>1, <2>6 DEF SlotInv
        <4>2. pgdir[r][w].n # s
          BY <2>6, <4>1
        <4> QED
          BY <1>1, <2>1, <4>2, <4>1 DEF BaseInv, ShapeInv, KernelInv
      <3> QED
        BY <1>1, <2>1, <2>4, <2>6, <3>2, <3>3, HoldsSame
    <2> QED
      BY <1>1, <2>1, <2>3, <2>7, <2>8, <2>10, <2>11, ContentOf
  <1> QED
    BY <1>2, <1>3

\* The page is on the disk when its frame is freed.
LEMMA SwapOutDoneKeepsContent ==
  ASSUME BaseInv, BaseInv', ContentInv, NEW p \in Procs, SwapOutDone(p)
  PROVE  ContentInv'
  <1> DEFINE k == kernel[p]
  <1>1. /\ kernel \in [Procs -> KernelTypes] /\ pgdir \in [Procs -> Tables]
        /\ k \in KernelTypes /\ ShapeInv /\ data \in [Frames -> Contents]
        /\ KernelShape(k) /\ CallShape(p)
    BY DEF BaseInv, ShapeInv, KernelInv, DataInv, TableInv
  <1>2. PICK q : q = k.victim
    OBVIOUS
  <1>3. PICK u : u = k.vpage
    OBVIOUS
  <1>4. PICK s : s = k.slot
    OBVIOUS
  <1>5. PICK f : f = pgdir[q][u].n
    OBVIOUS
  <1>6. /\ k.pc = "writing" /\ state[p] = "RUNNABLE"
        /\ pgdir' = [pgdir EXCEPT ![q][u] = InSwap(s)]
        /\ data' = Junked({f})
        /\ UNCHANGED <<disk, sz, state, stored, overrun>>
    BY <1>2, <1>3, <1>4, <1>5 DEF SwapOutDone, At, Runs, swap, history
  <1>7. q \in Procs /\ u \in Pages /\ pgdir[q][u].at = "ram" /\ s \in Slots
    BY <1>1, <1>2, <1>3, <1>4, <1>6 DEF KernelShape, CallShape, WritingShape
  <1>8. /\ kernel'[p].call = k.call /\ kernel'[p].page = k.page
        /\ kernel'[p].table = k.table
        /\ kernel'[p].pc \in {"again", "got", "adaptive"}
        /\ \A r \in Procs : r # p => kernel'[r] = kernel[r]
    BY <1>1, <1>6 DEF SwapOutDone, KernelTypes, KernelShape
  <1>9. \A g \in Frames : g # f => data'[g] = data[g]
    BY <1>6 DEF Junked
  <1>10. \A r \in Procs : \A w \in Pages :
           pgdir'[r][w] = IF r = q /\ w = u THEN InSwap(s) ELSE pgdir[r][w]
    BY <1>1, <1>6, <1>7 DEF Tables
  <1>11. ContentTypes' /\ InFlight(p)'
    BY <1>6, <1>8 DEF ContentInv, ContentTypes, InFlight
  <1>12. ExecZero(p)'
    <2> SUFFICES ASSUME k.call = "exec", NEW w \in Pages, w < k.page
                 PROVE  data'[k.table[w].n] = 0
      BY <1>8 DEF ExecZero
    <2>1. data[k.table[w].n] = 0
      BY DEF ContentInv, ExecZero
    <2>2. k.table[w].at = "ram"
      BY <1>1 DEF CallShape, BuiltTo
    <2>3. k.table[w].n \in Frames /\ k.table[w].n # f
      BY <1>5, <1>7, <2>2, Apart
    <2> QED
      BY <1>9, <2>1, <2>3
  <1>13. ASSUME NEW r \in Procs, NEW w \in Pages, state'[r] = "RUNNABLE", w < Extent(r)'
         PROVE  Holds(r, w)'
    <2>1. Extent(r)' = Extent(r)
      <3>1. CASE r = p
        BY <1>6, <1>8, <3>1, ExtentSame
      <3>2. CASE r # p
        BY <1>6, <1>8, <3>2, ExtentSame
      <3> QED
        BY <3>1, <3>2
    <2>2. Holds(r, w)
      BY <1>6, <1>13, <2>1 DEF ContentInv
    <2>3. CASE r = q /\ w = u
      <3>1. pgdir'[r][w].at = "swap" /\ pgdir'[r][w].n = s
        BY <1>10, <2>3 DEF InSwap
      <3>2. ~overrun => disk[s] = data[f]
        <4>1. InFlight(p)
          BY DEF ContentInv
        <4> QED
          BY <1>2, <1>3, <1>4, <1>5, <1>6, <4>1 DEF InFlight
      <3>3. ~overrun => data[f] = stored[r][w]
        BY <1>5, <1>7, <2>2, <2>3 DEF Holds, Held
      <3> QED
        BY <1>6, <3>1, <3>2, <3>3 DEF Holds, Held
    <2>4. CASE ~ (r = q /\ w = u)
      <3>1. pgdir'[r][w] = pgdir[r][w]
        BY <1>10, <2>4
      <3>2. pgdir[r][w].at = "ram" => data'[pgdir[r][w].n] = data[pgdir[r][w].n]
        <4> SUFFICES ASSUME pgdir[r][w].at = "ram"
                     PROVE  data'[pgdir[r][w].n] = data[pgdir[r][w].n]
          OBVIOUS
        <4>1. pgdir[r][w].n \in Frames /\ pgdir[r][w].n # f
          BY <1>5, <1>7, <2>4, Apart
        <4> QED
          BY <1>9, <4>1
      <3> QED
        BY <1>1, <1>6, <2>2, <3>1, <3>2, HoldsSame
    <2> QED
      BY <2>3, <2>4
  <1> QED
    BY <1>1, <1>6, <1>8, <1>11, <1>12, <1>13, ContentOf

\* Filling the frame that kalloc() has returned disturbs no page.
LEMMA HoldsFilled ==
  ASSUME BaseInv, NEW p \in Procs, NEW f \in Frames, f = kernel[p].frame,
         NEW x, data' = [data EXCEPT ![f] = x],
         NEW q \in Procs, NEW v \in Pages, Holds(q, v),
         pgdir'[q][v] = pgdir[q][v], stored'[q][v] = stored[q][v],
         UNCHANGED <<disk, overrun>>
  PROVE  Holds(q, v)'
  <1>1. pgdir[q][v].at = "ram" => data'[pgdir[q][v].n] = data[pgdir[q][v].n]
    <2> SUFFICES ASSUME pgdir[q][v].at = "ram"
                 PROVE  data'[pgdir[q][v].n] = data[pgdir[q][v].n]
      OBVIOUS
    <2>1. pgdir[q][v].n \in Frames /\ pgdir[q][v].n # f
      BY Apart
    <2> QED
      BY <2>1 DEF BaseInv, DataInv
  <1> QED
    BY <1>1, HoldsSame DEF BaseInv

\* sbrk() maps a page of zeroes, which is what its process expects there.
LEMMA SbrkPageKeepsContent ==
  ASSUME BaseInv, ContentInv, NEW p \in Procs, SbrkPage(p)
  PROVE  ContentInv'
  <1> DEFINE k == kernel[p]
  <1>1. /\ kernel \in [Procs -> KernelTypes] /\ pgdir \in [Procs -> Tables]
        /\ k \in KernelTypes /\ ShapeInv /\ data \in [Frames -> Contents]
        /\ KernelShape(k) /\ CallShape(p) /\ sz \in [Procs -> 0 .. MaxPages]
        /\ stored \in [Procs -> [Pages -> Contents]] /\ 0 \in Contents
    BY SwapAssumption DEF BaseInv, ShapeInv, KernelInv, DataInv, TableInv, ContentInv,
                          ContentTypes, Contents
  <1>2. PICK f : f = k.frame
    OBVIOUS
  <1>3. PICK w : w = k.page
    OBVIOUS
  <1>4. /\ k.pc = "got" /\ k.call = "sbrk" /\ state[p] = "RUNNABLE"
        /\ pgdir' = [pgdir EXCEPT ![p][w] = InRam(f, FALSE)]
        /\ data' = [data EXCEPT ![f] = 0]
        /\ stored' = [stored EXCEPT ![p][w] = 0]
        /\ UNCHANGED <<disk, state, overrun>>
        /\ IF w + 1 < k.goal
           THEN kernel' = [kernel EXCEPT ![p] = NextPage(k)] /\ UNCHANGED sz
           ELSE kernel' = [kernel EXCEPT ![p] = Idle] /\ sz' = [sz EXCEPT ![p] = k.goal]
    BY <1>2, <1>3 DEF SbrkPage, At, Runs, Enter, Return, swap
  <1>5. f \in Frames /\ w \in sz[p] .. k.goal - 1 /\ k.goal <= MaxPages /\ k.goal \in Int
    BY <1>1, <1>2, <1>3, <1>4 DEF KernelShape, CallShape, KernelTypes
  <1>6. w \in Pages /\ w \in Int /\ Pages \subseteq Int
    BY <1>1, <1>5, SwapAssumption DEF Pages
  <1>7. \A q \in Procs : \A v \in Pages :
          /\ pgdir'[q][v] = IF q = p /\ v = w THEN InRam(f, FALSE) ELSE pgdir[q][v]
          /\ stored'[q][v] = IF q = p /\ v = w THEN 0 ELSE stored[q][v]
    BY <1>1, <1>4, <1>6 DEF Tables
  <1>8. /\ NextPage(k).page = w + 1 /\ NextPage(k).call = "sbrk"
        /\ NextPage(k).pc = "kalloc" /\ Idle.pc = "user" /\ Idle.call = "none"
    BY <1>1, <1>3, <1>4, NextPageFacts DEF Idle, Calls
  <1>9. /\ \A q \in Procs : q # p => kernel'[q] = kernel[q]
        /\ kernel'[p].call # "exec" /\ kernel'[p].pc \in {"user", "kalloc"}
    BY <1>1, <1>4, <1>8
  <1>10. Extent(p)' = w + 1 /\ Extent(p) = w
    <2>1. CASE w + 1 < k.goal
      BY <1>1, <1>3, <1>4, <1>8, <2>1 DEF Extent
    <2>2. CASE ~ (w + 1 < k.goal)
      <3>1. kernel'[p] = Idle /\ sz'[p] = k.goal
        BY <1>1, <1>4, <2>2
      <3>2. k.goal = w + 1
        <4>1. w <= k.goal - 1
          BY <1>1, <1>5
        <4> QED
          BY <1>5, <1>6, <2>2, <4>1
      <3>3. Extent(p)' = w + 1
        BY <1>8, <3>1, <3>2 DEF Extent
      <3>4. Extent(p) = w
        BY <1>3, <1>4 DEF Extent
      <3> QED
        BY <3>3, <3>4
    <2> QED
      BY <2>1, <2>2
  <1>11. \A q \in Procs : q # p => Extent(q)' = Extent(q)
    BY <1>1, <1>4, <1>9 DEF Extent
  <1>12. ContentTypes' /\ ExecZero(p)' /\ InFlight(p)'
    <2>1. stored' \in [Procs -> [Pages -> Contents]]
      BY <1>1, <1>4
    <2> QED
      BY <1>4, <1>9, <2>1 DEF ContentInv, ContentTypes, ExecZero, InFlight
  <1> HIDE DEF k
  <1>13. ASSUME NEW q \in Procs, NEW v \in Pages, state'[q] = "RUNNABLE", v < Extent(q)'
         PROVE  Holds(q, v)'
    <2>1. CASE q = p /\ v = w
      <3>1. pgdir'[q][v].at = "ram" /\ pgdir'[q][v].n = f /\ stored'[q][v] = 0
        BY <1>7, <2>1 DEF InRam
      <3>2. data'[f] = 0
        BY <1>1, <1>4, <1>5
      <3> QED
        BY <3>1, <3>2 DEF Holds, Held
    <2>2. CASE ~ (q = p /\ v = w)
      <3>1. v < Extent(q)
        <4>1. CASE q = p
          BY <1>6, <1>10, <1>13, <2>2, <4>1
        <4>2. CASE q # p
          BY <1>11, <1>13, <4>2
        <4> QED
          BY <4>1, <4>2
      <3>2. Holds(q, v)
        BY <1>4, <1>13, <3>1 DEF ContentInv
      <3>3. pgdir'[q][v] = pgdir[q][v] /\ stored'[q][v] = stored[q][v]
        BY <1>7, <2>2
      <3>4. f = kernel[p].frame
        BY <1>2 DEF k
      <3> QED
        BY <1>4, <1>5, <3>2, <3>3, <3>4, HoldsFilled
    <2> QED
      BY <2>1, <2>2
  <1> QED
    <2>1. state[p] = "RUNNABLE" /\ kernel[p].pc # "wait"
      BY <1>4 DEF k
    <2> QED
      BY <1>1, <1>9, <1>12, <1>13, <2>1, ContentOf

\* A page fault reads what swap_out() has written, and maps what it has read.
LEMMA FaultKeepsContent ==
  ASSUME BaseInv, ContentInv, NEW p \in Procs, SwapRead(p) \/ SwapIn(p)
  PROVE  ContentInv'
  <1> DEFINE k == kernel[p]
  <1>1. /\ kernel \in [Procs -> KernelTypes] /\ pgdir \in [Procs -> Tables]
        /\ k \in KernelTypes /\ ShapeInv /\ data \in [Frames -> Contents]
        /\ KernelShape(k) /\ CallShape(p) /\ sz \in [Procs -> 0 .. MaxPages]
    BY DEF BaseInv, ShapeInv, KernelInv, DataInv, TableInv
  <1>2. PICK f : f = k.frame
    OBVIOUS
  <1>3. PICK w : w = k.page
    OBVIOUS
  <1>4. PICK s : s = pgdir[p][w].n
    OBVIOUS
  <1>5. /\ k.pc \in {"got", "read"} /\ k.call = "fault" /\ state[p] = "RUNNABLE"
        /\ UNCHANGED <<disk, state, overrun, stored, sz>>
    BY <1>1 DEF SwapRead, SwapIn, At, Runs, swap, procs, history, KernelShape
  <1>6. f \in Frames /\ w \in Pages /\ pgdir[p][w].at = "swap"
        /\ w \in 0 .. sz[p] - 1
        /\ (k.pc = "read" => k.slot = s)
    BY <1>1, <1>2, <1>3, <1>4, <1>5, SwapAssumption DEF KernelShape, CallShape, Pages
  <1>7. CASE SwapRead(p)
    <2>1. /\ data' = [data EXCEPT ![f] = disk[s]] /\ pgdir' = pgdir
          /\ kernel' = [kernel EXCEPT ![p] = [k EXCEPT !.pc = "read", !.slot = s]]
      BY <1>2, <1>3, <1>4, <1>7 DEF SwapRead, Enter, procs
    <2>2. /\ kernel'[p].pc = "read" /\ kernel'[p].slot = s /\ kernel'[p].frame = f
          /\ kernel'[p].call = "fault"
          /\ \A q \in Procs : q # p => kernel'[q] = kernel[q]
      BY <1>1, <1>2, <1>5, <2>1 DEF KernelTypes
    <2>3. data'[f] = disk[s]
      BY <1>1, <1>6, <2>1
    <2>4. ContentTypes' /\ ExecZero(p)' /\ InFlight(p)'
      BY <1>5, <2>2, <2>3 DEF ContentInv, ContentTypes, ExecZero, InFlight
    <2>5. \A q \in Procs : Extent(q)' = Extent(q)
      BY <1>5, <2>2 DEF Extent
    <2>6. f = kernel[p].frame /\ state[p] = "RUNNABLE" /\ kernel[p].pc # "wait"
      BY <1>2, <1>5
    <2> HIDE DEF k
    <2>7. ASSUME NEW q \in Procs, NEW v \in Pages, state'[q] = "RUNNABLE", v < Extent(q)'
          PROVE  Holds(q, v)'
      <3>1. Holds(q, v)
        BY <1>5, <2>5, <2>7 DEF ContentInv
      <3> QED
        BY <1>5, <1>6, <2>1, <2>6, <3>1, HoldsFilled
    <2> QED
      BY <1>1, <2>2, <2>4, <2>6, <2>7, ContentOf
  <1>8. CASE SwapIn(p)
    <2>1. /\ data' = data /\ pgdir' = [pgdir EXCEPT ![p][w] = InRam(f, FALSE)]
          /\ kernel' = [kernel EXCEPT ![p] = Idle] /\ k.pc = "read"
      BY <1>2, <1>3, <1>8 DEF SwapIn, Enter, Return, At, memory
    <2>2. /\ kernel'[p].pc = "user" /\ kernel'[p].call = "none"
          /\ \A q \in Procs : q # p => kernel'[q] = kernel[q]
      BY <1>1, <2>1 DEF Idle
    <2>3. ~overrun => data[f] = disk[s]
      BY <1>2, <1>6, <2>1 DEF ContentInv, InFlight
    <2>4. ContentTypes' /\ ExecZero(p)' /\ InFlight(p)'
      BY <1>5, <2>2 DEF ContentInv, ContentTypes, ExecZero, InFlight
    <2>5. ASSUME NEW q \in Procs PROVE Extent(q)' = Extent(q)
      <3>1. CASE q = p
        BY <1>5, <2>2, <3>1 DEF Extent
      <3>2. CASE q # p
        BY <1>5, <2>2, <3>2 DEF Extent
      <3> QED
        BY <3>1, <3>2
    <2>6. state[p] = "RUNNABLE" /\ kernel[p].pc # "wait"
      BY <1>5
    <2>7. \A q \in Procs : \A v \in Pages :
            pgdir'[q][v] = IF q = p /\ v = w THEN InRam(f, FALSE) ELSE pgdir[q][v]
      BY <1>1, <1>6, <2>1 DEF Tables
    <2> HIDE DEF k
    <2>8. ASSUME NEW q \in Procs, NEW v \in Pages, state'[q] = "RUNNABLE", v < Extent(q)'
          PROVE  Holds(q, v)'
      <3>1. Holds(q, v)
        BY <1>5, <2>5, <2>8 DEF ContentInv
      <3>2. CASE q = p /\ v = w
        <4>1. pgdir'[q][v].at = "ram" /\ pgdir'[q][v].n = f
          BY <2>7, <3>2 DEF InRam
        <4>2. ~overrun => disk[s] = stored[q][v]
          BY <1>4, <1>6, <3>1, <3>2 DEF Holds, Held
        <4> QED
          BY <1>5, <2>1, <2>3, <4>1, <4>2 DEF Holds, Held
      <3>3. CASE ~ (q = p /\ v = w)
        BY <1>1, <1>5, <2>1, <2>7, <3>1, <3>3, HoldsSame
      <3> QED
        BY <3>2, <3>3
    <2> QED
      BY <1>1, <2>2, <2>4, <2>6, <2>8, ContentOf
  <1> QED
    BY <1>7, <1>8

\* exec() and fork() fill a page of the image they build.
LEMMA BuildKeepsContent ==
  ASSUME BaseInv, ContentInv, NEW p \in Procs,
         ExecPage(p) \/ (CopyPage(p) /\ kernel[p].page + 1 < sz[p])
  PROVE  ContentInv'
  <1> DEFINE k == kernel[p]
  <1>1. /\ kernel \in [Procs -> KernelTypes] /\ k \in KernelTypes /\ ShapeInv
        /\ data \in [Frames -> Contents] /\ k.table \in Tables
        /\ KernelShape(k) /\ CallShape(p)
    BY DEF BaseInv, ShapeInv, KernelInv, DataInv, TableInv, KernelTypes
  <1>2. PICK f : f = k.frame
    OBVIOUS
  <1>3. PICK w : w = k.page
    OBVIOUS
  <1>4. /\ k.pc = "got" /\ k.call \in {"exec", "fork"} /\ state[p] = "RUNNABLE"
        /\ UNCHANGED <<pgdir, disk, state, overrun, stored, sz>>
        /\ \E x : data' = [data EXCEPT ![f] = x]
    BY <1>2 DEF ExecPage, CopyPage, At, Runs, swap, history
  <1>5. f \in Frames /\ f = kernel[p].frame
    BY <1>1, <1>2, <1>4 DEF KernelShape
  <1>6. NextPage(k) \in KernelTypes /\ NextPage(k).call = k.call
        /\ NextPage(k).page = w + 1 /\ NextPage(k).pc = "kalloc"
        /\ NextPage(k).table = k.table
    BY <1>1, <1>3, <1>4, NextPageFacts DEF Calls
  <1>7. /\ \A q \in Procs : q # p => kernel'[q] = kernel[q]
        /\ kernel'[p].call = k.call /\ kernel'[p].pc \in {"kalloc", "copy"}
        /\ ExecZero(p)'
    <2>1. CASE ExecPage(p)
      <3> DEFINE first == [NextPage(k) EXCEPT !.kpage = f]
                 later == [NextPage(k) EXCEPT !.table[w] = InRam(f, FALSE)]
      <3>1. /\ k.call = "exec"
            /\ data' = [data EXCEPT ![f] = IF w = -1 THEN Junk ELSE 0]
            /\ kernel' = [kernel EXCEPT ![p] = IF w = -1 THEN first ELSE later]
        BY <1>2, <1>3, <2>1 DEF ExecPage, Enter
      <3>2. /\ first.call = k.call /\ first.pc = "kalloc" /\ first.page = w + 1
            /\ first.table = k.table
            /\ later.call = k.call /\ later.pc = "kalloc" /\ later.page = w + 1
            /\ later.table = [k.table EXCEPT ![w] = InRam(f, FALSE)]
        BY <1>6 DEF KernelTypes
      <3>3. BuiltTo(k.table, w) /\ w \in Int
        BY <1>1, <1>3, <3>1 DEF CallShape, KernelTypes
      <3>4. \A v \in Pages : v < w => data[k.table[v].n] = 0
        BY <1>3, <3>1 DEF ContentInv, ExecZero
      <3> HIDE DEF first, later
      <3>5. /\ \A q \in Procs : q # p => kernel'[q] = kernel[q]
            /\ kernel'[p].call = k.call /\ kernel'[p].pc = "kalloc"
            /\ kernel'[p].page = w + 1
            /\ kernel'[p].table = IF w = -1 THEN k.table
                                  ELSE [k.table EXCEPT ![w] = InRam(f, FALSE)]
        BY <1>1, <3>1, <3>2
      <3>6. ASSUME NEW v \in Pages, v < w + 1 PROVE data'[kernel'[p].table[v].n] = 0
        <4>1. v \in Nat
          BY Numbers
        <4>2. CASE v = w
          <5>1. w # -1
            BY <4>1, <4>2
          <5>2. kernel'[p].table[v].n = f
            BY <1>1, <3>5, <4>2, <5>1 DEF Tables, InRam
          <5> QED
            BY <1>1, <1>5, <3>1, <5>1, <5>2
        <4>3. CASE v # w
          <5>1. v < w /\ w # -1
            BY <3>3, <3>6, <4>1, <4>3
          <5>2. kernel'[p].table[v] = k.table[v]
            BY <1>1, <3>5, <4>3, <5>1 DEF Tables
          <5>3. k.table[v].at = "ram"
            BY <3>3, <5>1 DEF BuiltTo
          <5>4. k.table[v].n \in Frames /\ k.table[v].n # f
            BY <1>2, <5>3, Apart
          <5> QED
            BY <1>1, <3>1, <3>4, <5>1, <5>2, <5>4
        <4> QED
          BY <4>2, <4>3
      <3> QED
        BY <3>5, <3>6 DEF ExecZero
    <2>2. CASE CopyPage(p) /\ k.page + 1 < sz[p]
      <3> DEFINE table == [k.table EXCEPT ![k.page] = InRam(k.frame, k.source.used)]
                 k2 == [NextPage(k) EXCEPT !.pc = "copy", !.table = table]
      <3>1. kernel' = [kernel EXCEPT ![p] = k2] /\ k.call = "fork"
        BY <2>2 DEF CopyPage, Enter
      <3>2. k2.call = k.call /\ k2.pc = "copy"
        BY <1>6 DEF KernelTypes
      <3> HIDE DEF k2
      <3>3. /\ \A q \in Procs : q # p => kernel'[q] = kernel[q]
            /\ kernel'[p] = k2
        BY <1>1, <3>1
      <3> QED
        BY <3>1, <3>2, <3>3 DEF ExecZero
    <2> QED
      BY <2>1, <2>2
  <1>8. ContentTypes' /\ InFlight(p)'
    BY <1>4, <1>7 DEF ContentInv, ContentTypes, InFlight
  <1>9. ASSUME NEW q \in Procs PROVE Extent(q)' = Extent(q)
    <2>1. CASE q = p
      BY <1>4, <1>7, <2>1 DEF Extent
    <2>2. CASE q # p
      BY <1>4, <1>7, <2>2 DEF Extent
    <2> QED
      BY <2>1, <2>2
  <1>10. ASSUME NEW q \in Procs, NEW v \in Pages, state'[q] = "RUNNABLE", v < Extent(q)'
         PROVE  Holds(q, v)'
    <2>1. Holds(q, v)
      BY <1>4, <1>9, <1>10 DEF ContentInv
    <2> QED
      BY <1>4, <1>5, <2>1, HoldsFilled
  <1>11. state[p] = "RUNNABLE" /\ kernel[p].pc # "wait"
    BY <1>4
  <1> HIDE DEF k
  <1> QED
    BY <1>1, <1>7, <1>8, <1>10, <1>11, ContentOf

\* fork() leaves the child with what the frames of its table hold.
LEMMA CopyDoneKeepsContent ==
  ASSUME BaseInv, BaseInv', ContentInv, NEW p \in Procs,
         CopyPage(p), ~ (kernel[p].page + 1 < sz[p])
  PROVE  ContentInv'
  <1> DEFINE k == kernel[p]
  <1>1. /\ kernel \in [Procs -> KernelTypes] /\ k \in KernelTypes /\ ShapeInv
        /\ data \in [Frames -> Contents] /\ k.table \in Tables
        /\ data' \in [Frames -> Contents] /\ pgdir \in [Procs -> Tables]
        /\ pgdir' \in [Procs -> Tables]
        /\ KernelShape(k) /\ CallShape(p) /\ sz \in [Procs -> 0 .. MaxPages]
        /\ stored \in [Procs -> [Pages -> Contents]] /\ 0 \in Contents
        /\ state \in [Procs -> {"UNUSED", "EMBRYO", "RUNNABLE", "ZOMBIE"}]
    BY SwapAssumption DEF BaseInv, ShapeInv, KernelInv, StackInv, DataInv, TableInv,
                          KernelTypes, ContentInv, ContentTypes, Contents
  <1>2. PICK f : f = k.frame
    OBVIOUS
  <1>3. PICK w : w = k.page
    OBVIOUS
  <1>4. PICK c : c = k.child
    OBVIOUS
  <1>5. PICK table : table = [k.table EXCEPT ![w] = InRam(f, k.source.used)]
    OBVIOUS
  <1>6. PICK n : n = sz[p]
    OBVIOUS
  <1>7. /\ k.pc = "got" /\ k.call = "fork" /\ state[p] = "RUNNABLE" /\ w >= 0
        /\ UNCHANGED <<disk, overrun>>
        /\ data' = [data EXCEPT ![f] = data[k.source.n]]
        /\ pgdir' = [pgdir EXCEPT ![c] = table]
        /\ sz' = [sz EXCEPT ![c] = n]
        /\ state' = [state EXCEPT ![c] = "RUNNABLE"]
        /\ stored' = [stored EXCEPT ![c] =
             [v \in Pages |-> IF v < n THEN data'[table[v].n] ELSE 0]]
        /\ kernel' = [kernel EXCEPT ![p] = Waiting(c)]
    BY <1>2, <1>3, <1>4, <1>5, <1>6
       DEF CopyPage, At, Runs, swap, Enter, Waiting
  <1>8. /\ f \in Frames /\ f = kernel[p].frame
        /\ c \in Procs /\ c # p /\ state[c] = "EMBRYO"
    <2>1. c = p + 1 /\ c \in Procs /\ state[c] = "EMBRYO"
      BY <1>1, <1>4, <1>7 DEF ShapeInv, StackInv
    <2> QED
      BY <1>1, <1>2, <1>7, <2>1 DEF KernelShape
  <1>9. /\ w \in Int /\ n \in Int /\ w + 1 = n /\ w \in Pages /\ Pages \subseteq Int
    <2>1. w \in -1 .. n - 1 /\ n \in 0 .. MaxPages
      BY <1>1, <1>3, <1>6, <1>7 DEF CallShape
    <2>2. ~ (w + 1 < n)
      BY <1>3, <1>6
    <2> QED
      BY <1>7, <2>1, <2>2, SwapAssumption DEF Pages
  <1>10. \A v \in Pages : v < n => table[v].at = "ram"
    <2> SUFFICES ASSUME NEW v \in Pages, v < n PROVE table[v].at = "ram"
      OBVIOUS
    <2>1. BuiltTo(k.table, w)
      BY <1>1, <1>3, <1>7 DEF CallShape
    <2>2. CASE v = w
      BY <1>1, <1>5, <2>2 DEF Tables, InRam
    <2>3. CASE v # w
      <3>1. v < w
        BY <1>9, <2>3
      <3> QED
        BY <1>1, <1>5, <2>1, <2>3, <3>1 DEF Tables, BuiltTo
    <2> QED
      BY <2>2, <2>3
  <1>11. kernel[c].call = "none" /\ kernel'[c] = kernel[c]
    <2>1. kernel[c].call = "none"
      BY <1>7, <1>8, Alone DEF BaseInv, ShapeInv
    <2> QED
      BY <1>1, <1>7, <1>8, <2>1
  <1>12. /\ kernel'[p].call = "none" /\ kernel'[p].pc = "wait"
         /\ \A q \in Procs : q # p => kernel'[q] = kernel[q]
    <2>1. Waiting(c).call = "none" /\ Waiting(c).pc = "wait"
      BY DEF Waiting, Idle
    <2> QED
      BY <1>1, <1>7, <2>1
  <1>13. pgdir'[c] = table /\ sz'[c] = n /\ \A q \in Procs : q # c =>
           /\ pgdir'[q] = pgdir[q] /\ sz'[q] = sz[q] /\ stored'[q] = stored[q]
           /\ state'[q] = state[q]
    BY <1>1, <1>7, <1>8
  <1>14. \A v \in Pages : v < n => table[v].n \in Frames /\ data'[table[v].n] \in Contents
    <2> SUFFICES ASSUME NEW v \in Pages, v < n
                 PROVE  table[v].n \in Frames /\ data'[table[v].n] \in Contents
      OBVIOUS
    <2>1. table[v] \in Entries
      BY <1>1, <1>8, <1>13 DEF Tables
    <2>2. table[v].n \in Frames
      BY <1>10, <2>1, EntryFacts
    <2> QED
      BY <1>1, <2>2
  <1>15. ContentTypes' /\ ExecZero(p)' /\ InFlight(p)'
    <2>1. [v \in Pages |-> IF v < n THEN data'[table[v].n] ELSE 0] \in [Pages -> Contents]
      BY <1>1, <1>14
    <2>2. stored' \in [Procs -> [Pages -> Contents]]
      BY <1>1, <1>7, <2>1
    <2> QED
      BY <1>7, <1>12, <2>2 DEF ContentInv, ContentTypes, ExecZero, InFlight
  <1>16. state[p] = "RUNNABLE" /\ kernel[p].pc # "wait" /\ kernel[p].call = "fork"
    BY <1>7
  <1> HIDE DEF k
  <1>17. ASSUME NEW q \in Procs, NEW v \in Pages, state'[q] = "RUNNABLE", v < Extent(q)'
         PROVE  Holds(q, v)'
    <2>1. CASE q = c
      <3>1. v < n
        BY <1>11, <1>13, <1>17, <2>1 DEF Extent
      <3>2. pgdir'[q][v] = table[v] /\ pgdir'[q][v].at = "ram"
        BY <1>10, <1>13, <2>1, <3>1
      <3>3. stored'[q][v] = data'[table[v].n]
        BY <1>1, <1>7, <1>8, <2>1, <3>1
      <3> QED
        BY <3>2, <3>3 DEF Holds, Held
    <2>2. CASE q # c
      <3>1. Extent(q)' = Extent(q)
        <4>1. CASE q = p
          BY <1>12, <1>13, <1>16, <2>2, <4>1 DEF Extent
        <4>2. CASE q # p
          BY <1>12, <1>13, <2>2, <4>2 DEF Extent
        <4> QED
          BY <4>1, <4>2
      <3>2. Holds(q, v)
        BY <1>13, <1>17, <2>2, <3>1 DEF ContentInv
      <3> QED
        BY <1>7, <1>8, <1>13, <2>2, <3>2, HoldsFilled
    <2> QED
      BY <2>1, <2>2
  <1> QED
    BY <1>1, <1>12, <1>15, <1>16, <1>17, ContentOf

\* exec() starts the program with zeroes, and frees nothing of the others.
LEMMA ExecDoneKeepsContent ==
  ASSUME BaseInv, ContentInv, NEW p \in Procs, ExecDone(p)
  PROVE  ContentInv'
  <1> DEFINE k == kernel[p]
  <1>1. /\ kernel \in [Procs -> KernelTypes] /\ k \in KernelTypes /\ ShapeInv
        /\ data \in [Frames -> Contents] /\ k.table \in Tables
        /\ pgdir \in [Procs -> Tables]
        /\ KernelShape(k) /\ CallShape(p) /\ sz \in [Procs -> 0 .. MaxPages]
        /\ stored \in [Procs -> [Pages -> Contents]] /\ 0 \in Contents
    BY SwapAssumption DEF BaseInv, ShapeInv, KernelInv, DataInv, TableInv,
                          KernelTypes, ContentInv, ContentTypes, Contents
  <1>2. PICK f : f = k.frame
    OBVIOUS
  <1>3. PICK w : w = k.page
    OBVIOUS
  <1>4. PICK table : table = [k.table EXCEPT ![w] = InRam(f, FALSE)]
    OBVIOUS
  <1>5. PICK old : old = OldImage(p)
    OBVIOUS
  <1>6. /\ k.pc = "got" /\ k.call = "exec" /\ state[p] = "RUNNABLE"
        /\ w = ProgramPages - 1
        /\ UNCHANGED <<disk, overrun, state>>
        /\ data' = [Junked(old) EXCEPT ![f] = 0]
        /\ pgdir' = [pgdir EXCEPT ![p] = table]
        /\ sz' = [sz EXCEPT ![p] = ProgramPages]
        /\ stored' = [stored EXCEPT ![p] = [v \in Pages |-> 0]]
        /\ kernel' = [kernel EXCEPT ![p] = Idle]
    BY <1>2, <1>3, <1>4, <1>5 DEF ExecDone, At, Runs, swap, Enter, Return
  <1>7. f \in Frames /\ w \in Pages /\ Pages \subseteq Int /\ BuiltTo(k.table, w)
    BY <1>1, <1>2, <1>3, <1>6, SwapAssumption DEF KernelShape, CallShape, Pages
  <1>8. /\ data'[f] = 0
        /\ \A g \in Frames : g # f /\ g \notin old => data'[g] = data[g]
    BY <1>6, <1>7 DEF Junked
  <1>9. \A g \in old : g = kpage[p] \/ \E u \in Pages : pgdir[p][u].at = "ram" /\ pgdir[p][u].n = g
    BY <1>5 DEF OldImage, FramesOf, Resident
  <1>10. ASSUME NEW v \in Pages, v < ProgramPages
         PROVE  table[v].at = "ram" /\ data'[table[v].n] = 0
    <2>1. CASE v = w
      BY <1>1, <1>4, <1>8, <2>1 DEF Tables, InRam
    <2>2. CASE v # w
      <3>1. v < w
        BY <1>6, <1>7, <1>10, <2>2, SwapAssumption
      <3>2. table[v] = k.table[v] /\ k.table[v].at = "ram"
        BY <1>1, <1>4, <1>7, <2>2, <3>1 DEF Tables, BuiltTo
      <3>3. data[k.table[v].n] = 0
        BY <1>3, <1>6, <3>1 DEF ContentInv, ExecZero
      <3>4. k.table[v].n \in Frames /\ k.table[v].n # f /\ k.table[v].n # kpage[p]
        BY <1>2, <3>2, Apart
      <3>5. k.table[v].n \notin old
        <4>1. \A u \in Pages : pgdir[p][u].at = "ram" => pgdir[p][u].n # k.table[v].n
          BY <3>2, Apart
        <4> QED
          BY <1>9, <3>4, <4>1
      <3> QED
        BY <1>8, <3>2, <3>3, <3>4, <3>5
    <2> QED
      BY <2>1, <2>2
  <1>11. /\ kernel'[p].call = "none" /\ kernel'[p].pc = "user"
         /\ \A q \in Procs : q # p => kernel'[q] = kernel[q]
    BY <1>1, <1>6 DEF Idle
  <1>12. /\ pgdir'[p] = table /\ sz'[p] = ProgramPages
         /\ \A v \in Pages : stored'[p][v] = 0
         /\ \A q \in Procs : q # p =>
              pgdir'[q] = pgdir[q] /\ sz'[q] = sz[q] /\ stored'[q] = stored[q]
    BY <1>1, <1>6
  <1>13. ContentTypes' /\ ExecZero(p)' /\ InFlight(p)'
    <2>1. stored' \in [Procs -> [Pages -> Contents]]
      <3>1. [v \in Pages |-> 0] \in [Pages -> Contents]
        BY <1>1
      <3> QED
        BY <1>1, <1>6, <3>1
    <2> QED
      BY <1>6, <1>11, <2>1 DEF ContentInv, ContentTypes, ExecZero, InFlight
  <1>14. state[p] = "RUNNABLE" /\ kernel[p].pc # "wait" /\ f = kernel[p].frame
    BY <1>2, <1>6
  <1> HIDE DEF k
  <1>15. ASSUME NEW q \in Procs, NEW v \in Pages, state'[q] = "RUNNABLE", v < Extent(q)'
         PROVE  Holds(q, v)'
    <2>1. CASE q = p
      <3>1. v < ProgramPages
        BY <1>11, <1>12, <1>15, <2>1 DEF Extent
      <3> QED
        BY <1>10, <1>12, <2>1, <3>1 DEF Holds, Held
    <2>2. CASE q # p
      <3>1. Extent(q)' = Extent(q)
        BY <1>11, <1>12, <2>2 DEF Extent
      <3>2. Holds(q, v)
        BY <1>6, <1>15, <3>1 DEF ContentInv
      <3>3. ASSUME pgdir[q][v].at = "ram"
            PROVE  data'[pgdir[q][v].n] = data[pgdir[q][v].n]
        <4>1. /\ pgdir[q][v].n \in Frames /\ pgdir[q][v].n # f
              /\ pgdir[q][v].n # kpage[p]
          BY <1>14, <3>3, Apart
        <4>2. \A u \in Pages : pgdir[p][u].at = "ram" => pgdir[p][u].n # pgdir[q][v].n
          BY <2>2, <3>3, Apart
        <4> QED
          BY <1>8, <1>9, <4>1, <4>2
      <3> QED
        BY <1>1, <1>6, <1>12, <2>2, <3>2, <3>3, HoldsSame
    <2> QED
      BY <2>1, <2>2
  <1> QED
    BY <1>1, <1>11, <1>13, <1>14, <1>15, ContentOf

\* A program stores to a page of its own.
LEMMA TouchKeepsContent ==
  ASSUME BaseInv, ContentInv, NEW p \in Procs, NEW u \in Pages, NEW x \in Values,
         Touch(p, u, x)
  PROVE  ContentInv'
  <1>1. /\ ShapeInv /\ pgdir \in [Procs -> Tables] /\ data \in [Frames -> Contents]
        /\ stored \in [Procs -> [Pages -> Contents]] /\ x \in Contents
    BY DEF BaseInv, ShapeInv, KernelInv, DataInv, ContentInv, ContentTypes, Contents
  <1>2. PICK f : f = pgdir[p][u].n
    OBVIOUS
  <1>3. /\ pgdir' = [pgdir EXCEPT ![p][u].used = TRUE]
        /\ data' = [data EXCEPT ![f] = x]
        /\ stored' = [stored EXCEPT ![p][u] = x]
        /\ UNCHANGED <<disk, sz, state, kernel, overrun>>
        /\ pgdir[p][u].at = "ram"
    BY <1>2 DEF Touch, Resident, swap
  <1>4. /\ state[p] = "RUNNABLE" /\ kernel[p].pc # "wait" /\ kernel[p].pc = "user"
        /\ kernel[p].call = "none"
    BY <1>1, AtUserFacts DEF Touch
  <1>5. pgdir[p][u] \in Entries /\ f \in Frames
    BY <1>1, <1>2, <1>3, EntryFacts DEF Tables
  <1> DEFINE e == [pgdir[p][u] EXCEPT !.used = TRUE]
  <1>6. e.at = "ram" /\ e.n = f
    BY <1>2, <1>3, <1>5, MarkedFacts
  <1>7. \A q \in Procs : \A v \in Pages :
          pgdir'[q][v] = IF q = p /\ v = u THEN e ELSE pgdir[q][v]
    BY <1>1, <1>3 DEF Tables
  <1> HIDE DEF e
  <1>8. \A q \in Procs : \A v \in Pages :
          stored'[q][v] = IF q = p /\ v = u THEN x ELSE stored[q][v]
    BY <1>1, <1>3
  <1>9. /\ data'[f] = x /\ \A g \in Frames : g # f => data'[g] = data[g]
    BY <1>1, <1>3, <1>5
  <1>10. ContentTypes' /\ ExecZero(p)' /\ InFlight(p)'
    <2>1. stored' \in [Procs -> [Pages -> Contents]]
      BY <1>1, <1>3
    <2> QED
      BY <1>3, <1>4, <2>1 DEF ContentInv, ContentTypes, ExecZero, InFlight
  <1>11. ASSUME NEW q \in Procs, NEW v \in Pages, state'[q] = "RUNNABLE", v < Extent(q)'
         PROVE  Holds(q, v)'
    <2>1. Extent(q)' = Extent(q)
      BY <1>3 DEF Extent
    <2>2. Holds(q, v)
      BY <1>3, <1>11, <2>1 DEF ContentInv
    <2>3. CASE q = p /\ v = u
      BY <1>6, <1>7, <1>8, <1>9, <2>3 DEF Holds, Held
    <2>4. CASE ~ (q = p /\ v = u)
      <3>1. pgdir'[q][v] = pgdir[q][v] /\ stored'[q][v] = stored[q][v]
        BY <1>7, <1>8, <2>4
      <3>2. ASSUME pgdir[q][v].at = "ram"
            PROVE  data'[pgdir[q][v].n] = data[pgdir[q][v].n]
        <4>1. pgdir[q][v].n \in Frames /\ pgdir[q][v].n # f
          BY <1>2, <1>3, <2>4, <3>2, Apart
        <4> QED
          BY <1>9, <4>1
      <3> QED
        BY <1>1, <1>3, <2>2, <3>1, <3>2, HoldsSame
    <2> QED
      BY <2>3, <2>4
  <1>12. \A q \in Procs : q # p => kernel'[q] = kernel[q]
    BY <1>3
  <1> QED
    BY <1>1, <1>4, <1>10, <1>11, <1>12, ContentOf

\* sbrk() and exit() give back frames and slots of the process itself.
LEMMA ReleaseKeepsContent ==
  ASSUME BaseInv, ContentInv, NEW p \in Procs,
         Exit(p) \/ \E n \in 1 .. MaxPages : Shrink(p, n)
  PROVE  ContentInv'
  <1>1. /\ ShapeInv /\ pgdir \in [Procs -> Tables] /\ sz \in [Procs -> 0 .. MaxPages]
        /\ stored \in [Procs -> [Pages -> Contents]] /\ 0 \in Contents
        /\ state \in [Procs -> {"UNUSED", "EMBRYO", "RUNNABLE", "ZOMBIE"}]
    BY SwapAssumption DEF BaseInv, ShapeInv, KernelInv, StackInv, TableInv, ContentInv,
                          ContentTypes, Contents
  <1>2. /\ state[p] = "RUNNABLE" /\ kernel[p].pc # "wait" /\ kernel[p].pc = "user"
        /\ kernel[p].call = "none" /\ UNCHANGED <<kernel, overrun, disk>>
    BY <1>1, AtUserFacts DEF Exit, Shrink, swap
  <1>3. ExecZero(p)' /\ InFlight(p)'
    BY <1>2 DEF ExecZero, InFlight
  <1>4. \A q \in Procs : q # p => kernel'[q] = kernel[q]
    BY <1>2
  <1>5. CASE Exit(p)
    <2>1. /\ UNCHANGED <<data, sz>>
          /\ \E new : pgdir' = [pgdir EXCEPT ![p] = new]
          /\ state' = [state EXCEPT ![p] = "ZOMBIE"]
          /\ stored' = [stored EXCEPT ![p] = [v \in Pages |-> 0]]
      BY <1>5 DEF Exit, memory
    <2>2. state'[p] = "ZOMBIE" /\ \A q \in Procs : q # p =>
            pgdir'[q] = pgdir[q] /\ state'[q] = state[q] /\ stored'[q] = stored[q]
      BY <1>1, <2>1
    <2>3. ContentTypes'
      <3>1. stored' \in [Procs -> [Pages -> Contents]]
        <4>1. [v \in Pages |-> 0] \in [Pages -> Contents]
          BY <1>1
        <4> QED
          BY <1>1, <2>1, <4>1
      <3> QED
        BY <1>2, <3>1 DEF ContentInv, ContentTypes
    <2>4. ASSUME NEW q \in Procs, NEW v \in Pages, state'[q] = "RUNNABLE", v < Extent(q)'
          PROVE  Holds(q, v)'
      <3>1. q # p
        BY <2>2, <2>4
      <3>2. Extent(q)' = Extent(q)
        BY <1>2, <2>1 DEF Extent
      <3>3. Holds(q, v)
        BY <2>2, <2>4, <3>1, <3>2 DEF ContentInv
      <3> QED
        BY <1>1, <1>2, <2>1, <2>2, <3>1, <3>3, HoldsSame
    <2> QED
      BY <1>1, <1>2, <1>3, <1>4, <2>3, <2>4, ContentOf
  <1>6. CASE \E n \in 1 .. MaxPages : Shrink(p, n)
    <2>1. PICK n \in 1 .. MaxPages : Shrink(p, n)
      BY <1>6
    <2>2. PICK gone : gone = {v \in Resident(pgdir[p]) : v >= n}
      OBVIOUS
    <2>3. PICK frames : frames = {pgdir[p][v].n : v \in gone}
      OBVIOUS
    <2>4. /\ n \in 1 .. sz[p] - 1 /\ n \in Int
          /\ pgdir' = [pgdir EXCEPT ![p] =
               [v \in Pages |-> IF v \in gone THEN Unmapped ELSE pgdir[p][v]]]
          /\ data' = Junked(frames)
          /\ sz' = [sz EXCEPT ![p] = n]
          /\ stored' = [stored EXCEPT ![p] = [v \in Pages |-> IF v < n THEN stored[p][v] ELSE 0]]
          /\ state' = state
      BY <1>1, <2>1, <2>2, <2>3 DEF Shrink
    <2>5. /\ \A v \in Pages : v \notin gone => pgdir'[p][v] = pgdir[p][v]
          /\ \A v \in Pages : v < n => stored'[p][v] = stored[p][v] /\ v \notin gone
          /\ sz'[p] = n
          /\ \A q \in Procs : q # p =>
               pgdir'[q] = pgdir[q] /\ sz'[q] = sz[q] /\ stored'[q] = stored[q]
      <3>1. \A v \in Pages : v < n => v \notin gone
        BY <2>2, <2>4, Numbers
      <3> QED
        BY <1>1, <2>4, <3>1
    <2>6. \A g \in Frames : g \notin frames => data'[g] = data[g]
      BY <2>4 DEF Junked
    <2>7. ContentTypes'
      <3>1. [v \in Pages |-> IF v < n THEN stored[p][v] ELSE 0] \in [Pages -> Contents]
        BY <1>1
      <3>2. stored' \in [Procs -> [Pages -> Contents]]
        BY <1>1, <2>4, <3>1
      <3> QED
        BY <1>2, <3>2 DEF ContentInv, ContentTypes
    <2>8. ASSUME NEW q \in Procs, NEW v \in Pages, state'[q] = "RUNNABLE", v < Extent(q)'
          PROVE  Holds(q, v)'
      <3>1. /\ q = p => v < n
            /\ v < Extent(q)
        <4>1. CASE q = p
          <5>1. v < n
            BY <1>2, <2>5, <2>8, <4>1 DEF Extent
          <5>2. n < sz[p] /\ Extent(p) = sz[p] /\ v \in Int /\ sz[p] \in Int
            BY <1>1, <1>2, <2>4, Numbers DEF Extent
          <5> QED
            BY <2>4, <4>1, <5>1, <5>2
        <4>2. CASE q # p
          BY <1>2, <2>5, <2>8, <4>2 DEF Extent
        <4> QED
          BY <4>1, <4>2
      <3>2. Holds(q, v)
        BY <2>4, <2>8, <3>1 DEF ContentInv
      <3>3. /\ pgdir'[q][v] = pgdir[q][v] /\ stored'[q][v] = stored[q][v]
            /\ q = p => v \notin gone
        BY <2>5, <3>1
      <3>4. ASSUME pgdir[q][v].at = "ram"
            PROVE  data'[pgdir[q][v].n] = data[pgdir[q][v].n]
        <4>1. pgdir[q][v].n \in Frames
          BY <3>4, Apart
        <4>2. pgdir[q][v].n \notin frames
          <5> SUFFICES ASSUME NEW u \in gone, pgdir[p][u].n = pgdir[q][v].n PROVE FALSE
            BY <2>3
          <5>1. u \in Pages /\ pgdir[p][u].at = "ram"
            BY <2>2 DEF Resident
          <5>2. p = q /\ u = v
            BY <3>4, <5>1, Apart
          <5> QED
            BY <3>3, <5>2
        <4> QED
          BY <2>6, <4>1, <4>2
      <3> QED
        BY <1>1, <1>2, <3>2, <3>3, <3>4, HoldsSame
    <2> QED
      BY <1>1, <1>2, <1>3, <1>4, <2>7, <2>8, ContentOf
  <1> QED
    BY <1>5, <1>6

\* wait() frees what the child had, and nothing else.
LEMMA WaitKeepsContent ==
  ASSUME BaseInv, ContentInv, NEW p \in Procs, Wait(p)
  PROVE  ContentInv'
  <1>1. /\ ShapeInv /\ pgdir \in [Procs -> Tables] /\ sz \in [Procs -> 0 .. MaxPages]
        /\ kernel \in [Procs -> KernelTypes]
        /\ kpage \in [Procs -> Frames \cup {NoFrame}]
        /\ state \in [Procs -> {"UNUSED", "EMBRYO", "RUNNABLE", "ZOMBIE"}]
    BY DEF BaseInv, ShapeInv, KernelInv, StackInv, TableInv
  <1>2. PICK c : c = kernel[p].child
    OBVIOUS
  <1>3. PICK frames : frames = FramesOf(pgdir[c]) \cup {kpage[c]}
    OBVIOUS
  <1>4. /\ data' = Junked(frames)
        /\ pgdir' = [pgdir EXCEPT ![c] = NoPages]
        /\ sz' = [sz EXCEPT ![c] = 0]
        /\ state' = [state EXCEPT ![c] = "UNUSED"]
        /\ kernel' = [kernel EXCEPT ![p] = Idle]
        /\ UNCHANGED <<disk, stored, overrun>>
        /\ At(p, "wait") /\ state[c] = "ZOMBIE"
    BY <1>2, <1>3 DEF Wait, swap, history, Enter, Return
  <1>5. c \in Procs /\ \A q \in Procs : kernel[q].pc \in {"user", "wait"} /\ kernel[q].call = "none"
    BY <1>1, <1>2, <1>4, Reaping DEF ShapeInv
  <1>6. \A q \in Procs : kernel'[q].pc \in {"user", "wait"} /\ kernel'[q].call = "none"
    BY <1>1, <1>4, <1>5 DEF Idle
  <1>7. ContentTypes' /\ \A q \in Procs : ExecZero(q)' /\ InFlight(q)'
    BY <1>4, <1>6 DEF ContentInv, ContentTypes, ExecZero, InFlight
  <1>8. state'[c] = "UNUSED" /\ \A q \in Procs : q # c =>
          pgdir'[q] = pgdir[q] /\ sz'[q] = sz[q] /\ state'[q] = state[q]
    BY <1>1, <1>4, <1>5
  <1>9. ASSUME NEW q \in Procs, NEW v \in Pages, state'[q] = "RUNNABLE", v < Extent(q)'
        PROVE  Holds(q, v)'
    <2>1. q # c
      BY <1>8, <1>9
    <2>2. Extent(q)' = Extent(q)
      BY <1>5, <1>6, <1>8, <2>1 DEF Extent
    <2>3. Holds(q, v)
      BY <1>8, <1>9, <2>1, <2>2 DEF ContentInv
    <2>4. ASSUME pgdir[q][v].at = "ram"
          PROVE  data'[pgdir[q][v].n] = data[pgdir[q][v].n]
      <3>1. pgdir[q][v].n \in Frames /\ pgdir[q][v].n # kpage[c]
        BY <1>5, <2>4, Apart
      <3>2. \A u \in Pages : pgdir[c][u].at = "ram" => pgdir[c][u].n # pgdir[q][v].n
        BY <1>5, <2>1, <2>4, Apart
      <3>3. pgdir[q][v].n \notin frames
        BY <1>3, <3>1, <3>2 DEF FramesOf, Resident
      <3> QED
        BY <1>4, <3>1, <3>3 DEF Junked
    <2> QED
      BY <1>1, <1>4, <1>8, <2>1, <2>3, <2>4, HoldsSame
  <1> QED
    BY <1>7, <1>9 DEF ContentInv

\* Boot leaves the first process its program with zeroes.
LEMMA ContentInit == Init => ContentInv
  <1> SUFFICES ASSUME Init PROVE ContentInv
    OBVIOUS
  <1>1. ContentTypes
    BY SwapAssumption DEF Init, ContentTypes, Contents
  <1>2. \A p \in Procs : kernel[p].call = "none" /\ kernel[p].pc = "user"
    BY DEF Init, Idle
  <1>3. \A p \in Procs : ExecZero(p) /\ InFlight(p)
    BY <1>2 DEF ExecZero, InFlight
  <1>4. ASSUME NEW p \in Procs, NEW v \in Pages, state[p] = "RUNNABLE", v < Extent(p)
        PROVE  Holds(p, v)
    <2>1. p = 1 /\ v < ProgramPages
      BY <1>2, <1>4 DEF Init, Extent
    <2>2. v \in 0 .. ProgramPages - 1 /\ v \in 0 .. ProgramPages
      BY <2>1, Numbers, SwapAssumption
    <2>3. FirstImage[v] \in Frames
      BY <2>2, FirstImageFacts
    <2>4. data[FirstImage[v]] = 0
      BY <2>2, <2>3 DEF Init
    <2>5. pgdir[p][v] = InRam(FirstImage[v], FALSE) /\ stored[p][v] = 0
      BY <2>1 DEF Init
    <2> QED
      BY <2>4, <2>5 DEF Holds, Held, InRam
  <1> QED
    BY <1>1, <1>3, <1>4 DEF ContentInv

\* Every step keeps what the pages hold.
LEMMA ContentKept ==
  ASSUME BaseInv, BaseInv', ContentInv, [Next]_vars
  PROVE  ContentInv'
  <1>1. CASE UNCHANGED vars
    BY <1>1, PanicKeepsContent DEF vars
  <1>2. CASE Next
    <2>1. PICK p \in Procs : Kernel(p) \/ User(p)
      BY <1>2 DEF Next
    <2>2. CASE Kernel(p)
      <3>1. CopyPage(p) => ContentInv'
        BY BuildKeepsContent, CopyDoneKeepsContent
      <3> QED
        BY <2>2, <3>1, QuietKeepsContent, SwapOutKeepsContent, SwapOutDoneKeepsContent,
           SbrkPageKeepsContent, FaultKeepsContent, BuildKeepsContent,
           ExecDoneKeepsContent, WaitKeepsContent DEF Kernel
    <2>3. CASE User(p)
      <3>1. (\E v \in Pages : Fault(p, v) \/ \E x \in Values : Touch(p, v, x)) => ContentInv'
        BY QuietKeepsContent, TouchKeepsContent
      <3>2. (\E n \in 1 .. MaxPages : Sbrk(p, n) \/ (p # 1 /\ Shrink(p, n))) => ContentInv'
        BY QuietKeepsContent, ReleaseKeepsContent
      <3> QED
        BY <2>3, <3>1, <3>2, QuietKeepsContent, ReleaseKeepsContent DEF User
    <2> QED
      BY <2>1, <2>2, <2>3
  <1> QED
    BY <1>1, <1>2

\* Swapping is invisible: as long as swap_alloc() has found a slot whenever it
\* was asked, a page holds what its process stored there last, up to a victim
\* that fork() is still building, where the model ends.
THEOREM ContentsAreKept == Spec => []PagesKeepTheirContents
  <1>1. Init => ContentInv
    BY ContentInit
  <1>2. BaseInv /\ BaseInv' /\ ContentInv /\ [Next]_vars => ContentInv'
    BY ContentKept
  <1>3. ASSUME BaseInv, ContentInv PROVE PagesKeepTheirContents
    <2> SUFFICES ASSUME ~overrun, NEW p \in Procs, state[p] = "RUNNABLE",
                        NEW v \in 0 .. sz[p] - 1
                 PROVE  Held(p, v) = stored[p][v]
      BY DEF PagesKeepTheirContents
    <2>1. sz[p] \in 0 .. MaxPages /\ CallShape(p) /\ kernel[p] \in KernelTypes
      BY <1>3 DEF BaseInv, ShapeInv, KernelInv, TableInv
    <2>2. v \in Pages /\ v < sz[p] /\ v \in Int
      BY <2>1, SwapAssumption DEF Pages
    <2>3. Extent(p) \in Int /\ sz[p] <= Extent(p)
      BY <2>1 DEF Extent, CallShape, KernelTypes
    <2>4. v < Extent(p)
      BY <2>1, <2>2, <2>3
    <2> QED
      BY <1>3, <2>2, <2>4 DEF ContentInv, Holds
  <1>4. Spec => []BaseInv
    BY SlotsHold DEF BaseInv
  <1> QED
    BY <1>1, <1>2, <1>3, <1>4, PTL DEF Spec

=============================================================================

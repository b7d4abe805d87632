--------------------------- MODULE SwapAreaProofs ---------------------------
(***************************************************************************)
(* Proofs about SwapArea, for every number of processes, frames and slots, *)
(* and every policy.  KernelInv says where a process can be in the kernel, *)
(* StackInv who can run at all (the deepest child that is not waited for), *)
(* TableInv what the page tables look like meanwhile.  On these rest the   *)
(* partition of the frames and what free_pages counts (SwapFramesProofs),  *)
(* and the owners of the slots, what the pages hold and what rss counts    *)
(* (SwapContentProofs).                                                    *)
(***************************************************************************)
EXTENDS SwapArea, NumberFacts

-----------------------------------------------------------------------------
(* Types that TypeOK does not name *)

Entries ==
  {Unmapped} \cup [at : {"ram"}, n : Frames, used : BOOLEAN]
    \cup [at : {"swap"}, n : Slots, used : {FALSE}]

Tables == [Pages -> Entries]

Calls == {"sbrk", "fork", "exec", "fault"}

KernelTypes == [
  pc : {"user", "kalloc", "again", "adaptive", "emergency", "writing", "got",
        "read", "copy", "wait"},
  call : Calls \cup {"none"},
  page : Int, goal : Int, child : Int,
  table : Tables, kpage : Frames \cup {NoFrame},
  source : Entries, frame : Frames \cup {NoFrame},
  left : Nat, after : {"user", "got", "again"},
  victim : Procs \cup {0}, vpage : Pages \cup {0}, slot : Slots \cup {0}]

Waiting(c) == [Idle EXCEPT !.pc = "wait", !.child = c]

\* What kalloc() and swap_out() have in hand at each of their steps.
KernelShape(k) ==
  /\ k.pc = "user" => k = Idle
  /\ k.pc = "wait" => k = Waiting(k.child)
  /\ k.pc \notin {"user", "wait"} => k.call \in Calls
  /\ k.pc \in {"kalloc", "again", "emergency", "copy"} => k.frame = NoFrame
  /\ k.pc \in {"adaptive", "got", "read"} => k.frame \in Frames
  /\ k.pc = "emergency" => k.left = 1 /\ k.after = "again"
  /\ k.pc = "adaptive" => k.left >= 1 /\ k.after = "got"
  /\ k.pc = "writing" =>
       /\ k.left >= 1
       /\ \/ k.after = "again" /\ k.left = 1 /\ k.frame = NoFrame
          \/ k.after = "got" /\ k.frame \in Frames
       /\ k.victim \in Procs /\ k.vpage \in Pages /\ k.slot \in Slots
  /\ k.pc = "read" => k.call = "fault" /\ k.slot \in Slots
  /\ k.pc = "copy" => k.call = "fork" /\ k.page >= 0

\* Where a process can be in the kernel, and what page tables hold.
KernelInv ==
  /\ kernel \in [Procs -> KernelTypes]
  /\ pgdir \in [Procs -> Tables]
  /\ rss \in [Procs -> Int]
  /\ freelist \subseteq Frames
  /\ usedSlots \subseteq Slots
  /\ th \in 1 .. TH
  /\ npg \in 1 .. Max({LIMIT, NPG})
  /\ \A p \in Procs : KernelShape(kernel[p])

\* The processes in use are a stack: each waits for the next one, or is
\* building it, and the last one runs or has exited.
StackInv ==
  /\ state \in [Procs -> {"UNUSED", "EMBRYO", "RUNNABLE", "ZOMBIE"}]
  /\ state[1] = "RUNNABLE"
  /\ \A p \in Procs : state[p] # "RUNNABLE" => kernel[p] = Idle
  /\ \A p \in Procs : kernel[p].pc = "wait" =>
       /\ kernel[p].child = p + 1
       /\ p + 1 \in Procs
       /\ state[p + 1] \in {"RUNNABLE", "ZOMBIE"}
  /\ \A p \in Procs : kernel[p].call = "fork" =>
       /\ kernel[p].child = p + 1
       /\ p + 1 \in Procs
       /\ state[p + 1] = "EMBRYO"
  /\ \A p, q \in Procs : p < q /\ state[q] # "UNUSED" =>
       /\ state[p] = "RUNNABLE"
       /\ kernel[p].pc = "wait" \/ (q = p + 1 /\ kernel[p].call = "fork")

\* The pages of p that are mapped: sbrk() sets the size when it is done.
Extent(p) == IF kernel[p].call = "sbrk" THEN kernel[p].page ELSE sz[p]

\* exec() and fork() have built the new table up to page v.
BuiltTo(table, v) ==
  \A w \in Pages : IF w < v THEN table[w].at = "ram" ELSE table[w] = Unmapped

\* swap_write() is writing a resident page to a slot in use.
WritingShape(k) ==
  /\ InUse(k.victim)
  /\ pgdir[k.victim][k.vpage].at = "ram"
  /\ k.slot \in usedSlots

\* What each call knows of its page and of its process's table.
CallShape(p) ==
  LET k == kernel[p] IN
  /\ k.call = "sbrk" => k.page \in sz[p] .. k.goal - 1 /\ k.goal <= MaxPages
  /\ k.call = "fault" =>
       /\ k.page \in 0 .. sz[p] - 1
       /\ pgdir[p][k.page].at = "swap"
       /\ k.pc = "read" => k.slot = pgdir[p][k.page].n
  /\ k.call = "exec" => k.page \in -1 .. ProgramPages - 1
  /\ k.call = "fork" =>
       /\ k.page \in -1 .. sz[p] - 1
       /\ k.page >= 0 /\ k.pc # "copy" => k.source.at = "ram"
  /\ k.call \in {"exec", "fork"} =>
       /\ BuiltTo(k.table, k.page)
       /\ k.kpage = NoFrame <=> k.page = -1
  /\ k.call \notin {"exec", "fork"} => k.table = NoPages /\ k.kpage = NoFrame
  /\ k.pc = "writing" => WritingShape(k)

\* What the page tables look like while the calls go on.
TableInv ==
  /\ sz \in [Procs -> 0 .. MaxPages]
  /\ kpage \in [Procs -> Frames \cup {NoFrame}]
  /\ \A p \in Procs : ~InUse(p) =>
       pgdir[p] = NoPages /\ kpage[p] = NoFrame /\ sz[p] = 0
  /\ \A p \in Procs : InUse(p) => kpage[p] \in Frames /\ sz[p] >= 1
  /\ \A p \in Procs : \A v \in Pages : v >= Extent(p) => pgdir[p][v].at # "ram"
  /\ \A p \in Procs : CallShape(p)

ShapeInv == KernelInv /\ StackInv /\ TableInv

-----------------------------------------------------------------------------
(* Facts about the helpers *)

\* The smaller and the larger of two numbers.
LEMMA MinMax ==
  ASSUME NEW a \in Int, NEW b \in Int
  PROVE  /\ Min({a, b}) \in {a, b} /\ Min({a, b}) <= a /\ Min({a, b}) <= b
         /\ Max({a, b}) \in {a, b} /\ Max({a, b}) >= a /\ Max({a, b}) >= b
  <1>1. \E x \in {a, b} : \A y \in {a, b} : x <= y
    <2>1. CASE a <= b
      BY <2>1
    <2>2. CASE ~ (a <= b)
      BY <2>2
    <2> QED
      BY <2>1, <2>2
  <1>2. \E x \in {a, b} : \A y \in {a, b} : x >= y
    <2>1. CASE a >= b
      BY <2>1
    <2>2. CASE ~ (a >= b)
      BY <2>2
    <2> QED
      BY <2>1, <2>2
  <1>3. Min({a, b}) \in {a, b} /\ \A y \in {a, b} : Min({a, b}) <= y
    BY <1>1 DEF Min
  <1>4. Max({a, b}) \in {a, b} /\ \A y \in {a, b} : Max({a, b}) >= y
    BY <1>2 DEF Max
  <1> QED
    BY <1>3, <1>4

\* The first of some pages or slots is one of them.
LEMMA MinOfSet ==
  ASSUME NEW S \in SUBSET Nat, S # {}
  PROVE  Min(S) \in S /\ \A x \in S : Min(S) <= x
  BY LeastElement DEF Min

\* Numbers, and the constants as the proofs use them.
LEMMA Numbers ==
  /\ Procs \subseteq Nat \ {0} /\ 1 \in Procs
  /\ Slots \subseteq Nat /\ 0 \in Slots
  /\ Pages \subseteq Nat /\ 0 \in Pages
  /\ 0 \notin Frames /\ NoFrame = 0
  /\ IsFiniteSet(Frames) /\ IsFiniteSet(Pages)
  /\ {TH, NPG, LIMIT} \subseteq Nat \ {0}
  <1>1. IsFiniteSet(0 .. MaxPages - 1)
    BY SwapAssumption, FS_Interval
  <1>2. Slots \subseteq Nat /\ 0 \in Slots /\ Pages \subseteq Nat /\ 0 \in Pages
    BY SwapAssumption DEF Slots, Pages
  <1>3. Procs \subseteq Nat \ {0} /\ 1 \in Procs
    BY SwapAssumption DEF Procs
  <1> QED
    BY <1>1, <1>2, <1>3, SwapAssumption DEF Pages, NoFrame

\* A page table entry has one of three forms.
LEMMA EntryFacts ==
  /\ Unmapped \in Entries
  /\ \A f \in Frames : \A u \in BOOLEAN : InRam(f, u) \in Entries
  /\ \A s \in Slots : InSwap(s) \in Entries
  /\ NoPages \in Tables
  /\ \A e \in Entries :
       /\ e.at \in {"none", "ram", "swap"}
       /\ e.at = "ram" => e.n \in Frames /\ e.used \in BOOLEAN
       /\ e.at = "swap" => e.n \in Slots
       /\ e.at = "none" => e = Unmapped
       /\ e.at = "ram" => e = InRam(e.n, e.used)
  <1>1. Unmapped \in Entries
    BY DEF Entries
  <1>2. ASSUME NEW f \in Frames, NEW u \in BOOLEAN PROVE InRam(f, u) \in Entries
    BY DEF InRam, Entries
  <1>3. ASSUME NEW s \in Slots PROVE InSwap(s) \in Entries
    BY DEF InSwap, Entries
  <1>4. ASSUME NEW e \in Entries
        PROVE  /\ e.at \in {"none", "ram", "swap"}
               /\ e.at = "ram" => e.n \in Frames /\ e.used \in BOOLEAN
               /\ e.at = "swap" => e.n \in Slots
               /\ e.at = "none" => e = Unmapped
               /\ e.at = "ram" => e = InRam(e.n, e.used)
    <2>1. CASE e = Unmapped
      BY <2>1 DEF Unmapped
    <2>2. CASE e \in [at : {"ram"}, n : Frames, used : BOOLEAN]
      BY <2>2 DEF InRam
    <2>3. CASE e \in [at : {"swap"}, n : Slots, used : {FALSE}]
      BY <2>3
    <2> QED
      BY <2>1, <2>2, <2>3 DEF Entries
  <1> QED
    BY <1>1, <1>2, <1>3, <1>4 DEF NoPages, Tables

\* Nothing in hand.
LEMMA IdleFacts ==
  Idle \in KernelTypes /\ KernelShape(Idle)
  BY EntryFacts DEF Idle, KernelTypes, KernelShape, Calls

\* A process that waits has nothing in hand either.
LEMMA WaitingFacts ==
  ASSUME NEW c \in Int
  PROVE  /\ Waiting(c) \in KernelTypes /\ KernelShape(Waiting(c))
         /\ Waiting(c).pc = "wait" /\ Waiting(c).call = "none"
         /\ Waiting(c).child = c
  <1>1. Waiting(c) \in KernelTypes
    BY IdleFacts DEF Waiting, KernelTypes
  <1>2. /\ Waiting(c).pc = "wait" /\ Waiting(c).call = "none"
        /\ Waiting(c).child = c
    BY DEF Waiting, Idle
  <1> QED
    BY <1>1, <1>2 DEF KernelShape

-----------------------------------------------------------------------------
(* swap_out(), its policy and the counter *)

\* Looking for an idle page leaves every entry where it is.
LEMMA AgedFacts ==
  ASSUME NEW table \in Tables
  PROVE  /\ Aged(table) \in Tables
         /\ \A v \in Pages :
              /\ Aged(table)[v].at = table[v].at /\ Aged(table)[v].n = table[v].n
              /\ table[v].at # "ram" => Aged(table)[v] = table[v]
  <1> SUFFICES ASSUME NEW v \in Pages
               PROVE  /\ Aged(table)[v] \in Entries
                      /\ Aged(table)[v].at = table[v].at
                      /\ Aged(table)[v].n = table[v].n
                      /\ table[v].at # "ram" => Aged(table)[v] = table[v]
    BY DEF Aged, Tables
  <1>1. table[v] \in Entries
    BY DEF Tables
  <1>2. CASE Aged(table)[v] = table[v]
    BY <1>1, <1>2
  <1>3. CASE Aged(table)[v] # table[v]
    <2>1. /\ Aged(table)[v] = [table[v] EXCEPT !.used = FALSE]
          /\ table[v].at = "ram"
      BY <1>3 DEF Aged, Resident
    <2>2. table[v] \in [at : {"ram"}, n : Frames, used : BOOLEAN]
      <3>1. table[v] # Unmapped
        BY <2>1 DEF Unmapped
      <3>2. table[v] \notin [at : {"swap"}, n : Slots, used : {FALSE}]
        BY <2>1
      <3> QED
        BY <1>1, <3>1, <3>2 DEF Entries
    <2> QED
      BY <2>1, <2>2 DEF Entries
  <1> QED
    BY <1>2, <1>3

\* find_victim_page() finds a resident page when there is one.
LEMMA VictimPageFacts ==
  ASSUME NEW table \in Tables, Resident(table) # {}
  PROVE  VictimPage(table) \in Resident(table)
  <1>1. /\ Resident(table) \in SUBSET Nat
        /\ Idlers(table) \in SUBSET Nat /\ Idlers(table) \subseteq Resident(table)
    BY Numbers DEF Resident, Idlers
  <1>2. CASE Idlers(table) = {}
    BY <1>1, <1>2, MinOfSet DEF VictimPage
  <1>3. CASE Idlers(table) # {}
    BY <1>1, <1>3, MinOfSet DEF VictimPage
  <1> QED
    BY <1>2, <1>3

\* find_victim_process() finds a candidate when there is one: the largest, and
\* the first of these.
LEMMA VictimIsCandidate ==
  ASSUME rss \in [Procs -> Int], Candidates # {}
  PROVE  VictimProcess \in Candidates
  <1>1. PICK b \in Nat : \A p \in Procs : rss[p] <= b
    BY Bounded, SwapAssumption DEF Procs
  <1>2. Candidates \subseteq Procs
    BY DEF Candidates
  <1> DEFINE Spare == {b - rss[q] : q \in Candidates}
  <1>3. Spare \in SUBSET Nat /\ Spare # {}
    BY <1>1, <1>2
  <1>4. PICK m \in Spare : \A y \in Spare : m <= y
    <2> HIDE DEF Spare
    <2> QED
      BY <1>3, LeastElement
  <1> DEFINE Largest == {q \in Candidates : b - rss[q] = m}
  <1>5. Largest \in SUBSET Nat /\ Largest # {}
    BY <1>2, <1>4, Numbers
  <1>6. PICK q \in Largest : \A r \in Largest : q <= r
    <2> HIDE DEF Largest
    <2> QED
      BY <1>5, LeastElement
  <1>7. \A r \in Candidates : rss[q] > rss[r] \/ (rss[q] = rss[r] /\ q <= r)
    <2> SUFFICES ASSUME NEW r \in Candidates
                 PROVE  rss[q] > rss[r] \/ (rss[q] = rss[r] /\ q <= r)
      OBVIOUS
    <2>1. m <= b - rss[r] /\ b - rss[q] = m
      BY <1>4, <1>6
    <2>2. rss[q] \in Int /\ rss[r] \in Int
      BY <1>2, <1>6
    <2>3. rss[r] = rss[q] => r \in Largest
      BY <2>1
    <2> QED
      BY <1>6, <2>1, <2>2, <2>3
  <1>8. q \in Candidates
    BY <1>6
  <1> QED
    BY <1>7, <1>8 DEF VictimProcess

\* So swap_out() finds a process with a page, and swap_alloc() a slot.
LEMMA VictimFacts ==
  ASSUME KernelInv, StackInv, ~NoVictim
  PROVE  /\ VictimProcess \in Procs
         /\ InUse(VictimProcess)
         /\ VictimPage(pgdir[VictimProcess]) \in Resident(pgdir[VictimProcess])
         /\ VictimPage(pgdir[VictimProcess]) \in Pages
         /\ SwapAlloc \in Slots
         /\ usedSlots # Slots => SwapAlloc \notin usedSlots
  <1>1. VictimProcess \in Candidates
    BY VictimIsCandidate DEF KernelInv, NoVictim
  <1>2. VictimProcess \in Procs /\ InUse(VictimProcess)
    BY <1>1 DEF Candidates, InUse, StackInv, NoVictim
  <1>3. VictimPage(pgdir[VictimProcess]) \in Resident(pgdir[VictimProcess])
    BY <1>2, VictimPageFacts DEF KernelInv, NoVictim
  <1>4. SwapAlloc \in Slots /\ (usedSlots # Slots => SwapAlloc \notin usedSlots)
    <2>1. CASE usedSlots = Slots
      BY <2>1, Numbers DEF SwapAlloc
    <2>2. CASE usedSlots # Slots
      <3>1. (Slots \ usedSlots) \in SUBSET Nat /\ Slots \ usedSlots # {}
        BY <2>2, Numbers DEF KernelInv
      <3> QED
        BY <2>2, <3>1, MinOfSet DEF SwapAlloc
    <2> QED
      BY <2>1, <2>2
  <1> QED
    BY <1>2, <1>3, <1>4 DEF Resident

\* A shortage lowers Th, and changes Npg up to LIMIT.
LEMMA PolicyFacts ==
  ASSUME th \in 1 .. TH, npg \in 1 .. Max({LIMIT, NPG})
  PROVE  NextTh \in 1 .. TH /\ NextNpg \in 1 .. Max({LIMIT, NPG})
  <1>1. NextTh \in 1 .. TH
    <2> DEFINE x == th * BETA
    <2>1. th \in Nat /\ th >= 1 /\ th <= TH /\ TH \in Nat /\ BETA \in Nat /\ BETA <= 99
      BY SwapAssumption
    <2>2. x \in Int /\ 0 <= x /\ x <= 99 * th
      BY <2>1
    <2> HIDE DEF x
    <2>3. x \div 100 >= 0 /\ x \div 100 <= th - 1 /\ x \div 100 \in Int
      BY <2>1, <2>2
    <2>4. NextTh = th - (x \div 100)
      BY DEF NextTh, x
    <2> QED
      BY <2>1, <2>3, <2>4
  <1>2. NextNpg \in 1 .. Max({LIMIT, NPG})
    <2> DEFINE x == npg * ALPHA
               bound == Max({LIMIT, NPG})
    <2>1. /\ LIMIT \in Nat \ {0} /\ NPG \in Nat \ {0}
          /\ bound \in Int /\ LIMIT <= bound
      BY SwapAssumption, MinMax
    <2> HIDE DEF bound
    <2>2. npg \in Nat /\ npg >= 1 /\ ALPHA \in Nat
      BY <2>1, SwapAssumption DEF bound
    <2>3. x \in Nat
      BY <2>2
    <2> HIDE DEF x
    <2> DEFINE y == npg + (x \div 100)
    <2>4. y \in Int /\ y >= 1
      BY <2>2, <2>3
    <2>5. NextNpg = Min({LIMIT, y})
      BY DEF NextNpg, x
    <2> HIDE DEF y
    <2>6. NextNpg \in {LIMIT, y} /\ NextNpg <= LIMIT
      <3>1. LIMIT \in Int
        BY <2>1
      <3> QED
        BY <3>1, <2>4, <2>5, MinMax
    <2> QED
      BY <2>1, <2>4, <2>6 DEF bound
  <1> QED
    BY <1>1, <1>2

\* kfree() adds at most what it frees to free_pages.
LEMMA CountedFacts ==
  ASSUME freePages \in Int, NEW n \in Nat
  PROVE  Counted(n) \in Int /\ Counted(n) <= freePages + n
  BY MinMax DEF Counted

-----------------------------------------------------------------------------
(* Where a process can be in the kernel *)

\* A step that gives p a legal position, and no other process another one.
LEMMA EnterKeeps ==
  ASSUME KernelInv, NEW p \in Procs, NEW k \in KernelTypes, KernelShape(k),
         kernel' = [kernel EXCEPT ![p] = k],
         pgdir' \in [Procs -> Tables], rss' \in [Procs -> Int],
         freelist' \subseteq Frames, usedSlots' \subseteq Slots,
         th' \in 1 .. TH, npg' \in 1 .. Max({LIMIT, NPG})
  PROVE  KernelInv'
  <1>1. kernel' \in [Procs -> KernelTypes]
    BY DEF KernelInv
  <1>2. \A q \in Procs : KernelShape(kernel'[q])
    BY DEF KernelInv
  <1> QED
    BY <1>1, <1>2 DEF KernelInv, KernelShape, KernelTypes

\* kalloc() keeps it.
LEMMA KallocKeepsKernel ==
  ASSUME ShapeInv, NEW p \in Procs, KallocTakes(p) \/ KallocFindsNone(p)
  PROVE  KernelInv'
  <1> DEFINE k == kernel[p]
  <1>1. k \in KernelTypes /\ KernelShape(k)
    BY DEF ShapeInv, KernelInv
  <1>2. CASE KallocTakes(p)
    <2> DEFINE few == freePages' \in 1 .. th - 1
               k2 == [k EXCEPT !.frame = NextFree,
                        !.pc = IF few THEN "adaptive" ELSE "got",
                        !.left = IF few THEN npg ELSE 0,
                        !.after = "got"]
    <2>1. kernel' = [kernel EXCEPT ![p] = k2]
      BY <1>2 DEF KallocTakes, ShapeInv, KernelInv
    <2>2. NextFree \in Frames /\ npg \in Nat /\ npg >= 1
      <3>1. NextFree \in freelist
        BY <1>2 DEF KallocTakes, NextFree
      <3>2. Max({LIMIT, NPG}) \in Int
        <4>1. LIMIT \in Int /\ NPG \in Int
          BY Numbers
        <4>2. Max({LIMIT, NPG}) \in {LIMIT, NPG}
          BY <4>1, MinMax
        <4> QED
          BY <4>1, <4>2
      <3> QED
        BY <3>1, <3>2 DEF ShapeInv, KernelInv
    <2>3. k2 \in KernelTypes
      <3>1. CASE few
        BY <1>1, <2>2, <3>1 DEF KernelTypes
      <3>2. CASE ~ few
        BY <1>1, <2>2, <3>2 DEF KernelTypes
      <3> QED
        BY <3>1, <3>2
    <2>4. KernelShape(k2)
      <3>1. k.pc \in {"kalloc", "again"}
        BY <1>2 DEF KallocTakes, At
      <3> QED
        BY <1>1, <2>2, <3>1 DEF KernelTypes, KernelShape
    <2> HIDE DEF k2
    <2> QED
      BY <1>2, <2>1, <2>3, <2>4, EnterKeeps
         DEF KallocTakes, ShapeInv, KernelInv, swap, policy, procs
  <1>3. CASE KallocFindsNone(p)
    <2>1. CASE k.pc = "again"
      BY <1>3, <2>1 DEF KallocFindsNone, Panic, ShapeInv, KernelInv, KernelShape,
                        memory, swap, policy, procs
    <2>2. CASE k.pc = "kalloc"
      <3> DEFINE k2 == [k EXCEPT !.pc = "emergency", !.left = 1, !.after = "again"]
      <3>1. kernel' = [kernel EXCEPT ![p] = k2]
        BY <1>3, <2>2 DEF KallocFindsNone, ShapeInv, KernelInv
      <3>2. k2 \in KernelTypes
        BY <1>1 DEF KernelTypes
      <3>3. KernelShape(k2)
        BY <1>1, <2>2 DEF KernelTypes, KernelShape
      <3> HIDE DEF k2
      <3> QED
        BY <1>3, <2>2, <3>1, <3>2, <3>3, EnterKeeps
           DEF KallocFindsNone, ShapeInv, KernelInv, memory, swap, policy, procs
    <2> QED
      BY <1>3, <2>1, <2>2 DEF KallocFindsNone, At
  <1> QED
    BY <1>2, <1>3

\* swap_out() keeps it.
LEMMA SwapOutKeepsKernel ==
  ASSUME ShapeInv, NEW p \in Procs, SwapOut(p) \/ SwapOutDone(p)
  PROVE  KernelInv'
  <1> DEFINE k == kernel[p]
  <1>1. k \in KernelTypes /\ KernelShape(k)
    BY DEF ShapeInv, KernelInv
  <1>2. CASE SwapOut(p) /\ NoVictim
    BY <1>2 DEF SwapOut, Panic, ShapeInv, KernelInv, KernelShape,
                memory, swap, policy, procs
  <1>3. CASE SwapOut(p) /\ ~NoVictim
    <2> DEFINE q == VictimProcess
               v == VictimPage(pgdir[q])
               s == SwapAlloc
               k2 == [k EXCEPT !.pc = "writing", !.victim = q, !.vpage = v,
                               !.slot = s]
    <2>1. q \in Procs /\ v \in Pages /\ s \in Slots
      BY <1>3, VictimFacts DEF ShapeInv
    <2>2. /\ k.pc \in {"adaptive", "emergency"}
          /\ pgdir' = [pgdir EXCEPT ![q] = Aged(pgdir[q])]
          /\ usedSlots' = usedSlots \cup {s}
          /\ kernel' = [kernel EXCEPT ![p] = k2]
          /\ UNCHANGED <<freelist, th, npg, rss>>
      BY <1>3 DEF SwapOut, At, memory, policy, ShapeInv, KernelInv
    <2>3. pgdir' \in [Procs -> Tables]
      BY <2>1, <2>2, AgedFacts DEF ShapeInv, KernelInv
    <2> HIDE DEF q, v, s
    <2>4. k2 \in KernelTypes
      BY <1>1, <2>1 DEF KernelTypes
    <2>5. KernelShape(k2)
      BY <1>1, <2>1, <2>2 DEF KernelTypes, KernelShape
    <2> HIDE DEF k2
    <2> QED
      BY <2>1, <2>2, <2>3, <2>4, <2>5, EnterKeeps DEF ShapeInv, KernelInv
  <1>4. CASE SwapOutDone(p)
    <2> DEFINE f == pgdir[k.victim][k.vpage].n
               k2 == [k EXCEPT !.left = k.left - 1,
                        !.pc = IF k.left = 1 THEN k.after ELSE "adaptive",
                        !.victim = 0, !.vpage = 0, !.slot = 0]
    <2>1. /\ k.pc = "writing"
          /\ pgdir' = [pgdir EXCEPT ![k.victim][k.vpage] = InSwap(k.slot)]
          /\ freelist' = freelist \cup {f}
          /\ rss' = [rss EXCEPT ![k.victim] = rss[k.victim] - 1]
          /\ kernel' = [kernel EXCEPT ![p] = k2]
          /\ \/ th' = NextTh /\ npg' = NextNpg
             \/ UNCHANGED policy
          /\ UNCHANGED usedSlots
      BY <1>4 DEF SwapOutDone, At, swap, ShapeInv, KernelInv
    <2>2. k.victim \in Procs /\ k.vpage \in Pages /\ k.slot \in Slots
      BY <1>1, <2>1 DEF KernelShape
    <2>3. InSwap(k.slot) \in Entries
      BY <2>2, EntryFacts
    <2>4. pgdir' \in [Procs -> Tables]
      BY <2>1, <2>2, <2>3 DEF ShapeInv, KernelInv, Tables
    <2>5. rss' \in [Procs -> Int] /\ usedSlots' \subseteq Slots
      BY <2>1, <2>2 DEF ShapeInv, KernelInv
    <2>6. freelist' \subseteq Frames
      <3>1. pgdir[k.victim][k.vpage].at = "ram"
        BY <2>1 DEF ShapeInv, TableInv, CallShape, WritingShape
      <3>2. f \in Frames
        BY <2>2, <3>1, EntryFacts DEF ShapeInv, KernelInv, Tables
      <3> QED
        BY <2>1, <3>2 DEF ShapeInv, KernelInv
    <2>7. th' \in 1 .. TH /\ npg' \in 1 .. Max({LIMIT, NPG})
      BY <2>1, PolicyFacts DEF ShapeInv, KernelInv, policy
    <2>8. k2 \in KernelTypes
      <3>1. k.left - 1 \in Nat /\ k.after \in {"got", "again"}
        BY <1>1, <2>1 DEF KernelTypes, KernelShape
      <3>2. ASSUME NEW l \in Nat, NEW c \in {"got", "again", "adaptive"}
            PROVE  [k EXCEPT !.left = l, !.pc = c, !.victim = 0, !.vpage = 0,
                             !.slot = 0] \in KernelTypes
        BY <1>1 DEF KernelTypes
      <3> QED
        BY <3>1, <3>2
    <2>9. KernelShape(k2)
      BY <1>1, <2>1 DEF KernelTypes, KernelShape
    <2> HIDE DEF k2
    <2> QED
      BY <2>1, <2>4, <2>5, <2>6, <2>7, <2>8, <2>9, EnterKeeps DEF ShapeInv
  <1> QED
    BY <1>2, <1>3, <1>4

\* The frames of a page table.
LEMMA FramesOfFacts ==
  ASSUME NEW table \in Tables
  PROVE  /\ FramesOf(table) \subseteq Frames
         /\ Resident(table) \subseteq Pages
         /\ \A v \in Resident(table) : table[v].n \in Frames
  BY EntryFacts DEF FramesOf, Resident, Tables

\* Entering a system call, or a page fault, keeps it.
LEMMA CallKeepsKernel ==
  ASSUME ShapeInv, NEW p \in Procs,
         \/ \E n \in 1 .. MaxPages : Sbrk(p, n)
         \/ \E v \in Pages : Fault(p, v)
         \/ Exec(p) \/ Fork(p)
  PROVE  KernelInv'
  <1>1. CASE \E n \in 1 .. MaxPages : Sbrk(p, n)
    <2>1. PICK n \in 1 .. MaxPages : Sbrk(p, n)
      BY <1>1
    <2> DEFINE k2 == [Idle EXCEPT !.pc = "kalloc", !.call = "sbrk", !.page = sz[p],
                                  !.goal = n]
    <2>2. sz[p] \in Int /\ n \in Int
      BY DEF ShapeInv, TableInv
    <2>3. k2 \in KernelTypes
      BY <2>2, IdleFacts DEF KernelTypes, Calls
    <2>4. KernelShape(k2)
      BY DEF Idle, KernelShape, Calls
    <2> HIDE DEF k2
    <2> QED
      BY <2>1, <2>3, <2>4, EnterKeeps
         DEF Sbrk, Enter, ShapeInv, KernelInv, memory, swap, policy, procs, k2
  <1>2. CASE \E v \in Pages : Fault(p, v)
    <2>1. PICK v \in Pages : Fault(p, v)
      BY <1>2
    <2> DEFINE k2 == [Idle EXCEPT !.pc = "kalloc", !.call = "fault", !.page = v]
    <2>2. v \in Int
      BY Numbers
    <2>3. k2 \in KernelTypes
      BY <2>2, IdleFacts DEF KernelTypes, Calls
    <2>4. KernelShape(k2)
      BY DEF Idle, KernelShape, Calls
    <2> HIDE DEF k2
    <2> QED
      BY <2>1, <2>3, <2>4, EnterKeeps
         DEF Fault, Enter, ShapeInv, KernelInv, memory, swap, policy, procs, k2
  <1>3. CASE Exec(p)
    <2> DEFINE k2 == [Idle EXCEPT !.pc = "kalloc", !.call = "exec", !.page = -1]
    <2>3. k2 \in KernelTypes
      <3>1. ASSUME NEW i \in Int
            PROVE  [Idle EXCEPT !.pc = "kalloc", !.call = "exec", !.page = i]
                     \in KernelTypes
        BY IdleFacts DEF KernelTypes, Calls
      <3>2. -1 \in Int
        OBVIOUS
      <3> QED
        BY <3>1, <3>2
    <2>4. KernelShape(k2)
      BY DEF Idle, KernelShape, Calls
    <2> HIDE DEF k2
    <2> QED
      BY <1>3, <2>3, <2>4, EnterKeeps
         DEF Exec, Enter, ShapeInv, KernelInv, memory, swap, policy, procs, k2
  <1>4. CASE Fork(p)
    <2>1. PICK c \in Procs :
            /\ Enter(p, [Idle EXCEPT !.pc = "kalloc", !.call = "fork",
                                     !.page = -1, !.child = c])
            /\ UNCHANGED <<memory, swap, policy, pgdir, rss>>
      BY <1>4 DEF Fork
    <2> DEFINE k2 == [Idle EXCEPT !.pc = "kalloc", !.call = "fork", !.page = -1,
                                  !.child = c]
    <2>2. c \in Int
      BY Numbers
    <2>3. k2 \in KernelTypes
      <3>1. ASSUME NEW i \in Int
            PROVE  [Idle EXCEPT !.pc = "kalloc", !.call = "fork", !.page = i,
                                !.child = c] \in KernelTypes
        BY <2>2, IdleFacts DEF KernelTypes, Calls
      <3>2. -1 \in Int
        OBVIOUS
      <3> QED
        BY <3>1, <3>2
    <2>4. KernelShape(k2)
      BY DEF Idle, KernelShape, Calls
    <2> HIDE DEF k2
    <2> QED
      BY <2>1, <2>3, <2>4, EnterKeeps
         DEF Enter, ShapeInv, KernelInv, memory, swap, policy, k2
  <1> QED
    BY <1>1, <1>2, <1>3, <1>4

\* The turn of a call's loop.
LEMMA NextPageFacts ==
  ASSUME NEW k \in KernelTypes, k.call \in Calls, k.pc = "got"
  PROVE  /\ NextPage(k) \in KernelTypes /\ KernelShape(NextPage(k))
         /\ NextPage(k).page = k.page + 1 /\ NextPage(k).call = k.call
         /\ NextPage(k).frame = NoFrame /\ NextPage(k).pc = "kalloc"
         /\ NextPage(k).table = k.table /\ NextPage(k).kpage = k.kpage
         /\ NextPage(k).child = k.child /\ NextPage(k).goal = k.goal
  <1>1. k.page + 1 \in Int
    BY DEF KernelTypes
  <1>2. NextPage(k) \in KernelTypes
    <2>1. ASSUME NEW i \in Int
          PROVE  [k EXCEPT !.page = i, !.pc = "kalloc", !.frame = NoFrame]
                   \in KernelTypes
      BY DEF KernelTypes
    <2> QED
      BY <1>1, <2>1 DEF NextPage
  <1>3. /\ NextPage(k).page = k.page + 1 /\ NextPage(k).call = k.call
        /\ NextPage(k).frame = NoFrame /\ NextPage(k).pc = "kalloc"
        /\ NextPage(k).table = k.table /\ NextPage(k).kpage = k.kpage
        /\ NextPage(k).child = k.child /\ NextPage(k).goal = k.goal
    BY DEF NextPage, KernelTypes
  <1> QED
    BY <1>2, <1>3 DEF KernelShape

\* sbrk() and a page fault keep it.
LEMMA PageKeepsKernel ==
  ASSUME ShapeInv, NEW p \in Procs, SbrkPage(p) \/ SwapRead(p) \/ SwapIn(p)
  PROVE  KernelInv'
  <1> DEFINE k == kernel[p]
  <1>1. k \in KernelTypes /\ KernelShape(k) /\ rss[p] + 1 \in Int
    BY DEF ShapeInv, KernelInv
  <1>2. k.frame \in Frames => InRam(k.frame, FALSE) \in Entries
    BY EntryFacts
  <1>3. CASE SbrkPage(p)
    <2> DEFINE k2 == IF k.page + 1 < k.goal THEN NextPage(k) ELSE Idle
    <2>1. /\ k.pc = "got" /\ k.call = "sbrk"
          /\ pgdir' = [pgdir EXCEPT ![p][k.page] = InRam(k.frame, FALSE)]
          /\ rss' = [rss EXCEPT ![p] = rss[p] + 1]
          /\ kernel' = [kernel EXCEPT ![p] = k2]
          /\ UNCHANGED <<freelist, usedSlots, th, npg>>
      BY <1>3 DEF SbrkPage, Enter, Return, At, swap, policy
    <2>2. k2 \in KernelTypes /\ KernelShape(k2)
      BY <1>1, <2>1, NextPageFacts, IdleFacts DEF Calls
    <2>3. pgdir' \in [Procs -> Tables] /\ rss' \in [Procs -> Int]
      BY <1>1, <1>2, <2>1 DEF ShapeInv, KernelInv, KernelShape, Tables
    <2> HIDE DEF k2
    <2> QED
      BY <2>1, <2>2, <2>3, EnterKeeps DEF ShapeInv, KernelInv
  <1>4. CASE SwapRead(p)
    <2> DEFINE n == pgdir[p][k.page].n
               k2 == [k EXCEPT !.pc = "read", !.slot = n]
    <2>1. /\ k.pc = "got" /\ k.call = "fault"
          /\ kernel' = [kernel EXCEPT ![p] = k2]
          /\ UNCHANGED <<freelist, usedSlots, th, npg, rss, pgdir>>
      BY <1>4 DEF SwapRead, Enter, At, swap, policy, procs
    <2>2. n \in Slots
      <3>1. k.page \in Pages /\ pgdir[p][k.page].at = "swap"
        BY <2>1, SwapAssumption DEF ShapeInv, TableInv, CallShape, Pages
      <3> QED
        BY <3>1, EntryFacts DEF ShapeInv, KernelInv, Tables
    <2> HIDE DEF n
    <2>3. k2 \in KernelTypes
      BY <1>1, <2>2 DEF KernelTypes
    <2>4. KernelShape(k2)
      BY <1>1, <2>1, <2>2 DEF KernelTypes, KernelShape
    <2> HIDE DEF k2
    <2> QED
      BY <2>1, <2>3, <2>4, EnterKeeps DEF ShapeInv, KernelInv
  <1>5. CASE SwapIn(p)
    <2>1. /\ k.pc = "read"
          /\ pgdir' = [pgdir EXCEPT ![p][k.page] = InRam(k.frame, FALSE)]
          /\ rss' = [rss EXCEPT ![p] = rss[p] + 1]
          /\ kernel' = [kernel EXCEPT ![p] = Idle]
          /\ usedSlots' = usedSlots \ {k.slot}
          /\ UNCHANGED <<freelist, th, npg>>
      BY <1>5 DEF SwapIn, Enter, Return, At, memory, policy
    <2>2. pgdir' \in [Procs -> Tables] /\ rss' \in [Procs -> Int]
      BY <1>1, <1>2, <2>1 DEF ShapeInv, KernelInv, KernelShape, Tables
    <2> QED
      BY <2>1, <2>2, IdleFacts, EnterKeeps DEF ShapeInv, KernelInv
  <1> QED
    BY <1>3, <1>4, <1>5

\* exec() and fork() keep it while they build the new table.
LEMMA BuildKeepsKernel ==
  ASSUME ShapeInv, NEW p \in Procs,
         ExecPage(p) \/ ForkKernelPage(p) \/ CopyLooks(p)
  PROVE  KernelInv'
  <1> DEFINE k == kernel[p]
  <1>1. k \in KernelTypes /\ KernelShape(k)
    BY DEF ShapeInv, KernelInv
  <1>2. k.frame \in Frames => InRam(k.frame, FALSE) \in Entries
    BY EntryFacts
  <1>3. CASE ExecPage(p)
    <2> DEFINE first == [NextPage(k) EXCEPT !.kpage = k.frame]
               later == [NextPage(k) EXCEPT !.table[k.page] = InRam(k.frame, FALSE)]
               k2 == IF k.page = -1 THEN first ELSE later
    <2>1. /\ k.pc = "got" /\ k.call = "exec"
          /\ kernel' = [kernel EXCEPT ![p] = k2]
          /\ \E r \in Int : rss' = [rss EXCEPT ![p] = r]
          /\ UNCHANGED <<freelist, usedSlots, th, npg, pgdir>>
      <3>1. rss[p] + 1 \in Int /\ 0 \in Int
        BY DEF ShapeInv, KernelInv
      <3> QED
        BY <1>3, <3>1 DEF ExecPage, Enter, At, swap, policy
    <2>2. /\ NextPage(k) \in KernelTypes /\ NextPage(k).pc = "kalloc"
          /\ NextPage(k).frame = NoFrame /\ NextPage(k).call \in Calls
      BY <1>1, <2>1, NextPageFacts DEF Calls
    <2> DEFINE n == NextPage(k)
    <2> HIDE DEF n
    <2>3. first \in KernelTypes /\ KernelShape(first)
      BY <1>1, <2>1, <2>2 DEF KernelTypes, KernelShape, n
    <2>4. later \in KernelTypes /\ KernelShape(later)
      BY <1>1, <1>2, <2>1, <2>2 DEF KernelTypes, KernelShape, Tables, n
    <2>5. k2 \in KernelTypes /\ KernelShape(k2)
      BY <2>3, <2>4
    <2> HIDE DEF k2
    <2> QED
      BY <2>1, <2>5, EnterKeeps DEF ShapeInv, KernelInv
  <1>4. CASE ForkKernelPage(p)
    <2> DEFINE k2 == [NextPage(k) EXCEPT !.kpage = k.frame, !.pc = "copy"]
    <2>1. /\ k.pc = "got" /\ k.call = "fork" /\ k.page = -1
          /\ kernel' = [kernel EXCEPT ![p] = k2]
          /\ rss' = [rss EXCEPT ![k.child] = 0]
          /\ UNCHANGED <<freelist, usedSlots, th, npg, pgdir>>
      BY <1>4 DEF ForkKernelPage, Enter, At, memory, swap, policy
    <2>2. /\ NextPage(k) \in KernelTypes /\ NextPage(k).page = 0
          /\ NextPage(k).frame = NoFrame /\ NextPage(k).call = "fork"
      BY <1>1, <2>1, NextPageFacts DEF Calls
    <2> DEFINE f == k.frame
               n == NextPage(k)
    <2>3. f \in Frames
      BY <1>1, <2>1 DEF KernelShape
    <2> HIDE DEF f, n
    <2>4. k2 \in KernelTypes
      BY <2>2, <2>3 DEF KernelTypes, f, n
    <2>5. KernelShape(k2)
      BY <2>2 DEF KernelTypes, KernelShape, Calls, n
    <2>6. rss' \in [Procs -> Int]
      <3>1. k.child \in Procs
        BY <2>1 DEF ShapeInv, StackInv
      <3> QED
        BY <2>1, <3>1 DEF ShapeInv, KernelInv
    <2> HIDE DEF k2
    <2> QED
      BY <2>1, <2>4, <2>5, <2>6, EnterKeeps DEF ShapeInv, KernelInv
  <1>5. CASE CopyLooks(p)
    <2>1. CASE pgdir[p][k.page].at # "ram"
      BY <1>5, <2>1 DEF CopyLooks, Panic, ShapeInv, KernelInv, KernelShape,
                        memory, swap, policy, procs
    <2>2. CASE pgdir[p][k.page].at = "ram"
      <3> DEFINE e == pgdir[p][k.page]
                 k2 == [k EXCEPT !.pc = "kalloc", !.source = e]
      <3>1. /\ k.pc = "copy"
            /\ kernel' = [kernel EXCEPT ![p] = k2]
            /\ UNCHANGED <<freelist, usedSlots, th, npg, pgdir, rss>>
        BY <1>5, <2>2 DEF CopyLooks, Enter, At, memory, swap, policy, procs
      <3>2. k.page \in Pages
        BY <1>1, <3>1, SwapAssumption
           DEF ShapeInv, TableInv, CallShape, KernelShape, Pages
      <3>3. e \in Entries
        BY <3>2 DEF ShapeInv, KernelInv, Tables
      <3> HIDE DEF e
      <3>4. k2 \in KernelTypes
        BY <1>1, <3>1, <3>3 DEF KernelTypes
      <3>5. KernelShape(k2)
        BY <1>1, <3>1 DEF KernelTypes, KernelShape
      <3> HIDE DEF k2
      <3> QED
        BY <3>1, <3>4, <3>5, EnterKeeps DEF ShapeInv, KernelInv
    <2> QED
      BY <2>1, <2>2
  <1> QED
    BY <1>3, <1>4, <1>5

\* The end of exec() and the turns of fork() keep it.
LEMMA ImageKeepsKernel ==
  ASSUME ShapeInv, NEW p \in Procs, ExecDone(p) \/ CopyPage(p)
  PROVE  KernelInv'
  <1> DEFINE k == kernel[p]
  <1>1. k \in KernelTypes /\ KernelShape(k) /\ rss[p] + 1 \in Int
    BY DEF ShapeInv, KernelInv
  <1>2. CASE ExecDone(p)
    <2> DEFINE new == [k.table EXCEPT ![k.page] = InRam(k.frame, FALSE)]
    <2>1. /\ k.pc = "got" /\ k.call = "exec"
          /\ pgdir' = [pgdir EXCEPT ![p] = new]
          /\ rss' = [rss EXCEPT ![p] = Min({0, rss[p] + 1})]
          /\ freelist' = freelist \cup OldImage(p)
          /\ kernel' = [kernel EXCEPT ![p] = Idle]
          /\ UNCHANGED <<usedSlots, th, npg>>
      BY <1>2 DEF ExecDone, Return, Enter, At, swap, policy
    <2>2. new \in Tables
      <3>1. InRam(k.frame, FALSE) \in Entries
        BY <1>1, <2>1, EntryFacts DEF KernelShape
      <3> QED
        BY <1>1, <3>1 DEF KernelTypes, Tables
    <2>3. Min({0, rss[p] + 1}) \in Int
      <3>1. ASSUME NEW r \in Int PROVE Min({0, r}) \in Int
        <4>1. Min({0, r}) \in {0, r}
          BY MinMax
        <4> QED
          BY <4>1
      <3> QED
        BY <1>1, <3>1
    <2>4. OldImage(p) \subseteq Frames
      <3>1. FramesOf(pgdir[p]) \subseteq Frames
        BY FramesOfFacts DEF ShapeInv, KernelInv
      <3>2. kpage[p] \in Frames
        BY <1>2 DEF ShapeInv, TableInv, InUse, ExecDone, At, Runs
      <3> QED
        BY <3>1, <3>2 DEF OldImage
    <2>5. pgdir' \in [Procs -> Tables] /\ rss' \in [Procs -> Int]
      BY <2>1, <2>2, <2>3 DEF ShapeInv, KernelInv
    <2>6. freelist' \subseteq Frames
      BY <2>1, <2>4 DEF ShapeInv, KernelInv
    <2> QED
      BY <2>1, <2>5, <2>6, IdleFacts, EnterKeeps DEF ShapeInv, KernelInv
  <1>3. CASE CopyPage(p)
    <2> DEFINE new == [k.table EXCEPT ![k.page] = InRam(k.frame, k.source.used)]
               more == [NextPage(k) EXCEPT !.pc = "copy", !.table = new]
               k2 == IF k.page + 1 < sz[p] THEN more ELSE Waiting(k.child)
    <2>1. /\ k.pc = "got" /\ k.call = "fork" /\ k.page >= 0
          /\ rss' = [rss EXCEPT ![k.child] = rss[k.child] + 1]
          /\ kernel' = [kernel EXCEPT ![p] = k2]
          /\ pgdir' = IF k.page + 1 < sz[p] THEN pgdir
                      ELSE [pgdir EXCEPT ![k.child] = new]
          /\ UNCHANGED <<freelist, usedSlots, th, npg>>
      BY <1>3 DEF CopyPage, Enter, At, swap, policy, Waiting
    <2>2. k.child \in Procs /\ k.child \in Int
      BY <2>1, Numbers DEF ShapeInv, StackInv
    <2>3. new \in Tables
      <3>1. k.source.at = "ram" /\ k.source \in Entries
        BY <1>1, <2>1 DEF ShapeInv, TableInv, CallShape, KernelTypes
      <3>2. InRam(k.frame, k.source.used) \in Entries
        BY <1>1, <2>1, <3>1, EntryFacts DEF KernelShape
      <3> QED
        BY <1>1, <3>2 DEF KernelTypes, Tables
    <2>4. more \in KernelTypes /\ KernelShape(more)
      <3>1. /\ NextPage(k) \in KernelTypes /\ NextPage(k).page = k.page + 1
            /\ NextPage(k).frame = NoFrame /\ NextPage(k).call = "fork"
        BY <1>1, <2>1, NextPageFacts DEF Calls
      <3>2. k.page + 1 >= 0
        BY <1>1, <2>1 DEF KernelTypes
      <3> DEFINE n == NextPage(k)
      <3> HIDE DEF n, new
      <3> QED
        BY <2>3, <3>1, <3>2 DEF KernelTypes, KernelShape, Calls, n
    <2>5. k2 \in KernelTypes /\ KernelShape(k2)
      BY <2>2, <2>4, WaitingFacts
    <2>6. pgdir' \in [Procs -> Tables] /\ rss' \in [Procs -> Int]
      <3> HIDE DEF new
      <3> QED
        BY <2>1, <2>2, <2>3 DEF ShapeInv, KernelInv
    <2> HIDE DEF k2
    <2> QED
      BY <2>1, <2>5, <2>6, EnterKeeps DEF ShapeInv, KernelInv
  <1> QED
    BY <1>2, <1>3

\* sbrk() of a negative size, exit(), wait() and the program's own steps keep it.
LEMMA ReleaseKeepsKernel ==
  ASSUME ShapeInv, NEW p \in Procs,
         \/ \E n \in 1 .. MaxPages : Shrink(p, n)
         \/ Exit(p) \/ Wait(p)
         \/ \E v \in Pages : \E x \in Values : Touch(p, v, x)
  PROVE  KernelInv'
  <1>1. pgdir[p] \in Tables /\ Unmapped \in Entries
    BY EntryFacts DEF ShapeInv, KernelInv
  <1>2. CASE \E n \in 1 .. MaxPages : Shrink(p, n)
    <2>1. PICK n \in 1 .. MaxPages : Shrink(p, n)
      BY <1>2
    <2> DEFINE gone == {v \in Resident(pgdir[p]) : v >= n}
               frames == {pgdir[p][v].n : v \in gone}
               new == [v \in Pages |-> IF v \in gone THEN Unmapped ELSE pgdir[p][v]]
    <2>2. new \in Tables /\ frames \subseteq Frames
      BY <1>1, FramesOfFacts DEF Tables
    <2>3. /\ pgdir' = [pgdir EXCEPT ![p] = new]
          /\ freelist' = freelist \cup frames
          /\ rss' = [rss EXCEPT ![p] = RssLowered(rss[p], sz[p] - n)]
          /\ UNCHANGED <<usedSlots, th, npg, kernel>>
      BY <2>1 DEF Shrink, swap, policy
    <2>4. RssLowered(rss[p], sz[p] - n) \in Int
      <3>1. /\ rss[p] \in Int /\ 0 \in Int
            /\ rss[p] - (sz[p] - n) \in Int
        BY DEF ShapeInv, KernelInv, TableInv
      <3>2. Max({0, rss[p] - (sz[p] - n)}) \in {0, rss[p] - (sz[p] - n)}
        BY <3>1, MinMax
      <3> QED
        BY <3>1, <3>2 DEF RssLowered
    <2> HIDE DEF new, frames
    <2> QED
      BY <2>2, <2>3, <2>4 DEF ShapeInv, KernelInv, KernelShape
  <1>3. CASE Exit(p)
    <2> DEFINE new == [v \in Pages |->
                         IF v \in SwappedOut(p) THEN Unmapped ELSE pgdir[p][v]]
    <2>1. new \in Tables
      BY <1>1 DEF Tables
    <2>2. /\ pgdir' = [pgdir EXCEPT ![p] = new]
          /\ rss' = [rss EXCEPT ![p] = 0]
          /\ usedSlots' \subseteq usedSlots
          /\ UNCHANGED <<freelist, th, npg, kernel>>
      BY <1>3 DEF Exit, memory, policy
    <2> HIDE DEF new
    <2> QED
      BY <2>1, <2>2 DEF ShapeInv, KernelInv, KernelShape
  <1>4. CASE Wait(p)
    <2> DEFINE c == kernel[p].child
    <2>1. c \in Procs /\ kpage[c] \in Frames /\ pgdir[c] \in Tables
      BY <1>4 DEF Wait, At, ShapeInv, StackInv, TableInv, KernelInv, InUse
    <2>2. /\ pgdir' = [pgdir EXCEPT ![c] = NoPages]
          /\ freelist' = freelist \cup (FramesOf(pgdir[c]) \cup {kpage[c]})
          /\ kernel' = [kernel EXCEPT ![p] = Idle]
          /\ UNCHANGED <<usedSlots, th, npg, rss>>
      BY <1>4 DEF Wait, Return, Enter, swap, policy
    <2>3. pgdir' \in [Procs -> Tables]
      BY <2>1, <2>2, EntryFacts DEF ShapeInv, KernelInv
    <2>4. freelist' \subseteq Frames
      BY <2>1, <2>2, FramesOfFacts DEF ShapeInv, KernelInv
    <2> QED
      BY <2>2, <2>3, <2>4, IdleFacts, EnterKeeps DEF ShapeInv, KernelInv
  <1>5. CASE \E v \in Pages : \E x \in Values : Touch(p, v, x)
    <2>1. PICK v \in Pages, x \in Values : Touch(p, v, x)
      BY <1>5
    <2> DEFINE e == [pgdir[p][v] EXCEPT !.used = TRUE]
    <2>2. /\ pgdir' = [pgdir EXCEPT ![p][v] = e]
          /\ pgdir[p][v].at = "ram"
          /\ UNCHANGED <<freelist, usedSlots, th, npg, rss, kernel>>
      BY <2>1 DEF Touch, Resident, swap, policy, ShapeInv, KernelInv, Tables
    <2>3. e \in Entries
      <3> DEFINE old == pgdir[p][v]
      <3>1. old \in Entries /\ old.at = "ram"
        BY <1>1, <2>2 DEF Tables
      <3>2. e = [old EXCEPT !.used = TRUE]
        OBVIOUS
      <3> HIDE DEF old, e
      <3>3. old \in [at : {"ram"}, n : Frames, used : BOOLEAN]
        BY <3>1, EntryFacts DEF InRam
      <3> QED
        BY <3>2, <3>3 DEF Entries
    <2> HIDE DEF e
    <2>5. pgdir' \in [Procs -> Tables]
      BY <2>2, <2>3 DEF ShapeInv, KernelInv, Tables
    <2> QED
      BY <2>2, <2>5 DEF ShapeInv, KernelInv, KernelShape
  <1> QED
    BY <1>2, <1>3, <1>4, <1>5

\* Every step keeps where the processes are in the kernel.
LEMMA KernelKept ==
  ASSUME ShapeInv, [Next]_vars
  PROVE  KernelInv'
  <1>1. CASE UNCHANGED vars
    BY <1>1 DEF vars, ShapeInv, KernelInv, KernelShape
  <1>2. CASE Next
    <2>1. PICK p \in Procs : Kernel(p) \/ User(p)
      BY <1>2 DEF Next
    <2> QED
      BY <2>1, KallocKeepsKernel, SwapOutKeepsKernel, CallKeepsKernel,
         PageKeepsKernel, BuildKeepsKernel, ImageKeepsKernel,
         ReleaseKeepsKernel DEF Kernel, User
  <1> QED
    BY <1>1, <1>2

-----------------------------------------------------------------------------
(* Who can run *)

\* While p is in a call that is not wait(), or runs its program, every other
\* process waits or is not in use, and has nothing in hand.
LEMMA Alone ==
  ASSUME KernelInv, StackInv, NEW p \in Procs, state[p] = "RUNNABLE",
         kernel[p].pc # "wait"
  PROVE  \A q \in Procs : q # p =>
           /\ kernel[q].pc \in {"user", "wait"}
           /\ kernel[q].call = "none"
           /\ kernel[q].table = NoPages
           /\ kernel[q].kpage = NoFrame /\ kernel[q].frame = NoFrame
           /\ InUse(q) => q < p /\ state[q] = "RUNNABLE" /\ kernel[q].pc = "wait"
           /\ ~InUse(q) => kernel[q] = Idle
           /\ state[q] = "EMBRYO" => q = p + 1 /\ kernel[p].call = "fork"
  <1> SUFFICES ASSUME NEW q \in Procs, q # p
               PROVE  /\ kernel[q].pc \in {"user", "wait"}
                      /\ kernel[q].call = "none"
                      /\ kernel[q].table = NoPages
                      /\ kernel[q].kpage = NoFrame /\ kernel[q].frame = NoFrame
                      /\ InUse(q) => /\ q < p /\ state[q] = "RUNNABLE"
                                     /\ kernel[q].pc = "wait"
                      /\ ~InUse(q) => kernel[q] = Idle
                      /\ state[q] = "EMBRYO" => q = p + 1 /\ kernel[p].call = "fork"
    OBVIOUS
  <1>0. p \in Nat /\ q \in Nat
    BY Numbers
  <1>1. CASE q < p
    <2>1. /\ state[q] = "RUNNABLE"
          /\ kernel[q].pc = "wait" \/ (p = q + 1 /\ kernel[q].call = "fork")
      BY <1>1 DEF StackInv
    <2>2. kernel[q].call # "fork"
      BY <1>0, <2>1 DEF StackInv
    <2>3. kernel[q] = Waiting(kernel[q].child)
      BY <2>1, <2>2 DEF KernelInv, KernelShape
    <2> QED
      BY <1>1, <2>1, <2>3 DEF Waiting, Idle, InUse
  <1>2. CASE p < q
    <2>1. state[q] # "UNUSED" => q = p + 1 /\ kernel[p].call = "fork"
      BY <1>2 DEF StackInv
    <2>2. state[q] \in {"UNUSED", "EMBRYO"}
      BY <2>1 DEF StackInv
    <2>3. kernel[q] = Idle
      BY <2>2 DEF StackInv
    <2> QED
      BY <2>1, <2>2, <2>3 DEF Idle, InUse
  <1> QED
    BY <1>0, <1>1, <1>2

\* While p reaps its child, nobody has anything in hand.
LEMMA Reaping ==
  ASSUME KernelInv, StackInv, NEW p \in Procs, At(p, "wait"),
         state[kernel[p].child] = "ZOMBIE"
  PROVE  /\ kernel[p] = Waiting(p + 1) /\ kernel[p].child = p + 1
         /\ p + 1 \in Procs
         /\ \A q \in Procs :
              /\ kernel[q].pc \in {"user", "wait"}
              /\ kernel[q].call = "none"
              /\ kernel[q].table = NoPages
              /\ kernel[q].kpage = NoFrame /\ kernel[q].frame = NoFrame
              /\ q > p + 1 => state[q] = "UNUSED"
              /\ q < p => kernel[q].pc = "wait" /\ state[q] = "RUNNABLE"
              /\ q > p => kernel[q] = Idle
  <1>0. p \in Nat
    BY Numbers
  <1>1. kernel[p].child = p + 1 /\ p + 1 \in Procs
    BY DEF At, Runs, StackInv
  <1>2. kernel[p] = Waiting(p + 1)
    BY <1>1 DEF At, KernelInv, KernelShape
  <1>3. ASSUME NEW q \in Procs
        PROVE  /\ kernel[q].pc \in {"user", "wait"}
               /\ kernel[q].call = "none"
               /\ kernel[q].table = NoPages
               /\ kernel[q].kpage = NoFrame /\ kernel[q].frame = NoFrame
               /\ q > p + 1 => state[q] = "UNUSED"
               /\ q < p => kernel[q].pc = "wait" /\ state[q] = "RUNNABLE"
               /\ q > p => kernel[q] = Idle
    <2>0. q \in Nat
      BY Numbers
    <2>5. /\ Idle.pc = "user" /\ Idle.call = "none" /\ Idle.table = NoPages
          /\ Idle.kpage = NoFrame /\ Idle.frame = NoFrame
      BY DEF Idle
    <2>6. ASSUME NEW c
          PROVE  /\ Waiting(c).pc = "wait" /\ Waiting(c).call = "none"
                 /\ Waiting(c).table = NoPages
                 /\ Waiting(c).kpage = NoFrame /\ Waiting(c).frame = NoFrame
      BY DEF Waiting, Idle
    <2>1. CASE q = p
      <3>1. ~ (q > p + 1) /\ ~ (q < p) /\ ~ (q > p)
        BY <1>0, <2>1
      <3> QED
        BY <1>2, <2>1, <2>6, <3>1
    <2>2. CASE q < p
      <3>1. /\ state[q] = "RUNNABLE"
            /\ kernel[q].pc = "wait" \/ (p = q + 1 /\ kernel[q].call = "fork")
        BY <2>2 DEF StackInv, At, Runs
      <3>2. kernel[q].call # "fork"
        BY <1>0, <2>0, <3>1 DEF StackInv, At, Runs
      <3>3. kernel[q] = Waiting(kernel[q].child)
        BY <3>1, <3>2 DEF KernelInv, KernelShape
      <3>4. ~ (q > p + 1) /\ ~ (q > p)
        BY <1>0, <2>0, <2>2
      <3>5. kernel[q].pc = "wait"
        BY <1>0, <2>0, <3>1, <3>2
      <3> QED
        BY <2>6, <3>1, <3>3, <3>4, <3>5
    <2>3. CASE q = p + 1
      <3>1. kernel[q] = Idle
        BY <1>1, <2>3 DEF StackInv
      <3>2. ~ (q > p + 1) /\ ~ (q < p)
        BY <1>0, <2>0, <2>3
      <3> QED
        BY <2>5, <3>1, <3>2
    <2>4. CASE q > p + 1
      <3>1. state[q] = "UNUSED"
        <4>1. p + 1 < q
          BY <1>0, <2>0, <2>4
        <4> QED
          BY <1>1, <4>1 DEF StackInv
      <3>2. kernel[q] = Idle
        BY <3>1 DEF StackInv
      <3>3. ~ (q < p)
        BY <1>0, <2>0, <2>4
      <3> QED
        BY <2>5, <3>1, <3>2, <3>3
    <2> QED
      BY <1>0, <2>0, <2>1, <2>2, <2>3, <2>4
  <1> QED
    BY <1>1, <1>2, <1>3

\* A step within a call, or into or out of one that is neither fork() nor
\* wait(), leaves the stack as it is.
LEMMA StackSame ==
  ASSUME KernelInv, StackInv, NEW p \in Procs, state[p] = "RUNNABLE",
         kernel[p].pc # "wait",
         \A q \in Procs : q # p => kernel'[q] = kernel[q],
         kernel'[p].pc # "wait",
         kernel'[p].call = "fork" <=> kernel[p].call = "fork",
         kernel'[p].call = "fork" => kernel'[p].child = kernel[p].child,
         UNCHANGED state
  PROVE  StackInv'
  BY DEF StackInv

\* The steps that leave the stack as it is.
StaysInCall(p) ==
  \/ KallocTakes(p) \/ KallocFindsNone(p) \/ SwapOut(p) \/ SwapOutDone(p)
  \/ SbrkPage(p) \/ SwapRead(p) \/ SwapIn(p) \/ ExecPage(p) \/ ExecDone(p)
  \/ ForkKernelPage(p) \/ CopyLooks(p)
  \/ CopyPage(p) /\ kernel[p].page + 1 < sz[p]
  \/ \E n \in 1 .. MaxPages : Sbrk(p, n) \/ Shrink(p, n)
  \/ \E v \in Pages : Fault(p, v) \/ \E x \in Values : Touch(p, v, x)
  \/ Exec(p)

\* They change no state and keep the process in fork() if it is there.
LEMMA StaysInCallFacts ==
  ASSUME ShapeInv, NEW p \in Procs, StaysInCall(p)
  PROVE  /\ state[p] = "RUNNABLE" /\ kernel[p].pc # "wait"
         /\ UNCHANGED state
         /\ \A q \in Procs : q # p => kernel'[q] = kernel[q]
         /\ kernel'[p].pc # "wait"
         /\ kernel'[p].call = "fork" <=> kernel[p].call = "fork"
         /\ kernel'[p].call = "fork" => kernel'[p].child = kernel[p].child
  <1> DEFINE k == kernel[p]
             Kept == /\ \A q \in Procs : q # p => kernel'[q] = kernel[q]
                     /\ kernel'[p].pc # "wait"
                     /\ kernel'[p].call = "fork" <=> k.call = "fork"
                     /\ kernel'[p].call = "fork" => kernel'[p].child = k.child
  <1>1. /\ kernel \in [Procs -> KernelTypes]
        /\ k \in KernelTypes /\ KernelShape(k)
    BY DEF ShapeInv, KernelInv
  <1>2. state[p] = "RUNNABLE" /\ k.pc # "wait"
    BY DEF StaysInCall, KallocTakes, KallocFindsNone, SwapOut, SwapOutDone, SbrkPage,
           SwapRead, SwapIn, ExecPage, ExecDone, ForkKernelPage, CopyLooks,
           CopyPage, Sbrk, Shrink, Fault, Touch, Exec, At, AtUser, Runs
  <1>3. UNCHANGED state
    BY DEF StaysInCall, KallocTakes, KallocFindsNone, SwapOut, SwapOutDone, SbrkPage,
           SwapRead, SwapIn, ExecPage, ExecDone, ForkKernelPage, CopyLooks,
           CopyPage, Sbrk, Shrink, Fault, Touch, Exec, Panic, procs
  <1>4. kernel' = kernel => Kept
    BY <1>2
  <1>5. ASSUME NEW k2, kernel' = [kernel EXCEPT ![p] = k2], k2.pc # "wait",
               k2.call = "fork" <=> k.call = "fork",
               k2.call = "fork" => k2.child = k.child
        PROVE  Kept
    BY <1>1, <1>5
  <1>6. k.pc = "user" => k.call = "none"
    BY <1>1 DEF KernelShape, Idle
  <1>7. Idle.pc = "user" /\ Idle.call = "none"
    BY DEF Idle
  <1>8. ASSUME k.call \in Calls, k.pc = "got"
        PROVE  /\ NextPage(k) \in KernelTypes
               /\ NextPage(k).call = k.call /\ NextPage(k).child = k.child
               /\ NextPage(k).pc = "kalloc"
    BY <1>1, <1>8, NextPageFacts
  <1>10. ASSUME KallocTakes(p) \/ KallocFindsNone(p) PROVE Kept
    BY <1>1, <1>4, <1>10 DEF KallocTakes, KallocFindsNone, Panic, KernelTypes
  <1>11. ASSUME SwapOut(p) \/ SwapOutDone(p) PROVE Kept
    <2>1. CASE SwapOut(p)
      BY <1>1, <1>4, <2>1 DEF SwapOut, Panic, KernelTypes
    <2>2. CASE SwapOutDone(p)
      <3> DEFINE k2 == [k EXCEPT !.left = k.left - 1,
                          !.pc = IF k.left = 1 THEN k.after ELSE "adaptive",
                          !.victim = 0, !.vpage = 0, !.slot = 0]
      <3>1. kernel' = [kernel EXCEPT ![p] = k2] /\ k.pc = "writing"
        BY <1>1, <2>2 DEF SwapOutDone, At
      <3>2. k.after \in {"got", "again"}
        BY <1>1, <3>1 DEF KernelShape
      <3>3. k2.pc \in {"got", "again", "adaptive"} /\ k2.call = k.call /\ k2.child = k.child
        BY <1>1, <3>2 DEF KernelTypes
      <3> HIDE DEF k2
      <3> QED
        BY <1>5, <3>1, <3>3
    <2> QED
      BY <1>11, <2>1, <2>2
  <1>12. ASSUME SbrkPage(p) \/ SwapIn(p) \/ ExecDone(p) PROVE Kept
    <2>1. /\ kernel' = [kernel EXCEPT ![p] = Idle] \/ kernel' = [kernel EXCEPT ![p] = NextPage(k)]
          /\ k.call \in Calls \ {"fork"}
          /\ kernel' = [kernel EXCEPT ![p] = NextPage(k)] => k.pc = "got" \/ Kept
      BY <1>1, <1>7, <1>12
         DEF SbrkPage, SwapIn, ExecDone, Enter, Return, At, Calls, KernelShape
    <2> QED
      BY <1>1, <1>5, <1>7, <1>8, <2>1
  <1>13. ASSUME SwapRead(p) PROVE Kept
    BY <1>1, <1>13 DEF SwapRead, Enter, KernelTypes
  <1>9. ASSUME NEW n \in KernelTypes, NEW table, NEW kpg, NEW c
        PROVE  /\ [n EXCEPT !.kpage = kpg].pc = n.pc
               /\ [n EXCEPT !.kpage = kpg].call = n.call
               /\ [n EXCEPT !.kpage = kpg].child = n.child
               /\ [n EXCEPT !.kpage = kpg, !.pc = c].pc = c
               /\ [n EXCEPT !.kpage = kpg, !.pc = c].call = n.call
               /\ [n EXCEPT !.kpage = kpg, !.pc = c].child = n.child
               /\ [n EXCEPT !.pc = c, !.table = table].pc = c
               /\ [n EXCEPT !.pc = c, !.table = table].call = n.call
               /\ [n EXCEPT !.pc = c, !.table = table].child = n.child
               /\ [n EXCEPT !.table = table].pc = n.pc
               /\ [n EXCEPT !.table = table].call = n.call
               /\ [n EXCEPT !.table = table].child = n.child
    BY DEF KernelTypes
  <1>14. ASSUME ExecPage(p) \/ ForkKernelPage(p) PROVE Kept
    <2> DEFINE first == [NextPage(k) EXCEPT !.kpage = k.frame]
               later == [NextPage(k) EXCEPT
                           !.table[k.page] = InRam(k.frame, FALSE)]
               table == [NextPage(k).table EXCEPT ![k.page] = InRam(k.frame, FALSE)]
               copy == [NextPage(k) EXCEPT !.kpage = k.frame, !.pc = "copy"]
    <2>1. /\ k.pc = "got" /\ k.call \in Calls
          /\ \/ kernel' = [kernel EXCEPT ![p] = first]
             \/ kernel' = [kernel EXCEPT ![p] = later]
             \/ kernel' = [kernel EXCEPT ![p] = copy]
      BY <1>14 DEF ExecPage, ForkKernelPage, Enter, At, Calls
    <2>2. later = [NextPage(k) EXCEPT !.table = table]
      OBVIOUS
    <2> HIDE DEF table
    <2>3. NextPage(k) \in KernelTypes
      BY <1>8, <2>1
    <2>4. first.pc = "kalloc" /\ first.call = k.call /\ first.child = k.child
      BY <1>8, <1>9, <2>1, <2>3
    <2>5. later.pc = "kalloc" /\ later.call = k.call /\ later.child = k.child
      BY <1>8, <1>9, <2>1, <2>2, <2>3
    <2>6. copy.pc = "copy" /\ copy.call = k.call /\ copy.child = k.child
      BY <1>8, <1>9, <2>1, <2>3
    <2> HIDE DEF first, later, copy
    <2> QED
      BY <1>5, <2>1, <2>4, <2>5, <2>6
  <1>15. ASSUME CopyLooks(p) \/ (CopyPage(p) /\ k.page + 1 < sz[p]) PROVE Kept
    <2>1. CASE CopyLooks(p)
      <3> DEFINE k2 == [k EXCEPT !.pc = "kalloc", !.source = pgdir[p][k.page]]
      <3>1. kernel' = kernel \/ kernel' = [kernel EXCEPT ![p] = k2]
        BY <2>1 DEF CopyLooks, Panic, Enter
      <3>2. k2.pc = "kalloc" /\ k2.call = k.call /\ k2.child = k.child
        BY <1>1 DEF KernelTypes
      <3> HIDE DEF k2
      <3> QED
        BY <1>4, <1>5, <3>1, <3>2
    <2>2. CASE CopyPage(p) /\ k.page + 1 < sz[p]
      <3> DEFINE new == [k.table EXCEPT ![k.page] = InRam(k.frame, k.source.used)]
                 more == [NextPage(k) EXCEPT !.pc = "copy", !.table = new]
      <3>1. /\ k.pc = "got" /\ k.call \in Calls
            /\ kernel' = [kernel EXCEPT ![p] = more]
        BY <2>2 DEF CopyPage, Enter, At, Calls
      <3> HIDE DEF new
      <3> QED
        BY <1>5, <1>8, <1>9, <3>1
    <2> QED
      BY <1>15, <2>1, <2>2
  <1>16. ASSUME \/ \E n \in 1 .. MaxPages : Sbrk(p, n)
                \/ \E v \in Pages : Fault(p, v)
                \/ Exec(p)
         PROVE  Kept
    BY <1>1, <1>6, <1>16 DEF Sbrk, Fault, Exec, Enter, Idle, AtUser
  <1>17. ASSUME \/ \E n \in 1 .. MaxPages : Shrink(p, n)
                \/ \E v \in Pages : \E x \in Values : Touch(p, v, x)
         PROVE  Kept
    BY <1>4, <1>17 DEF Shrink, Touch
  <1>18. Kept
    <2> HIDE DEF Kept
    <2> QED
      BY <1>10, <1>11, <1>12, <1>13, <1>14, <1>15, <1>16, <1>17 DEF StaysInCall
  <1> QED
    BY <1>2, <1>3, <1>18

\* Every step keeps the stack.
LEMMA StackKept ==
  ASSUME ShapeInv, [Next]_vars
  PROVE  StackInv'
  <1>1. CASE UNCHANGED vars
    BY <1>1 DEF vars, ShapeInv, StackInv
  <1>2. ASSUME NEW p \in Procs, StaysInCall(p)
        PROVE  StackInv'
    BY <1>2, StaysInCallFacts, StackSame DEF ShapeInv
  <1>3. ASSUME NEW p \in Procs, Fork(p)
        PROVE  StackInv'
    <2>1. PICK c \in Procs :
            /\ state[c] = "UNUSED"
            /\ \A d \in Procs : state[d] = "UNUSED" => c <= d
            /\ state' = [state EXCEPT ![c] = "EMBRYO"]
            /\ Enter(p, [Idle EXCEPT !.pc = "kalloc", !.call = "fork",
                                     !.page = -1, !.child = c])
      BY <1>3 DEF Fork
    <2> DEFINE k2 == [Idle EXCEPT !.pc = "kalloc", !.call = "fork", !.page = -1,
                                  !.child = c]
    <2>2. k2.pc = "kalloc" /\ k2.call = "fork" /\ k2.child = c
      BY DEF Idle
    <2> HIDE DEF k2
    <2>3. /\ kernel' = [kernel EXCEPT ![p] = k2]
          /\ state[p] = "RUNNABLE" /\ kernel[p].pc = "user" /\ kernel[p].call = "none"
      <3>1. kernel' = [kernel EXCEPT ![p] = k2]
        BY <2>1 DEF Enter, k2
      <3>2. state[p] = "RUNNABLE" /\ kernel[p].pc = "user"
        BY <1>3 DEF Fork, AtUser, Runs
      <3>3. kernel[p] = Idle
        BY <3>2 DEF ShapeInv, KernelInv, KernelShape
      <3>4. Idle.call = "none"
        BY DEF Idle
      <3> QED
        BY <3>1, <3>2, <3>3, <3>4
    <2>4. /\ p \in Nat /\ c \in Nat /\ c <= NPROC /\ Procs = 1 .. NPROC
          /\ NPROC \in Nat
      BY SwapAssumption DEF Procs
    <2>5. c = p + 1
      <3>1. ~ (c < p)
        BY <2>1, <2>3 DEF ShapeInv, StackInv
      <3>2. c # p
        BY <2>1, <2>3
      <3>3. p + 1 \in Procs
        BY <2>4, <3>1, <3>2
      <3>4. state[p + 1] = "UNUSED"
        <4>1. p < p + 1
          BY <2>4
        <4> QED
          BY <2>3, <3>3, <4>1 DEF ShapeInv, StackInv
      <3> QED
        BY <2>1, <2>4, <3>1, <3>2, <3>3, <3>4
    <2>6. \A q \in Procs : q # p =>
            /\ kernel[q].call = "none"
            /\ InUse(q) => q < p /\ state[q] = "RUNNABLE" /\ kernel[q].pc = "wait"
      BY <2>3, Alone DEF ShapeInv
    <2>7. kernel[c] = Idle /\ c # 1
      BY <2>1 DEF ShapeInv, StackInv
    <2> QED
      BY <2>1, <2>2, <2>3, <2>4, <2>5, <2>6, <2>7 DEF ShapeInv, StackInv, KernelInv, InUse
  <1>4. ASSUME NEW p \in Procs, CopyPage(p), ~ (kernel[p].page + 1 < sz[p])
        PROVE  StackInv'
    <2> DEFINE c == p + 1
    <2>1. /\ kernel[p].child = c /\ c \in Procs /\ state[c] = "EMBRYO"
          /\ state[p] = "RUNNABLE" /\ kernel[p].call = "fork" /\ kernel[p].pc = "got"
      BY <1>4 DEF CopyPage, At, Runs, ShapeInv, StackInv
    <2>2. /\ kernel' = [kernel EXCEPT ![p] = Waiting(c)]
          /\ state' = [state EXCEPT ![c] = "RUNNABLE"]
      BY <1>4, <2>1 DEF CopyPage, Enter, Waiting
    <2>3. Waiting(c).pc = "wait" /\ Waiting(c).call = "none" /\ Waiting(c).child = c
      BY DEF Waiting, Idle
    <2>4. \A q \in Procs : q # p =>
            /\ kernel[q].call = "none"
            /\ InUse(q) => q < p /\ state[q] = "RUNNABLE" /\ kernel[q].pc = "wait"
            /\ state[q] = "EMBRYO" => q = p + 1
      BY <2>1, Alone DEF ShapeInv
    <2>5. p \in Nat /\ Procs \subseteq Nat
      BY Numbers
    <2> HIDE DEF c
    <2> QED
      BY <2>1, <2>2, <2>3, <2>4, <2>5 DEF ShapeInv, StackInv, KernelInv, InUse, c
  <1>5. ASSUME NEW p \in Procs, Exit(p), p # 1
        PROVE  StackInv'
    <2>1. /\ state[p] = "RUNNABLE" /\ kernel[p].pc = "user" /\ kernel[p] = Idle
          /\ kernel[p].call = "none"
      BY <1>5 DEF Exit, AtUser, Runs, ShapeInv, KernelInv, KernelShape, Idle
    <2>2. state' = [state EXCEPT ![p] = "ZOMBIE"] /\ kernel' = kernel
      BY <1>5 DEF Exit
    <2>3. \A q \in Procs : q # p =>
            /\ kernel[q].call = "none"
            /\ InUse(q) => q < p /\ state[q] = "RUNNABLE" /\ kernel[q].pc = "wait"
            /\ state[q] # "EMBRYO"
      BY <2>1, Alone DEF ShapeInv
    <2>4. Procs \subseteq Nat
      BY Numbers
    <2> QED
      BY <1>5, <2>1, <2>2, <2>3, <2>4 DEF ShapeInv, StackInv, KernelInv, InUse
  <1>6. ASSUME NEW p \in Procs, Wait(p)
        PROVE  StackInv'
    <2> DEFINE c == p + 1
    <2>1. /\ kernel[p].child = c /\ c \in Procs /\ state[p] = "RUNNABLE"
          /\ state[c] = "ZOMBIE"
          /\ \A q \in Procs :
               /\ kernel[q].call = "none"
               /\ q > c => state[q] = "UNUSED"
               /\ q < p => kernel[q].pc = "wait" /\ state[q] = "RUNNABLE"
               /\ q > p => kernel[q] = Idle
      BY <1>6, Reaping DEF Wait, At, Runs, ShapeInv
    <2>2. /\ kernel' = [kernel EXCEPT ![p] = Idle]
          /\ state' = [state EXCEPT ![c] = "UNUSED"]
      BY <1>6, <2>1 DEF Wait, Return, Enter
    <2>3. Idle.pc = "user" /\ Idle.call = "none"
      BY DEF Idle
    <2>4. Procs \subseteq Nat \ {0}
      BY Numbers
    <2> HIDE DEF c
    <2> QED
      BY <2>1, <2>2, <2>3, <2>4 DEF ShapeInv, StackInv, KernelInv, c
  <1>7. CASE Next
    <2>1. PICK p \in Procs : Kernel(p) \/ User(p)
      BY <1>7 DEF Next
    <2> QED
      BY <2>1, <1>2, <1>3, <1>4, <1>5, <1>6 DEF Kernel, User, StaysInCall
  <1> QED
    BY <1>1, <1>7

-----------------------------------------------------------------------------
(* What the page tables look like while the calls go on *)

\* A step of p that maps no page outside p's extent, and leaves the other
\* processes what they have.
LEMMA TableKeeps ==
  ASSUME ShapeInv, KernelInv', NEW p \in Procs,
         state[p] = "RUNNABLE", kernel[p].pc # "wait",
         \A q \in Procs : q # p =>
           kernel'[q] = kernel[q] /\ sz'[q] = sz[q] /\ kpage'[q] = kpage[q],
         \A q \in Procs : InUse(q)' <=> InUse(q),
         sz' \in [Procs -> 0 .. MaxPages], sz'[p] >= 1,
         kpage' \in [Procs -> Frames \cup {NoFrame}], kpage'[p] \in Frames,
         \A q \in Procs : ~InUse(q) => pgdir'[q] = pgdir[q],
         \A q \in Procs : q # p => \A v \in Pages :
           pgdir'[q][v].at = "ram" => pgdir[q][v].at = "ram",
         \A v \in Pages : v >= Extent(p)' => pgdir'[p][v].at # "ram",
         CallShape(p)'
  PROVE  TableInv'
  <1>1. InUse(p)
    BY DEF InUse
  <1>2. \A q \in Procs : q # p => kernel[q].pc \in {"user", "wait"} /\ kernel[q].call = "none"
    BY Alone DEF ShapeInv
  <1>3. ASSUME NEW q \in Procs, q # p PROVE CallShape(q)'
    <2>1. CallShape(q) /\ kernel'[q] = kernel[q]
      BY <1>3 DEF ShapeInv, TableInv
    <2>2. kernel[q].table = NoPages /\ kernel[q].kpage = NoFrame
      BY <1>2, <1>3, <2>1 DEF CallShape
    <2> QED
      BY <1>2, <1>3, <2>1, <2>2 DEF CallShape
  <1>4. \A q \in Procs : q # p => Extent(q)' = Extent(q)
    BY DEF Extent
  <1> QED
    BY <1>1, <1>3, <1>4 DEF ShapeInv, TableInv

\* Within kalloc() a call keeps what it knows.
LEMMA CallShapeKeeps ==
  ASSUME ShapeInv, NEW p \in Procs,
         kernel'[p].call = kernel[p].call, kernel'[p].page = kernel[p].page,
         kernel'[p].goal = kernel[p].goal, kernel'[p].table = kernel[p].table,
         kernel'[p].kpage = kernel[p].kpage,
         kernel'[p].source = kernel[p].source,
         kernel'[p].pc # "copy" => kernel[p].pc # "copy",
         kernel'[p].pc # "read",
         kernel'[p].pc = "writing" => WritingShape(kernel[p])',
         sz'[p] = sz[p],
         kernel[p].call = "fault" => pgdir'[p][kernel[p].page].at = "swap"
  PROVE  CallShape(p)'
  BY DEF ShapeInv, TableInv, CallShape

\* A step that leaves the tables alone, but for accessed bits, and keeps what
\* the call knows.
LEMMA TableSame ==
  ASSUME ShapeInv, KernelInv', NEW p \in Procs,
         state[p] = "RUNNABLE", kernel[p].pc # "wait",
         \A q \in Procs : q # p => kernel'[q] = kernel[q],
         \A q \in Procs : InUse(q)' <=> InUse(q),
         UNCHANGED <<sz, kpage>>,
         \A q \in Procs : ~InUse(q) => pgdir'[q] = pgdir[q],
         \A q \in Procs : \A v \in Pages :
           pgdir'[q][v].at = "ram" => pgdir[q][v].at = "ram",
         Extent(p)' = Extent(p),
         CallShape(p)'
  PROVE  TableInv'
  BY TableKeeps DEF ShapeInv, TableInv, InUse

\* kalloc() and swap_out() keep the tables.
LEMMA KallocKeepsTables ==
  ASSUME ShapeInv, KernelInv', NEW p \in Procs,
         \/ KallocTakes(p) \/ KallocFindsNone(p) \/ SwapOut(p) \/ SwapOutDone(p)
  PROVE  TableInv'
  <1> DEFINE k == kernel[p]
  <1>1. /\ kernel \in [Procs -> KernelTypes]
        /\ k \in KernelTypes /\ KernelShape(k) /\ CallShape(p)
    BY DEF ShapeInv, KernelInv, TableInv
  <1>2. /\ state[p] = "RUNNABLE" /\ k.pc # "wait"
        /\ UNCHANGED state
        /\ \A q \in Procs : q # p => kernel'[q] = kernel[q]
    BY StaysInCallFacts DEF StaysInCall
  <1>3. \A q \in Procs : InUse(q)' <=> InUse(q)
    BY <1>2 DEF InUse
  <1>4. CASE panicked' = TRUE /\ UNCHANGED <<procs, kernel, swap>>
    BY <1>4 DEF ShapeInv, TableInv, CallShape, WritingShape, Extent, BuiltTo, InUse,
                procs, swap
  <1>5. CASE KallocTakes(p) \/ (KallocFindsNone(p) /\ k.pc # "again")
    <2>1. /\ kernel'[p].call = k.call /\ kernel'[p].page = k.page
          /\ kernel'[p].goal = k.goal /\ kernel'[p].table = k.table
          /\ kernel'[p].kpage = k.kpage /\ kernel'[p].source = k.source
          /\ kernel'[p].pc \notin {"copy", "read", "writing"} /\ k.pc # "copy"
          /\ UNCHANGED procs
      BY <1>1, <1>5 DEF KallocTakes, KallocFindsNone, KernelTypes, At
    <2>2. CallShape(p)' /\ Extent(p)' = Extent(p)
      BY <1>1, <2>1, CallShapeKeeps DEF CallShape, Extent, procs
    <2> QED
      BY <1>2, <1>3, <2>1, <2>2, TableSame DEF procs
  <1>6. CASE SwapOut(p) /\ ~NoVictim
    <2> DEFINE q == VictimProcess
               v == VictimPage(pgdir[q])
    <2>1. /\ q \in Procs /\ InUse(q) /\ v \in Pages /\ v \in Resident(pgdir[q])
          /\ SwapAlloc \in Slots
      BY <1>6, VictimFacts DEF ShapeInv
    <2>2. /\ pgdir' = [pgdir EXCEPT ![q] = Aged(pgdir[q])]
          /\ usedSlots' = usedSlots \cup {SwapAlloc}
          /\ kernel' = [kernel EXCEPT ![p].pc = "writing", ![p].victim = q,
                          ![p].vpage = v, ![p].slot = SwapAlloc]
          /\ UNCHANGED <<sz, kpage, state>>
      BY <1>6 DEF SwapOut
    <2> HIDE DEF q, v
    <2>3. /\ kernel'[p].call = k.call /\ kernel'[p].page = k.page
          /\ kernel'[p].goal = k.goal /\ kernel'[p].table = k.table
          /\ kernel'[p].kpage = k.kpage /\ kernel'[p].source = k.source
          /\ kernel'[p].pc = "writing" /\ kernel'[p].victim = q
          /\ kernel'[p].vpage = v /\ kernel'[p].slot = SwapAlloc
      BY <1>1, <2>2 DEF KernelTypes
    <2>4. /\ k.pc # "copy"
          /\ k.call = "fault" => k.page \in Pages
      BY <1>1, <1>6, SwapAssumption
         DEF SwapOut, At, CallShape, Pages, ShapeInv, TableInv
    <2>5. \A r \in Procs : \A w \in Pages : pgdir'[r][w].at = pgdir[r][w].at
      BY <2>1, <2>2, AgedFacts DEF ShapeInv, KernelInv
    <2>6. WritingShape(kernel[p])'
      BY <1>3, <2>1, <2>2, <2>3, <2>5 DEF WritingShape, Resident
    <2>7. k.call = "fault" => pgdir'[p][k.page].at = "swap"
      BY <1>1, <2>4, <2>5 DEF CallShape
    <2>8. CallShape(p)' /\ Extent(p)' = Extent(p)
      BY <1>1, <2>2, <2>3, <2>4, <2>6, <2>7, CallShapeKeeps DEF Extent
    <2>9. \A r \in Procs : ~InUse(r) => pgdir'[r] = pgdir[r]
      BY <2>1, <2>2 DEF ShapeInv, KernelInv
    <2> QED
      BY <1>2, <1>3, <2>2, <2>5, <2>8, <2>9, TableSame
  <1>7. CASE SwapOutDone(p)
    <2> DEFINE k2 == [k EXCEPT !.left = k.left - 1,
                        !.pc = IF k.left = 1 THEN k.after ELSE "adaptive",
                        !.victim = 0, !.vpage = 0, !.slot = 0]
    <2>1. /\ k.pc = "writing"
          /\ pgdir' = [pgdir EXCEPT ![k.victim][k.vpage] = InSwap(k.slot)]
          /\ kernel' = [kernel EXCEPT ![p] = k2]
          /\ UNCHANGED <<sz, kpage, state>>
      BY <1>1, <1>7 DEF SwapOutDone, At
    <2>2. /\ k.victim \in Procs /\ k.vpage \in Pages /\ InUse(k.victim)
          /\ k.after \in {"got", "again"}
          /\ pgdir[k.victim][k.vpage].at = "ram"
      BY <1>1, <2>1 DEF KernelShape, CallShape, WritingShape
    <2>3. /\ k2.call = k.call /\ k2.page = k.page
          /\ k2.goal = k.goal /\ k2.table = k.table
          /\ k2.kpage = k.kpage /\ k2.source = k.source
          /\ k2.pc \in {"got", "again", "adaptive"}
      BY <1>1, <2>2 DEF KernelTypes
    <2> HIDE DEF k2
    <2>4. kernel'[p] = k2
      BY <1>1, <2>1
    <2>5. \A r \in Procs : \A w \in Pages :
            pgdir'[r][w] = IF r = k.victim /\ w = k.vpage THEN InSwap(k.slot)
                           ELSE pgdir[r][w]
      BY <2>1, <2>2 DEF ShapeInv, KernelInv, Tables
    <2>6. InSwap(k.slot).at = "swap"
      BY DEF InSwap
    <2>7. k.call = "fault" => pgdir'[p][k.page].at = "swap"
      <3>1. k.call = "fault" => k.page \in Pages /\ pgdir[p][k.page].at = "swap"
        BY <1>1, SwapAssumption DEF CallShape, Pages, ShapeInv, TableInv
      <3> QED
        BY <2>5, <2>6, <3>1
    <2>8. CallShape(p)' /\ Extent(p)' = Extent(p)
      BY <1>1, <2>1, <2>3, <2>4, <2>7, CallShapeKeeps DEF Extent
    <2>9. /\ \A r \in Procs : ~InUse(r) => pgdir'[r] = pgdir[r]
          /\ \A r \in Procs : \A w \in Pages :
               pgdir'[r][w].at = "ram" => pgdir[r][w].at = "ram"
      BY <2>1, <2>2, <2>5, <2>6 DEF ShapeInv, KernelInv
    <2> QED
      BY <1>2, <1>3, <2>1, <2>8, <2>9, TableSame
  <1> QED
    BY <1>4, <1>5, <1>6, <1>7 DEF KallocFindsNone, SwapOut, Panic

\* A new table grows page by page.
LEMMA BuiltFacts ==
  /\ BuiltTo(NoPages, -1)
  /\ \A table \in Tables : BuiltTo(table, -1) => BuiltTo(table, 0)
  /\ \A table \in Tables : \A v \in Pages : \A e \in Entries :
       BuiltTo(table, v) /\ e.at = "ram" => BuiltTo([table EXCEPT ![v] = e], v + 1)
  <1>1. \A w \in Pages : w \in Nat
    BY Numbers
  <1>2. BuiltTo(NoPages, -1)
    BY <1>1 DEF BuiltTo, NoPages
  <1>3. \A table \in Tables : BuiltTo(table, -1) => BuiltTo(table, 0)
    BY <1>1 DEF BuiltTo
  <1>4. ASSUME NEW table \in Tables, NEW v \in Pages, NEW e \in Entries,
               BuiltTo(table, v), e.at = "ram"
        PROVE  BuiltTo([table EXCEPT ![v] = e], v + 1)
    <2> SUFFICES ASSUME NEW w \in Pages
                 PROVE  IF w < v + 1 THEN [table EXCEPT ![v] = e][w].at = "ram"
                        ELSE [table EXCEPT ![v] = e][w] = Unmapped
      BY DEF BuiltTo
    <2>1. w \in Nat /\ v \in Nat
      BY <1>1
    <2>2. CASE w = v
      BY <1>4, <2>1, <2>2 DEF Tables
    <2>3. CASE w # v
      BY <1>4, <2>1, <2>3 DEF BuiltTo, Tables
    <2> QED
      BY <2>2, <2>3
  <1> QED
    BY <1>2, <1>3, <1>4

\* A process that runs its program has nothing in hand.
LEMMA AtUserFacts ==
  ASSUME ShapeInv, NEW p \in Procs, AtUser(p)
  PROVE  /\ state[p] = "RUNNABLE" /\ kernel[p] = Idle /\ kernel[p].pc = "user"
         /\ kernel[p].call = "none" /\ Extent(p) = sz[p]
         /\ sz[p] \in 1 .. MaxPages /\ kpage[p] \in Frames
  <1>1. state[p] = "RUNNABLE" /\ kernel[p].pc = "user" /\ kernel[p] = Idle
    BY DEF AtUser, Runs, ShapeInv, KernelInv, KernelShape
  <1>2. Idle.call = "none"
    BY DEF Idle
  <1> QED
    BY <1>1, <1>2 DEF Extent, ShapeInv, TableInv, InUse

\* Entering a call keeps the tables.
LEMMA CallKeepsTables ==
  ASSUME ShapeInv, KernelInv', NEW p \in Procs,
         \/ \E n \in 1 .. MaxPages : Sbrk(p, n)
         \/ \E v \in Pages : Fault(p, v)
         \/ Exec(p) \/ Fork(p)
  PROVE  TableInv'
  <1>1. AtUser(p)
    BY DEF Sbrk, Fault, Exec, Fork
  <1>2. /\ state[p] = "RUNNABLE" /\ kernel[p] = Idle /\ kernel[p].pc = "user"
        /\ kernel[p].call = "none" /\ Extent(p) = sz[p]
        /\ sz[p] \in 1 .. MaxPages
    BY <1>1, AtUserFacts
  <1>3. kernel \in [Procs -> KernelTypes] /\ MaxPages \in Nat
    BY SwapAssumption DEF ShapeInv, KernelInv
  <1>4. ASSUME NEW k, kernel' = [kernel EXCEPT ![p] = k], CallShape(p)',
               UNCHANGED <<sz, kpage, pgdir>>, Extent(p)' = Extent(p),
               \A q \in Procs : InUse(q)' <=> InUse(q)
        PROVE  TableInv'
    BY <1>2, <1>3, <1>4, TableSame
  <1>5. CASE \E n \in 1 .. MaxPages : Sbrk(p, n)
    <2>1. PICK n \in 1 .. MaxPages : Sbrk(p, n)
      BY <1>5
    <2> DEFINE k2 == [Idle EXCEPT !.pc = "kalloc", !.call = "sbrk", !.page = sz[p],
                                  !.goal = n]
    <2>2. /\ kernel' = [kernel EXCEPT ![p] = k2] /\ kernel'[p] = k2
          /\ n \in sz[p] + 1 .. MaxPages
          /\ UNCHANGED <<sz, kpage, pgdir, state>>
      BY <1>3, <2>1 DEF Sbrk, Enter, procs
    <2>3. /\ k2.pc = "kalloc" /\ k2.call = "sbrk" /\ k2.page = sz[p] /\ k2.goal = n
          /\ k2.table = NoPages /\ k2.kpage = NoFrame
      BY DEF Idle
    <2> HIDE DEF k2
    <2>4. CallShape(p)' /\ Extent(p)' = Extent(p)
      BY <1>2, <1>3, <2>2, <2>3 DEF CallShape, Extent
    <2> QED
      BY <1>4, <2>2, <2>4 DEF InUse
  <1>6. CASE \E v \in Pages : Fault(p, v)
    <2>1. PICK v \in Pages : Fault(p, v)
      BY <1>6
    <2> DEFINE k2 == [Idle EXCEPT !.pc = "kalloc", !.call = "fault", !.page = v]
    <2>2. /\ kernel' = [kernel EXCEPT ![p] = k2] /\ kernel'[p] = k2
          /\ v < sz[p] /\ pgdir[p][v].at = "swap" /\ v \in Nat
          /\ UNCHANGED <<sz, kpage, pgdir, state>>
      BY <1>3, <2>1, Numbers DEF Fault, Enter, procs
    <2>3. /\ k2.pc = "kalloc" /\ k2.call = "fault" /\ k2.page = v
          /\ k2.table = NoPages /\ k2.kpage = NoFrame
      BY DEF Idle
    <2> HIDE DEF k2
    <2>4. CallShape(p)' /\ Extent(p)' = Extent(p)
      BY <1>2, <1>3, <2>2, <2>3 DEF CallShape, Extent
    <2> QED
      BY <1>4, <2>2, <2>4 DEF InUse
  <1>7. CASE Exec(p)
    <2> DEFINE k2 == [Idle EXCEPT !.pc = "kalloc", !.call = "exec", !.page = -1]
    <2>2. /\ kernel' = [kernel EXCEPT ![p] = k2] /\ kernel'[p] = k2
          /\ UNCHANGED <<sz, kpage, pgdir, state>>
      BY <1>3, <1>7 DEF Exec, Enter, procs
    <2>3. /\ k2.pc = "kalloc" /\ k2.call = "exec" /\ k2.page = -1
          /\ k2.table = NoPages /\ k2.kpage = NoFrame
      BY DEF Idle
    <2> HIDE DEF k2
    <2>4. ProgramPages \in Nat \ {0}
      BY SwapAssumption
    <2>5. CallShape(p)' /\ Extent(p)' = Extent(p)
      BY <1>2, <2>2, <2>3, <2>4, BuiltFacts DEF CallShape, Extent
    <2> QED
      BY <1>4, <2>2, <2>5 DEF InUse
  <1>8. CASE Fork(p)
    <2>1. PICK c \in Procs :
            /\ state[c] = "UNUSED"
            /\ state' = [state EXCEPT ![c] = "EMBRYO"]
            /\ Enter(p, [Idle EXCEPT !.pc = "kalloc", !.call = "fork",
                                     !.page = -1, !.child = c])
            /\ UNCHANGED <<pgdir, kpage, sz>>
      BY <1>8 DEF Fork
    <2> DEFINE k2 == [Idle EXCEPT !.pc = "kalloc", !.call = "fork", !.page = -1,
                                  !.child = c]
    <2>2. kernel' = [kernel EXCEPT ![p] = k2] /\ kernel'[p] = k2
      BY <1>3, <2>1 DEF Enter
    <2>3. /\ k2.pc = "kalloc" /\ k2.call = "fork" /\ k2.page = -1
          /\ k2.table = NoPages /\ k2.kpage = NoFrame
      BY DEF Idle
    <2> HIDE DEF k2
    <2>4. CallShape(p)' /\ Extent(p)' = Extent(p)
      BY <1>2, <1>3, <2>1, <2>2, <2>3, BuiltFacts DEF CallShape, Extent
    <2>5. \A q \in Procs : InUse(q)' <=> InUse(q)
      BY <2>1 DEF InUse, ShapeInv, StackInv
    <2> QED
      BY <1>4, <2>1, <2>2, <2>4, <2>5
  <1> QED
    BY <1>5, <1>6, <1>7, <1>8

\* sbrk() and a page fault keep the tables.
LEMMA PageKeepsTables ==
  ASSUME ShapeInv, KernelInv', NEW p \in Procs,
         SbrkPage(p) \/ SwapRead(p) \/ SwapIn(p)
  PROVE  TableInv'
  <1> DEFINE k == kernel[p]
  <1>1. /\ kernel \in [Procs -> KernelTypes]
        /\ k \in KernelTypes /\ KernelShape(k) /\ CallShape(p)
    BY DEF ShapeInv, KernelInv, TableInv
  <1>2. /\ state[p] = "RUNNABLE" /\ k.pc # "wait"
        /\ UNCHANGED state
        /\ \A q \in Procs : q # p => kernel'[q] = kernel[q]
    BY StaysInCallFacts DEF StaysInCall
  <1>3. /\ \A q \in Procs : InUse(q)' <=> InUse(q)
        /\ InUse(p)
    BY <1>2 DEF InUse
  <1>4. /\ sz \in [Procs -> 0 .. MaxPages] /\ sz[p] >= 1 /\ kpage[p] \in Frames
        /\ kpage \in [Procs -> Frames \cup {NoFrame}]
        /\ MaxPages \in Nat /\ Pages = 0 .. MaxPages - 1
        /\ pgdir \in [Procs -> Tables]
    BY <1>3, SwapAssumption DEF ShapeInv, TableInv, KernelInv, Pages
  <1>5. \A v \in Pages : v >= Extent(p) => pgdir[p][v].at # "ram"
    BY DEF ShapeInv, TableInv
  <1>6. Idle.call = "none" /\ Idle.pc = "user" /\ Idle.table = NoPages /\ Idle.kpage = NoFrame
    BY DEF Idle
  <1>7. kernel'[p] = Idle => CallShape(p)'
    BY <1>6 DEF CallShape
  <1>8. CASE SbrkPage(p)
    <2>1. /\ k.pc = "got" /\ k.call = "sbrk"
          /\ pgdir' = [pgdir EXCEPT ![p][k.page] = InRam(k.frame, FALSE)]
          /\ UNCHANGED kpage
          /\ IF k.page + 1 < k.goal
             THEN kernel'[p] = NextPage(k) /\ UNCHANGED sz
             ELSE kernel'[p] = Idle /\ sz' = [sz EXCEPT ![p] = k.goal]
      BY <1>1, <1>8 DEF SbrkPage, Enter, Return, At
    <2>2. k.page \in sz[p] .. k.goal - 1 /\ k.goal <= MaxPages /\ k.goal \in Int
      BY <1>1, <2>1 DEF CallShape, KernelTypes
    <2>3. k.page \in Pages /\ k.page \in Int
      BY <1>4, <2>2
    <2>4. \A r \in Procs : \A w \in Pages :
            pgdir'[r][w] = IF r = p /\ w = k.page THEN InRam(k.frame, FALSE)
                           ELSE pgdir[r][w]
      BY <1>4, <2>1, <2>3 DEF Tables
    <2>5. Extent(p) = k.page
      BY <2>1 DEF Extent
    <2>6. CASE k.page + 1 < k.goal
      <3>1. /\ kernel'[p].call = "sbrk" /\ kernel'[p].page = k.page + 1
            /\ kernel'[p].pc = "kalloc" /\ kernel'[p].goal = k.goal
            /\ kernel'[p].table = k.table /\ kernel'[p].kpage = k.kpage
        BY <1>1, <2>1, <2>6, NextPageFacts DEF Calls
      <3>2. CallShape(p)'
        BY <1>1, <1>4, <2>1, <2>2, <2>6, <3>1 DEF CallShape
      <3>3. Extent(p)' = k.page + 1
        BY <3>1 DEF Extent
      <3>4. \A v \in Pages : v >= Extent(p)' => pgdir'[p][v].at # "ram"
        <4>1. ASSUME NEW v \in Pages, v >= k.page + 1 PROVE pgdir'[p][v].at # "ram"
          <5>1. v # k.page /\ v >= k.page
            BY <1>4, <2>3, <4>1
          <5> QED
            BY <1>5, <2>4, <2>5, <5>1
        <4> QED
          BY <3>3, <4>1
      <3>5. \A q \in Procs : q # p => \A v \in Pages :
              pgdir'[q][v].at = "ram" => pgdir[q][v].at = "ram"
        BY <2>4
      <3>6. \A q \in Procs : ~InUse(q) => pgdir'[q] = pgdir[q]
        BY <1>3, <1>4, <2>1
      <3> QED
        BY <1>2, <1>3, <1>4, <2>1, <2>6, <3>2, <3>4, <3>5, <3>6, TableKeeps
    <2>7. CASE ~ (k.page + 1 < k.goal)
      <3>1. CallShape(p)'
        BY <1>7, <2>1, <2>7
      <3>2. Extent(p)' = k.goal /\ k.goal = k.page + 1
        <4>1. k.goal = k.page + 1
          BY <2>2, <2>3, <2>7
        <4>2. sz'[p] = k.goal /\ kernel'[p].call = "none"
          BY <1>4, <1>6, <2>1, <2>7
        <4> QED
          BY <4>1, <4>2 DEF Extent
      <3>3. \A v \in Pages : v >= Extent(p)' => pgdir'[p][v].at # "ram"
        <4>1. ASSUME NEW v \in Pages, v >= k.page + 1 PROVE pgdir'[p][v].at # "ram"
          <5>1. v # k.page /\ v >= k.page
            BY <1>4, <2>3, <4>1
          <5> QED
            BY <1>5, <2>4, <2>5, <5>1
        <4> QED
          BY <3>2, <4>1
      <3>4. \A q \in Procs : q # p => \A v \in Pages :
              pgdir'[q][v].at = "ram" => pgdir[q][v].at = "ram"
        BY <2>4
      <3>5. \A q \in Procs : ~InUse(q) => pgdir'[q] = pgdir[q]
        BY <1>3, <1>4, <2>1
      <3>6. /\ sz' \in [Procs -> 0 .. MaxPages] /\ sz'[p] >= 1
            /\ \A q \in Procs : q # p => sz'[q] = sz[q]
        BY <1>4, <2>1, <2>2, <2>7
      <3> QED
        BY <1>2, <1>3, <1>4, <2>1, <3>1, <3>3, <3>4, <3>5, <3>6, TableKeeps
    <2> QED
      BY <2>6, <2>7
  <1>9. CASE SwapRead(p)
    <2> DEFINE k2 == [k EXCEPT !.pc = "read", !.slot = pgdir[p][k.page].n]
    <2>1. /\ k.pc = "got" /\ k.call = "fault"
          /\ kernel'[p] = k2
          /\ UNCHANGED <<sz, kpage, pgdir>>
      BY <1>1, <1>9 DEF SwapRead, Enter, At, procs
    <2>2. /\ k2.pc = "read" /\ k2.call = "fault" /\ k2.page = k.page
          /\ k2.slot = pgdir[p][k.page].n
          /\ k2.table = k.table /\ k2.kpage = k.kpage
      BY <1>1, <2>1 DEF KernelTypes
    <2> HIDE DEF k2
    <2>3. CallShape(p)' /\ Extent(p)' = Extent(p)
      BY <1>1, <2>1, <2>2 DEF CallShape, Extent
    <2> QED
      BY <1>2, <1>3, <2>1, <2>3, TableSame
  <1>10. CASE SwapIn(p)
    <2>1. /\ k.pc = "read" /\ k.call = "fault"
          /\ pgdir' = [pgdir EXCEPT ![p][k.page] = InRam(k.frame, FALSE)]
          /\ UNCHANGED <<kpage, sz>>
          /\ kernel'[p] = Idle
      BY <1>1, <1>10 DEF SwapIn, Enter, Return, At, KernelShape
    <2>2. k.page \in 0 .. sz[p] - 1 /\ k.page \in Pages
      BY <1>1, <1>4, <2>1 DEF CallShape
    <2>3. \A r \in Procs : \A w \in Pages :
            pgdir'[r][w] = IF r = p /\ w = k.page THEN InRam(k.frame, FALSE)
                           ELSE pgdir[r][w]
      BY <1>4, <2>1, <2>2 DEF Tables
    <2>4. Extent(p)' = sz[p] /\ Extent(p) = sz[p]
      BY <1>6, <2>1 DEF Extent
    <2>5. \A v \in Pages : v >= Extent(p)' => pgdir'[p][v].at # "ram"
      <3>1. ASSUME NEW v \in Pages, v >= sz[p] PROVE pgdir'[p][v].at # "ram"
        <4>1. v # k.page
          BY <1>4, <2>2, <3>1
        <4> QED
          BY <1>5, <2>3, <2>4, <3>1, <4>1
      <3> QED
        BY <2>4, <3>1
    <2>6. \A q \in Procs : q # p => \A v \in Pages :
            pgdir'[q][v].at = "ram" => pgdir[q][v].at = "ram"
      BY <2>3
    <2>7. \A q \in Procs : ~InUse(q) => pgdir'[q] = pgdir[q]
      BY <1>3, <1>4, <2>1
    <2> QED
      BY <1>2, <1>3, <1>4, <1>7, <2>1, <2>5, <2>6, <2>7, TableKeeps
  <1> QED
    BY <1>8, <1>9, <1>10

\* exec() keeps the tables.
LEMMA ExecKeepsTables ==
  ASSUME ShapeInv, KernelInv', NEW p \in Procs, ExecPage(p) \/ ExecDone(p)
  PROVE  TableInv'
  <1> DEFINE k == kernel[p]
             e == InRam(k.frame, FALSE)
  <1>1. /\ kernel \in [Procs -> KernelTypes]
        /\ k \in KernelTypes /\ KernelShape(k) /\ CallShape(p)
    BY DEF ShapeInv, KernelInv, TableInv
  <1>2. /\ state[p] = "RUNNABLE" /\ k.pc = "got" /\ k.call = "exec"
        /\ UNCHANGED state
        /\ \A q \in Procs : q # p => kernel'[q] = kernel[q]
    BY StaysInCallFacts DEF StaysInCall, ExecPage, ExecDone, At
  <1>3. /\ \A q \in Procs : InUse(q)' <=> InUse(q)
        /\ InUse(p)
    BY <1>2 DEF InUse
  <1>4. /\ sz \in [Procs -> 0 .. MaxPages] /\ sz[p] >= 1 /\ kpage[p] \in Frames
        /\ kpage \in [Procs -> Frames \cup {NoFrame}]
        /\ MaxPages \in Nat /\ Pages = 0 .. MaxPages - 1
        /\ ProgramPages \in 1 .. MaxPages
        /\ pgdir \in [Procs -> Tables]
    BY <1>3, SwapAssumption DEF ShapeInv, TableInv, KernelInv, Pages
  <1>5. /\ k.page \in -1 .. ProgramPages - 1
        /\ BuiltTo(k.table, k.page)
        /\ k.kpage = NoFrame <=> k.page = -1
        /\ k.table \in Tables /\ k.kpage \in Frames \cup {NoFrame}
    BY <1>1, <1>2 DEF CallShape, KernelTypes
  <1>6. k.frame \in Frames /\ e \in Entries /\ e.at = "ram" /\ k.frame # NoFrame
    <2>1. k.frame \in Frames
      BY <1>1, <1>2 DEF KernelShape
    <2> QED
      BY <2>1, EntryFacts, Numbers DEF InRam
  <1>7. k.page # -1 => k.page \in Pages
    BY <1>4, <1>5
  <1> HIDE DEF e
  <1>8. CASE ExecPage(p)
    <2>0. /\ NextPage(k) \in KernelTypes
          /\ NextPage(k).page = k.page + 1 /\ NextPage(k).call = "exec"
          /\ NextPage(k).pc = "kalloc"
          /\ NextPage(k).table = k.table /\ NextPage(k).kpage = k.kpage
      BY <1>1, <1>2, NextPageFacts DEF Calls
    <2> DEFINE first == [NextPage(k) EXCEPT !.kpage = k.frame]
               table == [NextPage(k).table EXCEPT ![k.page] = e]
               later == [NextPage(k) EXCEPT !.table = table]
    <2>1. /\ kernel'[p] = IF k.page = -1 THEN first ELSE later
          /\ k.page < ProgramPages - 1
          /\ UNCHANGED <<sz, kpage, pgdir>>
      BY <1>1, <1>8 DEF ExecPage, Enter, e
    <2>2. /\ first.page = k.page + 1 /\ first.call = "exec" /\ first.pc = "kalloc"
          /\ first.table = k.table /\ first.kpage = k.frame
      BY <2>0 DEF KernelTypes
    <2>3. table = [k.table EXCEPT ![k.page] = e]
      BY <2>0
    <2> HIDE DEF table
    <2>4. /\ later.page = k.page + 1 /\ later.call = "exec" /\ later.pc = "kalloc"
          /\ later.table = table /\ later.kpage = k.kpage
      BY <2>0 DEF KernelTypes
    <2> HIDE DEF first, later
    <2>5. BuiltTo(kernel'[p].table, k.page + 1)
      <3>1. CASE k.page = -1
        BY <1>5, <2>1, <2>2, <3>1, BuiltFacts
      <3>2. CASE k.page # -1
        BY <1>5, <1>6, <1>7, <2>1, <2>3, <2>4, <3>2, BuiltFacts
      <3> QED
        BY <3>1, <3>2
    <2>6. /\ kernel'[p].page = k.page + 1 /\ kernel'[p].call = "exec"
          /\ kernel'[p].pc = "kalloc" /\ kernel'[p].kpage # NoFrame
      BY <1>5, <1>6, <2>1, <2>2, <2>4
    <2>7. k.page + 1 \in 0 .. ProgramPages - 1
      BY <1>4, <1>5, <2>1
    <2>8. CallShape(p)'
      BY <2>5, <2>6, <2>7 DEF CallShape
    <2>9. Extent(p)' = Extent(p)
      BY <1>2, <2>1, <2>6 DEF Extent
    <2> QED
      BY <1>2, <1>3, <2>1, <2>8, <2>9, TableSame
  <1>9. CASE ExecDone(p)
    <2> DEFINE new == [k.table EXCEPT ![k.page] = e]
    <2>1. /\ k.page = ProgramPages - 1
          /\ pgdir' = [pgdir EXCEPT ![p] = new]
          /\ kpage' = [kpage EXCEPT ![p] = k.kpage]
          /\ sz' = [sz EXCEPT ![p] = ProgramPages]
          /\ kernel'[p] = Idle
      BY <1>1, <1>9 DEF ExecDone, Return, Enter, e
    <2>2. k.page # -1 /\ k.page + 1 = ProgramPages
      BY <1>4, <2>1
    <2>3. BuiltTo(new, ProgramPages)
      BY <1>5, <1>6, <1>7, <2>2, BuiltFacts
    <2> HIDE DEF new
    <2>4. Idle.call = "none" /\ Idle.pc = "user" /\ Idle.table = NoPages
          /\ Idle.kpage = NoFrame
      BY DEF Idle
    <2>5. CallShape(p)' /\ Extent(p)' = ProgramPages
      BY <1>4, <2>1, <2>4 DEF CallShape, Extent
    <2>6. \A v \in Pages : v >= Extent(p)' => pgdir'[p][v].at # "ram"
      BY <1>4, <2>1, <2>3, <2>5 DEF BuiltTo, Unmapped
    <2>7. /\ \A q \in Procs : ~InUse(q) => pgdir'[q] = pgdir[q]
          /\ \A q \in Procs : q # p =>
               pgdir'[q] = pgdir[q] /\ sz'[q] = sz[q] /\ kpage'[q] = kpage[q]
      BY <1>3, <1>4, <2>1
    <2>8. /\ sz' \in [Procs -> 0 .. MaxPages] /\ sz'[p] >= 1
          /\ kpage' \in [Procs -> Frames \cup {NoFrame}] /\ kpage'[p] \in Frames
      BY <1>4, <1>5, <2>1, <2>2
    <2> QED
      BY <1>2, <1>3, <2>5, <2>6, <2>7, <2>8, TableKeeps
  <1> QED
    BY <1>8, <1>9

\* fork() keeps the tables.
LEMMA ForkKeepsTables ==
  ASSUME ShapeInv, KernelInv', NEW p \in Procs,
         ForkKernelPage(p) \/ CopyLooks(p) \/ CopyPage(p)
  PROVE  TableInv'
  <1> DEFINE k == kernel[p]
  <1>1. /\ kernel \in [Procs -> KernelTypes]
        /\ k \in KernelTypes /\ KernelShape(k) /\ CallShape(p)
    BY DEF ShapeInv, KernelInv, TableInv
  <1>2. state[p] = "RUNNABLE" /\ k.call = "fork" /\ k.pc \in {"got", "copy"}
    BY <1>1 DEF ForkKernelPage, CopyLooks, CopyPage, At, Runs, KernelShape
  <1>3. InUse(p) /\ k.child = p + 1 /\ k.child \in Procs /\ state[k.child] = "EMBRYO"
    BY <1>2 DEF InUse, ShapeInv, StackInv
  <1>4. /\ sz \in [Procs -> 0 .. MaxPages] /\ sz[p] >= 1 /\ kpage[p] \in Frames
        /\ kpage \in [Procs -> Frames \cup {NoFrame}]
        /\ MaxPages \in Nat /\ Pages = 0 .. MaxPages - 1
        /\ pgdir \in [Procs -> Tables]
    BY <1>3, SwapAssumption DEF ShapeInv, TableInv, KernelInv, Pages
  <1>5. /\ k.page \in -1 .. sz[p] - 1
        /\ BuiltTo(k.table, k.page)
        /\ k.kpage = NoFrame <=> k.page = -1
        /\ k.table \in Tables /\ k.kpage \in Frames \cup {NoFrame}
        /\ k.page >= 0 /\ k.pc # "copy" => k.source.at = "ram"
    BY <1>1, <1>2 DEF CallShape, KernelTypes
  <1>6. k.page # -1 => k.page \in Pages
    BY <1>4, <1>5
  <1>7. k.pc = "got" => k.frame \in Frames /\ k.frame # NoFrame
    BY <1>1, Numbers DEF KernelShape
  <1>8. k.pc = "got" =>
          /\ NextPage(k) \in KernelTypes
          /\ NextPage(k).page = k.page + 1 /\ NextPage(k).call = "fork"
          /\ NextPage(k).table = k.table /\ NextPage(k).kpage = k.kpage
    BY <1>1, <1>2, NextPageFacts DEF Calls
  <1>9. StaysInCall(p) =>
          /\ UNCHANGED state
          /\ \A q \in Procs : q # p => kernel'[q] = kernel[q]
          /\ \A q \in Procs : InUse(q)' <=> InUse(q)
    BY StaysInCallFacts DEF InUse
  <1>10. CASE ForkKernelPage(p)
    <2> DEFINE k2 == [NextPage(k) EXCEPT !.kpage = k.frame, !.pc = "copy"]
    <2>1. /\ k.pc = "got" /\ k.page = -1
          /\ kernel'[p] = k2
          /\ UNCHANGED <<sz, kpage, pgdir>>
      BY <1>1, <1>10 DEF ForkKernelPage, Enter, At
    <2>2. /\ k2.page = 0 /\ k2.call = "fork" /\ k2.pc = "copy"
          /\ k2.table = k.table /\ k2.kpage = k.frame
      BY <1>8, <2>1 DEF KernelTypes
    <2> HIDE DEF k2
    <2>3. BuiltTo(k.table, 0)
      BY <1>5, <2>1, BuiltFacts
    <2>4. CallShape(p)' /\ Extent(p)' = Extent(p)
      BY <1>2, <1>4, <1>7, <2>1, <2>2, <2>3 DEF CallShape, Extent
    <2> QED
      BY <1>2, <1>9, <1>10, <2>1, <2>4, TableSame DEF StaysInCall
  <1>11. CASE CopyLooks(p)
    <2>1. CASE pgdir[p][k.page].at # "ram"
      BY <1>11, <2>1 DEF CopyLooks, Panic, ShapeInv, TableInv, CallShape, WritingShape,
                         Extent, BuiltTo, InUse, procs, swap
    <2>2. CASE pgdir[p][k.page].at = "ram"
      <3> DEFINE k2 == [k EXCEPT !.pc = "kalloc", !.source = pgdir[p][k.page]]
      <3>1. /\ kernel'[p] = k2
            /\ UNCHANGED <<sz, kpage, pgdir>>
        BY <1>1, <1>11, <2>2 DEF CopyLooks, Enter, procs
      <3>2. /\ k2.page = k.page /\ k2.call = "fork" /\ k2.pc = "kalloc"
            /\ k2.table = k.table /\ k2.kpage = k.kpage
            /\ k2.source = pgdir[p][k.page]
        BY <1>1, <1>2 DEF KernelTypes
      <3> HIDE DEF k2
      <3>3. CallShape(p)' /\ Extent(p)' = Extent(p)
        BY <1>2, <1>5, <2>2, <3>1, <3>2 DEF CallShape, Extent
      <3> QED
        BY <1>2, <1>9, <1>11, <3>1, <3>3, TableSame DEF StaysInCall
    <2> QED
      BY <2>1, <2>2
  <1>12. CASE CopyPage(p)
    <2> DEFINE e == InRam(k.frame, k.source.used)
               new == [k.table EXCEPT ![k.page] = e]
               k2 == [NextPage(k) EXCEPT !.pc = "copy", !.table = new]
    <2>1. /\ k.pc = "got" /\ k.page >= 0
          /\ IF k.page + 1 < sz[p]
             THEN kernel'[p] = k2 /\ UNCHANGED <<sz, kpage, pgdir>>
             ELSE /\ pgdir' = [pgdir EXCEPT ![k.child] = new]
                  /\ kpage' = [kpage EXCEPT ![k.child] = k.kpage]
                  /\ sz' = [sz EXCEPT ![k.child] = sz[p]]
                  /\ state' = [state EXCEPT ![k.child] = "RUNNABLE"]
                  /\ kernel' = [kernel EXCEPT ![p] = Waiting(k.child)]
      BY <1>1, <1>12 DEF CopyPage, Enter, At, Waiting
    <2>2. e \in Entries /\ e.at = "ram"
      <3>1. k.source \in Entries /\ k.source.at = "ram"
        BY <1>1, <1>5, <2>1 DEF KernelTypes
      <3> QED
        BY <1>7, <2>1, <3>1, EntryFacts DEF InRam
    <2> HIDE DEF e
    <2>3. BuiltTo(new, k.page + 1)
      BY <1>5, <1>6, <2>1, <2>2, BuiltFacts
    <2>4. CASE k.page + 1 < sz[p]
      <3>1. /\ k2.page = k.page + 1 /\ k2.call = "fork" /\ k2.pc = "copy"
            /\ k2.table = new /\ k2.kpage = k.kpage
        <4> HIDE DEF new
        <4> QED
          BY <1>8, <2>1 DEF KernelTypes
      <3> HIDE DEF k2, new
      <3>2. k.page + 1 \in 0 .. sz[p] - 1 /\ k.kpage # NoFrame
        BY <1>4, <1>5, <2>1, <2>4
      <3>3. CallShape(p)' /\ Extent(p)' = Extent(p)
        BY <1>2, <2>1, <2>3, <2>4, <3>1, <3>2 DEF CallShape, Extent
      <3>4. StaysInCall(p)
        BY <1>12, <2>4 DEF StaysInCall
      <3> QED
        BY <1>2, <1>9, <2>1, <2>4, <3>3, <3>4, TableSame
    <2>5. CASE ~ (k.page + 1 < sz[p])
      <3> DEFINE c == k.child
      <3>1. /\ k.page + 1 = sz[p] /\ k.kpage \in Frames
        <4>1. /\ k.page \in Int /\ sz[p] \in Int
              /\ k.page >= -1 /\ k.page <= sz[p] - 1
          BY <1>4, <1>5
        <4>2. k.page + 1 = sz[p]
          BY <2>5, <4>1
        <4> QED
          BY <1>5, <2>1, <4>2
      <3>2. /\ Waiting(c).pc = "wait" /\ Waiting(c).call = "none"
            /\ Waiting(c).table = NoPages /\ Waiting(c).kpage = NoFrame
        BY DEF Waiting, Idle
      <3>3. \A q \in Procs : q # p => /\ kernel[q].pc \in {"user", "wait"}
                                      /\ kernel[q].call = "none"
                                      /\ kernel[q].table = NoPages
                                      /\ kernel[q].kpage = NoFrame
        <4>1. k.pc # "wait"
          BY <1>2
        <4> QED
          BY <1>2, <4>1, Alone DEF ShapeInv
      <3>4. \A q \in Procs : /\ kernel'[q].pc \in {"user", "wait"}
                             /\ kernel'[q].call = "none"
                             /\ kernel'[q].table = NoPages
                             /\ kernel'[q].kpage = NoFrame
        BY <1>1, <2>1, <2>5, <3>2, <3>3
      <3>5. \A q \in Procs : CallShape(q)' /\ Extent(q)' = sz'[q]
        BY <3>4 DEF CallShape, Extent
      <3>6. c # p /\ c \in Procs
        BY <1>3, Numbers
      <3>7. \A v \in Pages : v >= sz[p] => new[v].at # "ram"
        BY <1>4, <2>3, <3>1 DEF BuiltTo, Unmapped
      <3> HIDE DEF new, c
      <3>8. /\ pgdir'[c] = new /\ kpage'[c] = k.kpage /\ sz'[c] = sz[p]
            /\ state'[c] = "RUNNABLE"
            /\ \A q \in Procs : q # c =>
                 /\ pgdir'[q] = pgdir[q] /\ kpage'[q] = kpage[q] /\ sz'[q] = sz[q]
                 /\ state'[q] = state[q]
            /\ sz' \in [Procs -> 0 .. MaxPages]
            /\ kpage' \in [Procs -> Frames \cup {NoFrame}]
        <4>1. /\ pgdir' = [pgdir EXCEPT ![c] = new]
              /\ kpage' = [kpage EXCEPT ![c] = k.kpage]
              /\ sz' = [sz EXCEPT ![c] = sz[p]]
              /\ state' = [state EXCEPT ![c] = "RUNNABLE"]
          BY <2>1, <2>5 DEF c
        <4>2. DOMAIN state = Procs
          BY DEF ShapeInv, StackInv
        <4>3. /\ sz' \in [Procs -> 0 .. MaxPages]
              /\ kpage' \in [Procs -> Frames \cup {NoFrame}]
          BY <1>4, <1>5, <3>6, <4>1
        <4> QED
          BY <1>4, <3>6, <4>1, <4>2, <4>3
      <3>9. \A q \in Procs : \A v \in Pages : v >= sz[q] => pgdir[q][v].at # "ram"
        <4> SUFFICES ASSUME NEW q \in Procs, NEW v \in Pages, v >= sz[q]
                     PROVE  pgdir[q][v].at # "ram"
          OBVIOUS
        <4>1. kernel[q].call # "sbrk"
          BY <1>2, <3>3
        <4> QED
          BY <4>1 DEF Extent, ShapeInv, TableInv
      <3>10. \A q \in Procs : \A v \in Pages : v >= Extent(q)' => pgdir'[q][v].at # "ram"
        BY <3>5, <3>7, <3>8, <3>9
      <3> QED
        BY <1>4, <3>1, <3>5, <3>8, <3>10 DEF ShapeInv, TableInv, InUse
    <2> QED
      BY <2>4, <2>5
  <1> QED
    BY <1>10, <1>11, <1>12

\* Giving memory back, and a program's own steps, keep the tables.
LEMMA ReleaseKeepsTables ==
  ASSUME ShapeInv, KernelInv', NEW p \in Procs,
         \/ \E n \in 1 .. MaxPages : Shrink(p, n)
         \/ Exit(p) \/ Wait(p)
         \/ \E v \in Pages : \E x \in Values : Touch(p, v, x)
  PROVE  TableInv'
  <1>1. /\ sz \in [Procs -> 0 .. MaxPages]
        /\ kpage \in [Procs -> Frames \cup {NoFrame}]
        /\ MaxPages \in Nat /\ Pages = 0 .. MaxPages - 1
        /\ pgdir \in [Procs -> Tables] /\ kernel \in [Procs -> KernelTypes]
    BY SwapAssumption DEF ShapeInv, TableInv, KernelInv, Pages
  <1>2. ASSUME AtUser(p), UNCHANGED <<kernel, kpage>>,
               \A q \in Procs : InUse(q)' <=> InUse(q),
               \A q \in Procs : q # p => pgdir'[q] = pgdir[q] /\ sz'[q] = sz[q],
               sz' \in [Procs -> 0 .. MaxPages], sz'[p] >= 1,
               \A v \in Pages : v >= sz'[p] => pgdir'[p][v].at # "ram"
        PROVE  TableInv'
    <2>1. /\ state[p] = "RUNNABLE" /\ kernel[p].pc = "user" /\ kernel[p].call = "none"
          /\ kpage[p] \in Frames
      BY <1>2, AtUserFacts
    <2>2. kernel[p].table = NoPages /\ kernel[p].kpage = NoFrame
      BY <2>1 DEF ShapeInv, TableInv, CallShape
    <2>3. CallShape(p)' /\ Extent(p)' = sz'[p]
      BY <1>2, <2>1, <2>2 DEF CallShape, Extent
    <2>4. InUse(p)
      BY <2>1 DEF InUse
    <2> QED
      BY <1>1, <1>2, <2>1, <2>3, <2>4, TableKeeps
  <1>3. CASE \E n \in 1 .. MaxPages : Shrink(p, n)
    <2>1. PICK n \in 1 .. MaxPages : Shrink(p, n)
      BY <1>3
    <2> DEFINE new == [v \in Pages |->
                         IF v \in {w \in Resident(pgdir[p]) : w >= n} THEN Unmapped
                         ELSE pgdir[p][v]]
    <2>2. /\ AtUser(p) /\ n \in 1 .. sz[p] - 1
          /\ pgdir' = [pgdir EXCEPT ![p] = new]
          /\ sz' = [sz EXCEPT ![p] = n]
          /\ UNCHANGED <<kernel, kpage, state>>
      BY <2>1 DEF Shrink
    <2>3. \A v \in Pages : v >= n => new[v].at # "ram"
      BY DEF Resident, Unmapped
    <2> HIDE DEF new
    <2>4. sz' \in [Procs -> 0 .. MaxPages] /\ sz'[p] >= 1
      BY <1>1, <2>2
    <2> QED
      BY <1>1, <1>2, <2>2, <2>3, <2>4 DEF InUse
  <1>4. CASE Exit(p)
    <2> DEFINE new == [v \in Pages |->
                         IF v \in SwappedOut(p) THEN Unmapped ELSE pgdir[p][v]]
    <2>1. /\ AtUser(p)
          /\ pgdir' = [pgdir EXCEPT ![p] = new]
          /\ state' = [state EXCEPT ![p] = "ZOMBIE"]
          /\ UNCHANGED <<kernel, kpage, sz>>
      BY <1>4 DEF Exit
    <2>2. Extent(p) = sz[p] /\ state[p] = "RUNNABLE" /\ sz[p] \in 1 .. MaxPages
      BY <2>1, AtUserFacts
    <2>3. \A v \in Pages : v >= sz[p] => pgdir[p][v].at # "ram"
      BY <2>2 DEF ShapeInv, TableInv
    <2>4. \A v \in Pages : v >= sz[p] => new[v].at # "ram"
      BY <2>3 DEF Unmapped
    <2> HIDE DEF new
    <2>5. \A q \in Procs : InUse(q)' <=> InUse(q)
      BY <2>1, <2>2 DEF InUse, ShapeInv, StackInv
    <2>6. sz[p] >= 1
      BY <2>2
    <2> QED
      BY <1>1, <1>2, <2>1, <2>4, <2>5, <2>6
  <1>5. CASE Wait(p)
    <2> DEFINE c == p + 1
    <2>1. /\ kernel[p].child = c /\ c \in Procs /\ state[c] = "ZOMBIE"
          /\ \A q \in Procs : /\ kernel[q].pc \in {"user", "wait"}
                              /\ kernel[q].call = "none"
                              /\ kernel[q].table = NoPages
                              /\ kernel[q].kpage = NoFrame
      BY <1>5, Reaping DEF Wait, ShapeInv
    <2>2. /\ pgdir' = [pgdir EXCEPT ![c] = NoPages]
          /\ kpage' = [kpage EXCEPT ![c] = NoFrame]
          /\ sz' = [sz EXCEPT ![c] = 0]
          /\ state' = [state EXCEPT ![c] = "UNUSED"]
          /\ kernel' = [kernel EXCEPT ![p] = Idle]
      BY <1>5, <2>1 DEF Wait, Return, Enter
    <2>3. /\ Idle.pc = "user" /\ Idle.call = "none" /\ Idle.table = NoPages
          /\ Idle.kpage = NoFrame
      BY DEF Idle
    <2>4. \A q \in Procs : /\ kernel'[q].pc \in {"user", "wait"}
                           /\ kernel'[q].call = "none"
                           /\ kernel'[q].table = NoPages
                           /\ kernel'[q].kpage = NoFrame
      BY <1>1, <2>1, <2>2, <2>3
    <2>5. \A q \in Procs : CallShape(q)' /\ Extent(q)' = sz'[q]
      BY <2>4 DEF CallShape, Extent
    <2> HIDE DEF c
    <2>6. /\ pgdir'[c] = NoPages /\ kpage'[c] = NoFrame /\ sz'[c] = 0
          /\ state'[c] = "UNUSED"
          /\ \A q \in Procs : q # c =>
               /\ pgdir'[q] = pgdir[q] /\ kpage'[q] = kpage[q] /\ sz'[q] = sz[q]
               /\ state'[q] = state[q]
          /\ sz' \in [Procs -> 0 .. MaxPages]
          /\ kpage' \in [Procs -> Frames \cup {NoFrame}]
      BY <1>1, <2>1, <2>2 DEF ShapeInv, StackInv
    <2>7. \A q \in Procs : \A v \in Pages : v >= sz[q] => pgdir[q][v].at # "ram"
      <3> SUFFICES ASSUME NEW q \in Procs, NEW v \in Pages, v >= sz[q]
                   PROVE  pgdir[q][v].at # "ram"
        OBVIOUS
      <3>1. kernel[q].call # "sbrk"
        BY <2>1
      <3> QED
        BY <3>1 DEF Extent, ShapeInv, TableInv
    <2>8. \A v \in Pages : NoPages[v].at # "ram"
      BY DEF NoPages, Unmapped
    <2>9. \A q \in Procs : \A v \in Pages : v >= Extent(q)' => pgdir'[q][v].at # "ram"
      BY <2>5, <2>6, <2>7, <2>8
    <2> QED
      BY <2>1, <2>5, <2>6, <2>9 DEF ShapeInv, TableInv, InUse
  <1>6. CASE \E v \in Pages : \E x \in Values : Touch(p, v, x)
    <2>1. PICK v \in Pages, x \in Values : Touch(p, v, x)
      BY <1>6
    <2>2. /\ AtUser(p) /\ v \in Resident(pgdir[p])
          /\ pgdir' = [pgdir EXCEPT ![p][v].used = TRUE]
          /\ UNCHANGED <<kernel, kpage, sz, state>>
      BY <2>1 DEF Touch
    <2>3. Extent(p) = sz[p] /\ sz[p] \in 1 .. MaxPages
      BY <2>2, AtUserFacts
    <2>4. \A w \in Pages : pgdir'[p][w].at = "ram" => pgdir[p][w].at = "ram"
      BY <1>1, <2>2 DEF Resident, Tables
    <2>5. \A w \in Pages : w >= sz[p] => pgdir'[p][w].at # "ram"
      BY <2>3, <2>4 DEF ShapeInv, TableInv
    <2>6. sz[p] >= 1
      BY <2>3
    <2> QED
      BY <1>1, <1>2, <2>2, <2>5, <2>6 DEF InUse
  <1> QED
    BY <1>3, <1>4, <1>5, <1>6

\* Every step keeps what the tables look like.
LEMMA TableKept ==
  ASSUME ShapeInv, [Next]_vars
  PROVE  TableInv'
  <1>1. CASE UNCHANGED vars
    BY <1>1 DEF vars, ShapeInv, TableInv, CallShape, WritingShape, Extent, BuiltTo, InUse
  <1>2. CASE Next
    <2>1. PICK p \in Procs : Kernel(p) \/ User(p)
      BY <1>2 DEF Next
    <2>2. KernelInv'
      BY KernelKept
    <2> QED
      BY <2>1, <2>2, KallocKeepsTables, CallKeepsTables, PageKeepsTables,
         ExecKeepsTables, ForkKeepsTables, ReleaseKeepsTables DEF Kernel, User
  <1> QED
    BY <1>1, <1>2

\* boot has frames enough for the first image and its kernel page.
LEMMA FirstImageFacts ==
  /\ FirstImage \in [0 .. ProgramPages -> Frames]
  /\ \A i, j \in 0 .. ProgramPages : FirstImage[i] = FirstImage[j] => i = j
  <1> DEFINE n == Cardinality(Frames)
  <1>1. n \in Nat /\ n > ProgramPages /\ ProgramPages \in Nat
    BY SwapAssumption, FS_CardinalityType
  <1>2. PICK g \in Bijection(1 .. n, Frames) : TRUE
    BY SwapAssumption, FS_CardinalityType DEF ExistsBijection
  <1>3. g \in [1 .. n -> Frames] /\ \A i, j \in 1 .. n : g[i] = g[j] => i = j
    BY <1>2 DEF Bijection, Injection, IsInjective
  <1> HIDE DEF n
  <1> DEFINE image == [i \in 0 .. ProgramPages |-> g[i + 1]]
  <1>4. \A i \in 0 .. ProgramPages : i + 1 \in 1 .. n /\ i \in Nat
    BY <1>1
  <1>5. image \in [0 .. ProgramPages -> Frames]
    BY <1>3, <1>4
  <1>6. \A i, j \in 0 .. ProgramPages : image[i] = image[j] => i = j
    <2> SUFFICES ASSUME NEW i \in 0 .. ProgramPages, NEW j \in 0 .. ProgramPages,
                        image[i] = image[j]
                 PROVE  i = j
      OBVIOUS
    <2>1. i + 1 = j + 1
      BY <1>3, <1>4
    <2> QED
      BY <1>4, <2>1
  <1> HIDE DEF image
  <1>7. image \in Injection(0 .. ProgramPages, Frames)
    BY <1>5, <1>6 DEF Injection, IsInjective
  <1>8. FirstImage \in Injection(0 .. ProgramPages, Frames)
    BY <1>7 DEF FirstImage
  <1> QED
    BY <1>8 DEF Injection, IsInjective

\* The first process starts with its program in memory, and no other is there.
LEMMA ShapeInit ==
  ASSUME Init
  PROVE  ShapeInv
  <1>1. /\ 1 \in Procs
        /\ ProgramPages \in 1 .. MaxPages /\ MaxPages \in Nat /\ NPROC \in Nat
    BY Numbers, SwapAssumption
  <1>2. /\ Idle.pc = "user" /\ Idle.call = "none" /\ Idle.table = NoPages
        /\ Idle.kpage = NoFrame
    BY DEF Idle
  <1>3. \A p \in Procs : kernel[p] = Idle
    BY DEF Init
  <1>4. pgdir \in [Procs -> Tables]
    <2>1. ASSUME NEW p \in Procs, NEW v \in Pages
          PROVE  (IF p = 1 /\ v < ProgramPages THEN InRam(FirstImage[v], FALSE)
                  ELSE Unmapped) \in Entries
      <3>1. CASE p = 1 /\ v < ProgramPages
        <4>1. v \in 0 .. ProgramPages
          BY <1>1, <3>1, Numbers
        <4> QED
          BY <3>1, <4>1, FirstImageFacts, EntryFacts
      <3>2. CASE ~ (p = 1 /\ v < ProgramPages)
        BY <3>2, EntryFacts
      <3> QED
        BY <3>1, <3>2
    <2> QED
      BY <2>1 DEF Init, Tables
  <1>5. KernelInv
    <2>1. TH \in 1 .. TH /\ NPG \in 1 .. Max({LIMIT, NPG})
      <3>1. TH \in Nat \ {0} /\ NPG \in Nat \ {0} /\ LIMIT \in Int
        BY SwapAssumption
      <3>2. Max({LIMIT, NPG}) \in {LIMIT, NPG} /\ Max({LIMIT, NPG}) >= NPG
        BY <3>1, MinMax
      <3> QED
        BY <3>1, <3>2
    <2>2. kernel \in [Procs -> KernelTypes] /\ rss \in [Procs -> Int]
      BY IdleFacts DEF Init
    <2>3. \A p \in Procs : KernelShape(kernel[p])
      BY <1>3, IdleFacts
    <2>4. freelist \subseteq Frames /\ usedSlots \subseteq Slots /\ th = TH /\ npg = NPG
      BY DEF Init
    <2> QED
      BY <1>4, <2>1, <2>2, <2>3, <2>4 DEF KernelInv
  <1>6. StackInv
    BY <1>1, <1>2, <1>3, Numbers DEF Init, StackInv
  <1>7. TableInv
    <2>1. sz \in [Procs -> 0 .. MaxPages]
      BY <1>1 DEF Init
    <2>2. kpage \in [Procs -> Frames \cup {NoFrame}]
      <3>1. FirstImage[ProgramPages] \in Frames
        BY <1>1, FirstImageFacts
      <3> QED
        BY <3>1 DEF Init
    <2>3. \A p \in Procs : InUse(p) <=> p = 1
      BY DEF Init, InUse
    <2>4. \A p \in Procs : ~InUse(p) => pgdir[p] = NoPages /\ kpage[p] = NoFrame /\ sz[p] = 0
      BY <2>3 DEF Init, NoPages
    <2>5. \A p \in Procs : InUse(p) => kpage[p] \in Frames /\ sz[p] >= 1
      BY <1>1, <2>3, FirstImageFacts DEF Init
    <2>6. \A p \in Procs : CallShape(p) /\ Extent(p) = sz[p]
      BY <1>2, <1>3 DEF CallShape, Extent
    <2>7. \A p \in Procs : \A v \in Pages : v >= Extent(p) => pgdir[p][v].at # "ram"
      <3>1. ASSUME NEW p \in Procs, NEW v \in Pages, v >= sz[p]
            PROVE  pgdir[p][v] = Unmapped
        <4>1. v \in Nat
          BY Numbers
        <4>2. ~ (p = 1 /\ v < ProgramPages)
          BY <1>1, <3>1, <4>1 DEF Init
        <4> QED
          BY <4>2 DEF Init
      <3> QED
        BY <2>6, <3>1 DEF Unmapped
    <2> QED
      BY <2>1, <2>2, <2>4, <2>5, <2>6, <2>7 DEF TableInv
  <1> QED
    BY <1>5, <1>6, <1>7 DEF ShapeInv

\* At every step, at most one process is at work in the kernel, or runs; the
\* others wait for it; and the page tables are as the calls need them.
THEOREM ShapeHolds == Spec => []ShapeInv
  <1>1. ASSUME ShapeInv, [Next]_vars PROVE ShapeInv'
    BY <1>1, KernelKept, StackKept, TableKept DEF ShapeInv
  <1> QED
    BY <1>1, ShapeInit, PTL DEF Spec

=============================================================================

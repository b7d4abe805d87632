-------------------------- MODULE SwapFramesProofs --------------------------
(***************************************************************************)
(* Who owns the page frames of SwapArea: at every step of every call each  *)
(* frame is free or in exactly one place, and free_pages promises no frame *)
(* that is not there.                                                      *)
(***************************************************************************)
EXTENDS SwapAreaProofs

-----------------------------------------------------------------------------
(* The invariant *)

\* The frame of each place where one can be: an entry of a page table or of
\* one that is being built, a kernel page, and the hand of kalloc().
Kinds == {"page", "table", "kpage", "newKpage", "frame"}
Places == Kinds \X Procs \X Pages

FrameOf(e) == IF e.at = "ram" THEN e.n ELSE NoFrame

FrameAt(kind, p, v) ==
  CASE kind = "page" -> FrameOf(pgdir[p][v])
    [] kind = "table" -> FrameOf(kernel[p].table[v])
    [] kind = "kpage" -> IF v = 0 THEN kpage[p] ELSE NoFrame
    [] kind = "newKpage" -> IF v = 0 THEN kernel[p].kpage ELSE NoFrame
    [] kind = "frame" -> IF v = 0 THEN kernel[p].frame ELSE NoFrame

Holding == [x \in Places |-> FrameAt(x[1], x[2], x[3])]

\* H gives every frame that is not free a place of its own.
Shared(H, free) ==
  /\ H \in [Places -> Frames \cup {NoFrame}]
  /\ free \subseteq Frames
  /\ \A x, y \in Places : H[x] = H[y] /\ H[x] # NoFrame => x = y
  /\ \A f \in Frames : f \in free <=> \A x \in Places : H[x] # f

FrameInv ==
  /\ Shared(Holding, freelist)
  /\ freePages \in Int /\ freePages <= Cardinality(freelist)

-----------------------------------------------------------------------------
(* The frames *)

\* A place is a kind, a process and a page.
LEMMA PlaceFacts ==
  /\ \A kind \in Kinds : \A p \in Procs : \A v \in Pages : <<kind, p, v>> \in Places
  /\ \A q \in Procs : \A v \in Pages :
       /\ <<"page", q, v>> \in Places /\ <<"table", q, v>> \in Places
       /\ <<"kpage", q, v>> \in Places /\ <<"newKpage", q, v>> \in Places
       /\ <<"frame", q, v>> \in Places
  /\ \A x \in Places : \E kind \in Kinds : \E p \in Procs : \E v \in Pages :
       x = <<kind, p, v>>
  BY DEF Places, Kinds

\* The frame of an entry.
LEMMA FrameOfFacts ==
  /\ \A e \in Entries : FrameOf(e) \in Frames \cup {NoFrame}
  /\ \A e \in Entries : FrameOf(e) # NoFrame <=> e.at = "ram"
  /\ FrameOf(Unmapped) = NoFrame
  /\ \A f : \A u : FrameOf(InRam(f, u)) = f
  /\ \A s : FrameOf(InSwap(s)) = NoFrame
  BY EntryFacts, Numbers DEF FrameOf, Unmapped, InRam, InSwap

\* Using a page changes nothing else in its entry.
LEMMA MarkedFacts ==
  ASSUME NEW e \in Entries, e.at = "ram"
  PROVE  /\ [e EXCEPT !.used = TRUE] \in Entries
         /\ [e EXCEPT !.used = TRUE].at = e.at
         /\ [e EXCEPT !.used = TRUE].n = e.n
  <1>1. e # Unmapped
    BY DEF Unmapped
  <1>2. e \notin [at : {"swap"}, n : Slots, used : {FALSE}]
    OBVIOUS
  <1>3. e \in [at : {"ram"}, n : Frames, used : BOOLEAN]
    BY <1>1, <1>2 DEF Entries
  <1> QED
    BY <1>3 DEF Entries

\* What Holding says of each kind of place.
HoldingShape ==
  /\ Holding \in [Places -> Frames \cup {NoFrame}]
  /\ \A q \in Procs : \A v \in Pages :
       /\ Holding[<<"page", q, v>>] = FrameOf(pgdir[q][v])
       /\ Holding[<<"table", q, v>>] = FrameOf(kernel[q].table[v])
       /\ Holding[<<"kpage", q, v>>] = IF v = 0 THEN kpage[q] ELSE NoFrame
       /\ Holding[<<"newKpage", q, v>>] = IF v = 0 THEN kernel[q].kpage ELSE NoFrame
       /\ Holding[<<"frame", q, v>>] = IF v = 0 THEN kernel[q].frame ELSE NoFrame

\* The places hold frames, whatever the calls are at.
LEMMA HoldingFacts == ShapeInv => HoldingShape
  <1> SUFFICES ASSUME ShapeInv PROVE HoldingShape
    OBVIOUS
  <1>1. \A q \in Procs : \A v \in Pages :
          /\ Holding[<<"page", q, v>>] = FrameOf(pgdir[q][v])
          /\ Holding[<<"table", q, v>>] = FrameOf(kernel[q].table[v])
          /\ Holding[<<"kpage", q, v>>] = IF v = 0 THEN kpage[q] ELSE NoFrame
          /\ Holding[<<"newKpage", q, v>>] = IF v = 0 THEN kernel[q].kpage ELSE NoFrame
          /\ Holding[<<"frame", q, v>>] = IF v = 0 THEN kernel[q].frame ELSE NoFrame
    BY PlaceFacts DEF Holding, FrameAt, Kinds
  <1>2. ASSUME NEW q \in Procs, NEW v \in Pages
        PROVE  /\ FrameOf(pgdir[q][v]) \in Frames \cup {NoFrame}
               /\ FrameOf(kernel[q].table[v]) \in Frames \cup {NoFrame}
               /\ kpage[q] \in Frames \cup {NoFrame}
               /\ kernel[q].kpage \in Frames \cup {NoFrame}
               /\ kernel[q].frame \in Frames \cup {NoFrame}
    <2>1. pgdir[q][v] \in Entries /\ kernel[q].table[v] \in Entries
      BY DEF ShapeInv, KernelInv, KernelTypes, Tables
    <2> QED
      BY <2>1, FrameOfFacts DEF ShapeInv, KernelInv, KernelTypes, TableInv
  <1>3. ASSUME NEW x \in Places PROVE Holding[x] \in Frames \cup {NoFrame}
    <2>1. PICK kind \in Kinds, q \in Procs, v \in Pages : x = <<kind, q, v>>
      BY PlaceFacts
    <2>2. CASE kind = "page"
      BY <1>1, <1>2, <2>1, <2>2
    <2>6. CASE kind = "table"
      BY <1>1, <1>2, <2>1, <2>6
    <2>3. CASE kind = "kpage"
      BY <1>1, <1>2, <2>1, <2>3
    <2>4. CASE kind = "newKpage"
      BY <1>1, <1>2, <2>1, <2>4
    <2>5. CASE kind = "frame"
      BY <1>1, <1>2, <2>1, <2>5
    <2> QED
      BY <2>1, <2>2, <2>3, <2>4, <2>5, <2>6 DEF Kinds
  <1>4. Holding \in [Places -> Frames \cup {NoFrame}]
    BY <1>3 DEF Holding
  <1> QED
    BY <1>1, <1>4 DEF HoldingShape

\* And after a step.
LEMMA HoldingFactsNext == ShapeInv' => HoldingShape'
  BY HoldingFacts, PTL

\* The same, a place at a time.
LEMMA HoldingAt ==
  ASSUME ShapeInv, NEW q \in Procs, NEW v \in Pages
  PROVE  /\ Holding[<<"page", q, v>>] = FrameOf(pgdir[q][v])
         /\ Holding[<<"table", q, v>>] = FrameOf(kernel[q].table[v])
         /\ Holding[<<"kpage", q, v>>] = IF v = 0 THEN kpage[q] ELSE NoFrame
         /\ Holding[<<"newKpage", q, v>>] = IF v = 0 THEN kernel[q].kpage ELSE NoFrame
         /\ Holding[<<"frame", q, v>>] = IF v = 0 THEN kernel[q].frame ELSE NoFrame
  BY HoldingFacts, Zenon DEF HoldingShape

\* And after a step.
LEMMA HoldingAtNext ==
  ASSUME ShapeInv', NEW q \in Procs, NEW v \in Pages
  PROVE  /\ Holding'[<<"page", q, v>>] = FrameOf(pgdir'[q][v])
         /\ Holding'[<<"table", q, v>>] = FrameOf(kernel'[q].table[v])
         /\ Holding'[<<"kpage", q, v>>] = IF v = 0 THEN kpage'[q] ELSE NoFrame
         /\ Holding'[<<"newKpage", q, v>>] = IF v = 0 THEN kernel'[q].kpage ELSE NoFrame
         /\ Holding'[<<"frame", q, v>>] = IF v = 0 THEN kernel'[q].frame ELSE NoFrame
  BY HoldingFactsNext, Zenon DEF HoldingShape

\* kalloc() takes a free frame to a place that had none.
LEMMA Taken ==
  ASSUME NEW H, NEW F, Shared(H, F), NEW x \in Places, H[x] = NoFrame, NEW f \in F
  PROVE  Shared([H EXCEPT ![x] = f], F \ {f})
  BY Numbers DEF Shared

\* Frames change places, and those of the places that are gone are free.
LEMMA Rearranged ==
  ASSUME NEW H, NEW F, Shared(H, F),
         NEW G \in [Places -> Frames \cup {NoFrame}],
         NEW from \in [Places -> Places], NEW back \in [Places -> Places],
         NEW gone \in SUBSET Places,
         \A y \in Places : G[y] # NoFrame =>
           G[y] = H[from[y]] /\ from[y] \notin gone /\ back[from[y]] = y,
         \A x \in Places : H[x] # NoFrame /\ x \notin gone => G[back[x]] = H[x]
  PROVE  Shared(G, F \cup ({H[x] : x \in gone} \ {NoFrame}))
  <1> DEFINE F2 == F \cup ({H[x] : x \in gone} \ {NoFrame})
  <1>1. F2 \subseteq Frames
    BY DEF Shared
  <1>2. ASSUME NEW x \in Places, NEW y \in Places, G[x] = G[y], G[x] # NoFrame
        PROVE  x = y
    <2>1. H[from[x]] = H[from[y]] /\ H[from[x]] # NoFrame
      BY <1>2
    <2>2. from[x] = from[y]
      BY <2>1 DEF Shared
    <2> QED
      BY <1>2, <2>2
  <1>3. ASSUME NEW f \in F2, NEW y \in Places PROVE G[y] # f
    <2> SUFFICES ASSUME G[y] = f PROVE FALSE
      OBVIOUS
    <2>1. f \in Frames /\ f # NoFrame
      BY <1>1, Numbers
    <2>2. H[from[y]] = f /\ from[y] \notin gone
      BY <2>1
    <2>3. f \notin F
      BY <2>1, <2>2 DEF Shared
    <2>4. PICK x \in gone : H[x] = f
      BY <2>3
    <2> QED
      BY <2>1, <2>2, <2>4 DEF Shared
  <1>4. ASSUME NEW f \in Frames, f \notin F2 PROVE \E y \in Places : G[y] = f
    <2>1. PICK x \in Places : H[x] = f
      BY <1>4 DEF Shared
    <2>2. x \notin gone /\ H[x] # NoFrame
      BY <1>4, <2>1, Numbers
    <2> QED
      BY <2>1, <2>2
  <1> HIDE DEF F2
  <1>5. Shared(G, F2)
    BY <1>1, <1>2, <1>3, <1>4 DEF Shared
  <1> QED
    BY <1>5 DEF F2

\* A frame changes from one place to another that had none.
LEMMA Handed ==
  ASSUME NEW H, NEW F, Shared(H, F), NEW G \in [Places -> Frames \cup {NoFrame}],
         NEW a \in Places, NEW b \in Places, a # b, H[b] = NoFrame,
         \A x \in Places :
           G[x] = IF x = a THEN NoFrame ELSE IF x = b THEN H[a] ELSE H[x]
  PROVE  Shared(G, F)
  <1> DEFINE from == [x \in Places |-> IF x = b THEN a ELSE x]
             back == [x \in Places |-> IF x = a THEN b ELSE x]
             gone == {}
  <1>1. /\ from \in [Places -> Places] /\ back \in [Places -> Places]
        /\ gone \in SUBSET Places
    OBVIOUS
  <1>2. \A y \in Places : G[y] # NoFrame =>
          G[y] = H[from[y]] /\ from[y] \notin gone /\ back[from[y]] = y
    OBVIOUS
  <1>3. \A x \in Places : H[x] # NoFrame /\ x \notin gone => G[back[x]] = H[x]
    OBVIOUS
  <1>5. F \cup ({H[x] : x \in gone} \ {NoFrame}) = F
    OBVIOUS
  <1> HIDE DEF from, back, gone
  <1>6. Shared(G, F \cup ({H[x] : x \in gone} \ {NoFrame}))
    BY <1>1, <1>2, <1>3, Rearranged
  <1> QED
    BY <1>5, <1>6

\* Frames are given back.
LEMMA Freed ==
  ASSUME NEW H, NEW F, Shared(H, F), NEW G \in [Places -> Frames \cup {NoFrame}],
         NEW gone \in SUBSET Places,
         \A x \in Places : G[x] = IF x \in gone THEN NoFrame ELSE H[x]
  PROVE  Shared(G, F \cup ({H[x] : x \in gone} \ {NoFrame}))
  <1> DEFINE from == [x \in Places |-> x]
             back == from
  <1>1. from \in [Places -> Places]
    OBVIOUS
  <1>2. \A y \in Places : G[y] # NoFrame =>
          G[y] = H[from[y]] /\ from[y] \notin gone /\ back[from[y]] = y
    OBVIOUS
  <1>3. \A x \in Places : H[x] # NoFrame /\ x \notin gone => G[back[x]] = H[x]
    OBVIOUS
  <1>4. back \in [Places -> Places]
    BY <1>1
  <1> HIDE DEF from, back
  <1> QED
    BY <1>1, <1>2, <1>3, <1>4, Rearranged

\* What holds of each kind of place holds of every place.
LEMMA EveryPlace ==
  ASSUME NEW S,
         \A q \in Procs : \A v \in Pages :
           /\ <<"page", q, v>> \in S /\ <<"table", q, v>> \in S
           /\ <<"kpage", q, v>> \in S /\ <<"newKpage", q, v>> \in S
           /\ <<"frame", q, v>> \in S
  PROVE  Places \subseteq S
  <1> SUFFICES ASSUME NEW x \in Places PROVE x \in S
    OBVIOUS
  <1>1. PICK kind \in Kinds, q \in Procs, v \in Pages : x = <<kind, q, v>>
    BY PlaceFacts
  <1>2. kind \in {"page", "table", "kpage", "newKpage", "frame"}
    BY DEF Kinds
  <1> QED
    BY <1>1, <1>2

\* No frame changes its place.
LEMMA FramesSame ==
  ASSUME ShapeInv, ShapeInv', FrameInv, UNCHANGED <<freelist, freePages>>,
         \A q \in Procs :
           /\ \A v \in Pages : FrameOf(pgdir'[q][v]) = FrameOf(pgdir[q][v])
           /\ kpage'[q] = kpage[q]
           /\ kernel'[q].table = kernel[q].table
           /\ kernel'[q].kpage = kernel[q].kpage
           /\ kernel'[q].frame = kernel[q].frame
  PROVE  FrameInv'
  <1>1. HoldingShape /\ HoldingShape'
    BY HoldingFacts, HoldingFactsNext
  <1> DEFINE S == {x \in Places : Holding'[x] = Holding[x]}
  <1>2. ASSUME NEW q \in Procs, NEW v \in Pages
        PROVE  /\ Holding'[<<"page", q, v>>] = Holding[<<"page", q, v>>]
               /\ Holding'[<<"table", q, v>>] = Holding[<<"table", q, v>>]
               /\ Holding'[<<"kpage", q, v>>] = Holding[<<"kpage", q, v>>]
               /\ Holding'[<<"newKpage", q, v>>] = Holding[<<"newKpage", q, v>>]
               /\ Holding'[<<"frame", q, v>>] = Holding[<<"frame", q, v>>]
    BY <1>1 DEF HoldingShape
  <1>3. \A q \in Procs : \A v \in Pages :
           /\ <<"page", q, v>> \in S /\ <<"table", q, v>> \in S
           /\ <<"kpage", q, v>> \in S /\ <<"newKpage", q, v>> \in S
           /\ <<"frame", q, v>> \in S
    BY <1>2, PlaceFacts
  <1>4. Places \subseteq S
    <2> HIDE DEF S
    <2> QED
      BY <1>3, EveryPlace
  <1>5. Holding' = Holding
    BY <1>1, <1>4 DEF HoldingShape
  <1> QED
    BY <1>5 DEF FrameInv

\* What kalloc() has in hand moves to another place.
LEMMA HandedOn ==
  ASSUME ShapeInv, ShapeInv', FrameInv, UNCHANGED <<freelist, freePages>>,
         NEW p \in Procs, NEW kind \in {"page", "table", "newKpage"},
         NEW r \in Procs, NEW w \in Pages, kind = "newKpage" => w = 0,
         Holding[<<kind, r, w>>] = NoFrame,
         \A q \in Procs :
           /\ \A v \in Pages :
                /\ FrameOf(pgdir'[q][v]) =
                     IF kind = "page" /\ q = r /\ v = w THEN kernel[p].frame
                     ELSE FrameOf(pgdir[q][v])
                /\ FrameOf(kernel'[q].table[v]) =
                     IF kind = "table" /\ q = r /\ v = w THEN kernel[p].frame
                     ELSE FrameOf(kernel[q].table[v])
           /\ kpage'[q] = kpage[q]
           /\ kernel'[q].kpage =
                IF kind = "newKpage" /\ q = r THEN kernel[p].frame ELSE kernel[q].kpage
           /\ kernel'[q].frame = IF q = p THEN NoFrame ELSE kernel[q].frame
  PROVE  FrameInv'
  <1>1. HoldingShape /\ HoldingShape'
    BY HoldingFacts, HoldingFactsNext
  <1> DEFINE a == <<"frame", p, 0>>
             b == <<kind, r, w>>
             S == {x \in Places : Holding'[x] = IF x = a THEN NoFrame
                                                ELSE IF x = b THEN Holding[a]
                                                ELSE Holding[x]}
  <1>2. /\ a \in Places /\ b \in Places /\ a # b
        /\ Holding[a] = kernel[p].frame
    BY <1>1, PlaceFacts, Numbers DEF HoldingShape, Kinds
  <1>4. ASSUME NEW q \in Procs, NEW v \in Pages PROVE <<"page", q, v>> \in S
    <2> DEFINE x == <<"page", q, v>>
    <2>1. x # a /\ (x = b <=> kind = "page" /\ q = r /\ v = w)
      OBVIOUS
    <2>2. /\ x \in Places /\ Holding[x] = FrameOf(pgdir[q][v])
          /\ Holding'[x] = FrameOf(pgdir'[q][v])
      BY <1>1, PlaceFacts DEF HoldingShape
    <2> HIDE DEF a, b, x
    <2>3. Holding'[x] = IF x = a THEN NoFrame ELSE IF x = b THEN Holding[a] ELSE Holding[x]
      BY <1>2, <2>1, <2>2
    <2> QED
      BY <2>2, <2>3 DEF x
  <1>5. ASSUME NEW q \in Procs, NEW v \in Pages PROVE <<"table", q, v>> \in S
    <2> DEFINE x == <<"table", q, v>>
    <2>1. x # a /\ (x = b <=> kind = "table" /\ q = r /\ v = w)
      OBVIOUS
    <2>2. /\ x \in Places /\ Holding[x] = FrameOf(kernel[q].table[v])
          /\ Holding'[x] = FrameOf(kernel'[q].table[v])
      BY <1>1, PlaceFacts DEF HoldingShape
    <2> HIDE DEF a, b, x
    <2>3. Holding'[x] = IF x = a THEN NoFrame ELSE IF x = b THEN Holding[a] ELSE Holding[x]
      BY <1>2, <2>1, <2>2
    <2> QED
      BY <2>2, <2>3 DEF x
  <1>6. ASSUME NEW q \in Procs, NEW v \in Pages PROVE <<"kpage", q, v>> \in S
    <2> DEFINE x == <<"kpage", q, v>>
    <2>1. x # a /\ x # b
      OBVIOUS
    <2>2. /\ x \in Places /\ Holding[x] = (IF v = 0 THEN kpage[q] ELSE NoFrame)
          /\ Holding'[x] = (IF v = 0 THEN kpage'[q] ELSE NoFrame)
      BY <1>1, PlaceFacts DEF HoldingShape
    <2> HIDE DEF a, b, x
    <2>3. Holding'[x] = IF x = a THEN NoFrame ELSE IF x = b THEN Holding[a] ELSE Holding[x]
      BY <1>2, <2>1, <2>2
    <2> QED
      BY <2>2, <2>3 DEF x
  <1>7. ASSUME NEW q \in Procs, NEW v \in Pages PROVE <<"newKpage", q, v>> \in S
    <2> DEFINE x == <<"newKpage", q, v>>
    <2>1. x # a /\ (x = b <=> kind = "newKpage" /\ q = r /\ v = w)
      OBVIOUS
    <2>2. /\ x \in Places /\ Holding[x] = (IF v = 0 THEN kernel[q].kpage ELSE NoFrame)
          /\ Holding'[x] = (IF v = 0 THEN kernel'[q].kpage ELSE NoFrame)
      BY <1>1, PlaceFacts DEF HoldingShape
    <2> HIDE DEF a, b, x
    <2>3. Holding'[x] = IF x = a THEN NoFrame ELSE IF x = b THEN Holding[a] ELSE Holding[x]
      BY <1>2, <2>1, <2>2
    <2> QED
      BY <2>2, <2>3 DEF x
  <1>8. ASSUME NEW q \in Procs, NEW v \in Pages PROVE <<"frame", q, v>> \in S
    <2> DEFINE x == <<"frame", q, v>>
    <2>1. (x = a <=> q = p /\ v = 0) /\ x # b
      OBVIOUS
    <2>2. /\ x \in Places /\ Holding[x] = (IF v = 0 THEN kernel[q].frame ELSE NoFrame)
          /\ Holding'[x] = (IF v = 0 THEN kernel'[q].frame ELSE NoFrame)
      BY <1>1, PlaceFacts DEF HoldingShape
    <2> HIDE DEF a, b, x
    <2>3. Holding'[x] = IF x = a THEN NoFrame ELSE IF x = b THEN Holding[a] ELSE Holding[x]
      BY <1>2, <2>1, <2>2
    <2> QED
      BY <2>2, <2>3 DEF x
  <1>9. Places \subseteq S
    <2> HIDE DEF S
    <2> QED
      BY <1>4, <1>5, <1>6, <1>7, <1>8, EveryPlace
  <1>10. \A x \in Places :
           Holding'[x] = IF x = a THEN NoFrame ELSE IF x = b THEN Holding[a] ELSE Holding[x]
    BY <1>9
  <1>11. /\ Holding' \in [Places -> Frames \cup {NoFrame}] /\ Shared(Holding, freelist)
         /\ Holding[b] = NoFrame
    BY <1>1 DEF HoldingShape, FrameInv
  <1> HIDE DEF a, b, S
  <1>12. Shared(Holding', freelist)
    BY <1>2, <1>10, <1>11, Handed
  <1> QED
    BY <1>12 DEF FrameInv

\* kfree() of frames that were not free keeps the counter from promising more.
LEMMA CounterFreed ==
  ASSUME freelist \subseteq Frames, NEW gone \in SUBSET Frames, gone \cap freelist = {},
         freePages \in Int, freePages <= Cardinality(freelist),
         freelist' = freelist \cup gone, freePages' = Counted(Cardinality(gone))
  PROVE  freePages' \in Int /\ freePages' <= Cardinality(freelist')
  <1>1. IsFiniteSet(freelist) /\ IsFiniteSet(gone)
    BY Numbers, FS_Subset
  <1>2. Cardinality(freelist) \in Nat /\ Cardinality(gone) \in Nat
    BY <1>1, FS_CardinalityType
  <1>3. Cardinality(gone \cap freelist) = 0
    BY FS_EmptySet
  <1>4. Cardinality(freelist') = Cardinality(freelist) + Cardinality(gone)
    BY <1>1, <1>2, <1>3, FS_Union
  <1>5. freePages' \in Int /\ freePages' <= freePages + Cardinality(gone)
    BY <1>2, CountedFacts
  <1> QED
    BY <1>2, <1>4, <1>5

\* What is freed was in the places that are gone.
LEMMA GivenBack ==
  ASSUME ShapeInv, ShapeInv', FrameInv, NEW gone \in SUBSET Places,
         NEW frames, frames = {Holding[x] : x \in gone} \ {NoFrame},
         freelist' = freelist \cup frames,
         freePages' = Counted(Cardinality(frames)),
         Shared(Holding', freelist \cup frames)
  PROVE  FrameInv'
  <1>1. Shared(Holding, freelist) /\ freePages \in Int /\ freePages <= Cardinality(freelist)
    BY DEF FrameInv
  <1>2. frames \subseteq Frames /\ frames \cap freelist = {}
    BY <1>1 DEF Shared
  <1>3. freePages' \in Int /\ freePages' <= Cardinality(freelist')
    BY <1>1, <1>2, CounterFreed DEF Shared
  <1> QED
    BY <1>3 DEF FrameInv

\* kalloc() takes a frame off the free list.
LEMMA KallocTakesKeepsFrames ==
  ASSUME ShapeInv, ShapeInv', FrameInv, NEW p \in Procs, KallocTakes(p)
  PROVE  FrameInv'
  <1> DEFINE k == kernel[p]
  <1>1. HoldingShape /\ HoldingShape'
    BY HoldingFacts, HoldingFactsNext
  <1>2. kernel \in [Procs -> KernelTypes] /\ k \in KernelTypes /\ k.frame = NoFrame
    BY DEF ShapeInv, KernelInv, KernelShape, KallocTakes, At
  <1>3. /\ NextFree \in freelist /\ freelist \subseteq Frames
        /\ freelist' = freelist \ {NextFree} /\ freePages' = freePages - 1
        /\ kpage' = kpage /\ pgdir' = pgdir
    BY DEF KallocTakes, NextFree, ShapeInv, KernelInv, procs
  <1>4. /\ kernel'[p].frame = NextFree /\ kernel'[p].table = k.table
        /\ kernel'[p].kpage = k.kpage
        /\ \A q \in Procs : q # p => kernel'[q] = kernel[q]
    BY <1>2 DEF KallocTakes, KernelTypes
  <1>11. \A q \in Procs : /\ kernel'[q].frame = IF q = p THEN NextFree ELSE kernel[q].frame
                          /\ kernel'[q].table = kernel[q].table
                          /\ kernel'[q].kpage = kernel[q].kpage
    BY <1>4
  <1>12. ASSUME NEW q \in Procs, NEW v \in Pages
         PROVE  /\ Holding'[<<"page", q, v>>] = Holding[<<"page", q, v>>]
                /\ Holding'[<<"table", q, v>>] = Holding[<<"table", q, v>>]
                /\ Holding'[<<"kpage", q, v>>] = Holding[<<"kpage", q, v>>]
                /\ Holding'[<<"newKpage", q, v>>] = Holding[<<"newKpage", q, v>>]
                /\ Holding'[<<"frame", q, v>>] =
                     IF q = p /\ v = 0 THEN NextFree ELSE Holding[<<"frame", q, v>>]
    <2> HIDE DEF k
    <2> QED
      BY <1>1, <1>3, <1>11 DEF HoldingShape
  <1> DEFINE a == <<"frame", p, 0>>
             S == {x \in Places : Holding'[x] = IF x = a THEN NextFree ELSE Holding[x]}
  <1>5. a \in Places /\ Holding[a] = NoFrame
    BY <1>1, <1>2, PlaceFacts, Numbers DEF HoldingShape
  <1>6. ASSUME NEW q \in Procs, NEW v \in Pages
        PROVE  /\ <<"page", q, v>> \in S /\ <<"table", q, v>> \in S
               /\ <<"kpage", q, v>> \in S /\ <<"newKpage", q, v>> \in S
               /\ <<"frame", q, v>> \in S
    <2>3. /\ <<"page", q, v>> # a /\ <<"table", q, v>> # a
          /\ <<"kpage", q, v>> # a /\ <<"newKpage", q, v>> # a
          /\ <<"frame", q, v>> = a <=> q = p /\ v = 0
      OBVIOUS
    <2> HIDE DEF a
    <2> QED
      BY <1>12, <2>3, PlaceFacts
  <1>7. Places \subseteq S
    <2> HIDE DEF S
    <2> QED
      BY <1>6, EveryPlace
  <1>8. Holding' = [Holding EXCEPT ![a] = NextFree]
    BY <1>1, <1>5, <1>7 DEF HoldingShape
  <1>9. Shared(Holding', freelist')
    <2> HIDE DEF a
    <2> QED
      BY <1>3, <1>5, <1>8, Taken DEF FrameInv
  <1>10. freePages' \in Int /\ freePages' <= Cardinality(freelist')
    <2>1. IsFiniteSet(freelist) /\ Cardinality(freelist) \in Nat
      BY <1>3, Numbers, FS_Subset, FS_CardinalityType
    <2>2. Cardinality(freelist') = Cardinality(freelist) - 1
      BY <1>3, <2>1, FS_RemoveElement
    <2> QED
      BY <1>3, <2>1, <2>2 DEF FrameInv
  <1> QED
    BY <1>9, <1>10 DEF FrameInv

\* These steps leave every frame in its place.
LEMMA FramesUntouched ==
  ASSUME ShapeInv, ShapeInv', FrameInv, NEW p \in Procs,
         \/ KallocFindsNone(p) \/ SwapOut(p) \/ SwapRead(p) \/ CopyLooks(p)
         \/ \E n \in 1 .. MaxPages : Sbrk(p, n)
         \/ \E v \in Pages : Fault(p, v) \/ \E x \in Values : Touch(p, v, x)
         \/ Fork(p) \/ Exec(p) \/ Exit(p)
  PROVE  FrameInv'
  <1> DEFINE k == kernel[p]
  <1>1. kernel \in [Procs -> KernelTypes] /\ k \in KernelTypes /\ KernelShape(k)
    BY DEF ShapeInv, KernelInv
  <1>2. pgdir \in [Procs -> Tables]
    BY DEF ShapeInv, KernelInv
  <1>3. CASE UNCHANGED <<freelist, freePages, pgdir, kpage, kernel>>
    BY <1>3, FramesSame
  <1>4. ASSUME UNCHANGED <<freelist, freePages, pgdir, kpage>>, NEW k2,
               kernel' = [kernel EXCEPT ![p] = k2],
               k2.table = k.table, k2.kpage = k.kpage, k2.frame = k.frame
        PROVE  FrameInv'
    BY <1>1, <1>4, FramesSame
  <1>5. Idle.table = NoPages /\ Idle.kpage = NoFrame /\ Idle.frame = NoFrame
    BY DEF Idle
  <1>6. CASE KallocFindsNone(p)
    <2>1. CASE k.pc = "again"
      BY <1>3, <1>6, <2>1 DEF KallocFindsNone, Panic, memory, procs
    <2>2. CASE k.pc # "again"
      <3> DEFINE k2 == [k EXCEPT !.pc = "emergency", !.left = 1, !.after = "again"]
      <3>1. /\ kernel' = [kernel EXCEPT ![p] = k2]
            /\ UNCHANGED <<freelist, freePages, pgdir, kpage>>
        BY <1>1, <1>6, <2>2 DEF KallocFindsNone, memory, procs
      <3>2. k2.table = k.table /\ k2.kpage = k.kpage /\ k2.frame = k.frame
        BY <1>1 DEF KernelTypes
      <3> HIDE DEF k2
      <3> QED
        BY <1>4, <3>1, <3>2
    <2> QED
      BY <2>1, <2>2
  <1>7. CASE SwapOut(p)
    <2>1. CASE NoVictim
      BY <1>3, <1>7, <2>1 DEF SwapOut, Panic, memory, procs
    <2>2. CASE ~NoVictim
      <3> DEFINE q == VictimProcess
                 v == VictimPage(pgdir[q])
                 k2 == [k EXCEPT !.pc = "writing", !.victim = q, !.vpage = v,
                                 !.slot = SwapAlloc]
      <3>1. /\ kernel' = [kernel EXCEPT ![p] = k2]
            /\ pgdir' = [pgdir EXCEPT ![q] = Aged(pgdir[q])]
            /\ UNCHANGED <<freelist, freePages, kpage>>
        BY <1>1, <1>7, <2>2 DEF SwapOut, memory
      <3>2. k2.table = k.table /\ k2.kpage = k.kpage /\ k2.frame = k.frame
        BY <1>1 DEF KernelTypes
      <3>3. q \in Procs
        BY <2>2, VictimFacts DEF ShapeInv
      <3> HIDE DEF k2, q, v
      <3>4. \A r \in Procs : \A w \in Pages : FrameOf(pgdir'[r][w]) = FrameOf(pgdir[r][w])
        BY <1>2, <3>1, <3>3, AgedFacts DEF FrameOf
      <3> QED
        BY <1>1, <3>1, <3>2, <3>4, FramesSame
    <2> QED
      BY <2>1, <2>2
  <1>8. CASE SwapRead(p)
    <2> DEFINE k2 == [k EXCEPT !.pc = "read", !.slot = pgdir[p][k.page].n]
    <2>1. /\ kernel' = [kernel EXCEPT ![p] = k2]
          /\ UNCHANGED <<freelist, freePages, pgdir, kpage>>
      BY <1>8 DEF SwapRead, Enter, procs
    <2>2. k2.table = k.table /\ k2.kpage = k.kpage /\ k2.frame = k.frame
      BY <1>1 DEF KernelTypes
    <2> HIDE DEF k2
    <2> QED
      BY <1>4, <2>1, <2>2
  <1>9. CASE CopyLooks(p)
    <2>1. CASE pgdir[p][k.page].at # "ram"
      BY <1>3, <1>9, <2>1 DEF CopyLooks, Panic, memory, procs
    <2>2. CASE pgdir[p][k.page].at = "ram"
      <3> DEFINE k2 == [k EXCEPT !.pc = "kalloc", !.source = pgdir[p][k.page]]
      <3>1. /\ kernel' = [kernel EXCEPT ![p] = k2]
            /\ UNCHANGED <<freelist, freePages, pgdir, kpage>>
        BY <1>9, <2>2 DEF CopyLooks, Enter, memory, procs
      <3>2. k2.table = k.table /\ k2.kpage = k.kpage /\ k2.frame = k.frame
        BY <1>1 DEF KernelTypes
      <3> HIDE DEF k2
      <3> QED
        BY <1>4, <3>1, <3>2
    <2> QED
      BY <2>1, <2>2
  <1>10. ASSUME AtUser(p), NEW k2, Enter(p, k2), UNCHANGED <<freelist, freePages, pgdir, kpage>>,
                k2.table = NoPages, k2.kpage = NoFrame, k2.frame = NoFrame
         PROVE  FrameInv'
    <2>1. k = Idle
      BY <1>10, AtUserFacts
    <2> QED
      BY <1>4, <1>5, <1>10, <2>1 DEF Enter
  <1>11. CASE \E n \in 1 .. MaxPages : Sbrk(p, n)
    <2>1. PICK n \in 1 .. MaxPages : Sbrk(p, n)
      BY <1>11
    <2> DEFINE k2 == [Idle EXCEPT !.pc = "kalloc", !.call = "sbrk", !.page = sz[p],
                                  !.goal = n]
    <2>2. k2.table = NoPages /\ k2.kpage = NoFrame /\ k2.frame = NoFrame
      BY DEF Idle
    <2> HIDE DEF k2
    <2> QED
      BY <1>10, <2>1, <2>2 DEF Sbrk, k2, memory, procs
  <1>12. CASE \E v \in Pages : Fault(p, v)
    <2>1. PICK v \in Pages : Fault(p, v)
      BY <1>12
    <2> DEFINE k2 == [Idle EXCEPT !.pc = "kalloc", !.call = "fault", !.page = v]
    <2>2. k2.table = NoPages /\ k2.kpage = NoFrame /\ k2.frame = NoFrame
      BY DEF Idle
    <2> HIDE DEF k2
    <2> QED
      BY <1>10, <2>1, <2>2 DEF Fault, k2, memory, procs
  <1>13. CASE Exec(p)
    <2> DEFINE k2 == [Idle EXCEPT !.pc = "kalloc", !.call = "exec", !.page = -1]
    <2>2. k2.table = NoPages /\ k2.kpage = NoFrame /\ k2.frame = NoFrame
      BY DEF Idle
    <2> HIDE DEF k2
    <2> QED
      BY <1>10, <1>13, <2>2 DEF Exec, k2, memory, procs
  <1>14. CASE Fork(p)
    <2>1. PICK c \in Procs :
            Enter(p, [Idle EXCEPT !.pc = "kalloc", !.call = "fork",
                                  !.page = -1, !.child = c])
      BY <1>14 DEF Fork
    <2> DEFINE k2 == [Idle EXCEPT !.pc = "kalloc", !.call = "fork", !.page = -1,
                                  !.child = c]
    <2>2. k2.table = NoPages /\ k2.kpage = NoFrame /\ k2.frame = NoFrame
      BY DEF Idle
    <2> HIDE DEF k2
    <2> QED
      BY <1>10, <1>14, <2>1, <2>2 DEF Fork, k2, memory
  <1>15. CASE Exit(p)
    <2>1. /\ pgdir' = [pgdir EXCEPT ![p] =
               [v \in Pages |-> IF v \in SwappedOut(p) THEN Unmapped ELSE pgdir[p][v]]]
          /\ UNCHANGED <<freelist, freePages, kpage, kernel>>
      BY <1>2, <1>15 DEF Exit, memory
    <2>2. \A v \in SwappedOut(p) : FrameOf(pgdir[p][v]) = NoFrame
      BY DEF SwappedOut, FrameOf
    <2>3. \A r \in Procs : \A w \in Pages : FrameOf(pgdir'[r][w]) = FrameOf(pgdir[r][w])
      BY <1>2, <2>1, <2>2, FrameOfFacts
    <2> QED
      BY <2>1, <2>3, FramesSame
  <1>16. CASE \E v \in Pages : \E x \in Values : Touch(p, v, x)
    <2>1. PICK v \in Pages, x \in Values : Touch(p, v, x)
      BY <1>16
    <2>2. /\ pgdir' = [pgdir EXCEPT ![p][v].used = TRUE]
          /\ UNCHANGED <<freelist, freePages, kpage, kernel>>
      BY <2>1 DEF Touch
    <2>3. pgdir[p][v] \in Entries /\ pgdir[p][v].at = "ram"
      BY <1>2, <2>1 DEF Touch, Resident, Tables
    <2> DEFINE e == [pgdir[p][v] EXCEPT !.used = TRUE]
    <2>4. e.at = pgdir[p][v].at /\ e.n = pgdir[p][v].n
      BY <2>3, MarkedFacts
    <2>5. \A r \in Procs : \A w \in Pages :
            pgdir'[r][w] = IF r = p /\ w = v THEN e ELSE pgdir[r][w]
      BY <1>2, <2>2 DEF Tables
    <2> HIDE DEF e
    <2>6. \A r \in Procs : \A w \in Pages : FrameOf(pgdir'[r][w]) = FrameOf(pgdir[r][w])
      BY <2>4, <2>5 DEF FrameOf
    <2> QED
      BY <2>2, <2>6, FramesSame
  <1> QED
    BY <1>6, <1>7, <1>8, <1>9, <1>11, <1>12, <1>13, <1>14, <1>15, <1>16

\* The kernel record of p alone changes, and kalloc() has nothing in hand.
LEMMA OneCall ==
  ASSUME kernel \in [Procs -> KernelTypes], NEW p \in Procs,
         NEW k2, Enter(p, k2), k2.frame = NoFrame
  PROVE  \A q \in Procs :
           /\ kernel'[q].table = IF q = p THEN k2.table ELSE kernel[q].table
           /\ kernel'[q].kpage = IF q = p THEN k2.kpage ELSE kernel[q].kpage
           /\ kernel'[q].frame = IF q = p THEN NoFrame ELSE kernel[q].frame
  BY DEF Enter

\* The frame of a page that sbrk() or a page fault has allocated is mapped.
LEMMA PageKeepsFrames ==
  ASSUME ShapeInv, ShapeInv', FrameInv, NEW p \in Procs, SbrkPage(p) \/ SwapIn(p)
  PROVE  FrameInv'
  <1> DEFINE k == kernel[p]
             w == k.page
  <1>1. /\ kernel \in [Procs -> KernelTypes] /\ pgdir \in [Procs -> Tables]
        /\ k \in KernelTypes /\ KernelShape(k) /\ CallShape(p)
    BY DEF ShapeInv, KernelInv, TableInv
  <1>2. k.call \in {"sbrk", "fault"}
    BY <1>1 DEF SbrkPage, SwapIn, At, KernelShape
  <1>3. w \in Pages /\ pgdir[p][w].at # "ram"
    <2>1. sz[p] \in 0 .. MaxPages /\ MaxPages \in Nat
      BY SwapAssumption DEF ShapeInv, TableInv
    <2>2. CASE k.call = "sbrk"
      <3>1. w \in sz[p] .. k.goal - 1 /\ k.goal <= MaxPages /\ k.goal \in Int
        BY <1>1, <2>2 DEF CallShape, KernelTypes
      <3>2. w \in Pages
        BY <2>1, <3>1 DEF Pages
      <3>3. Extent(p) = w /\ w >= w
        BY <2>2, <3>1, <2>1 DEF Extent
      <3> QED
        BY <3>2, <3>3 DEF ShapeInv, TableInv
    <2>3. CASE k.call = "fault"
      BY <1>1, <2>1, <2>3 DEF CallShape, Pages
    <2> QED
      BY <1>2, <2>2, <2>3
  <1>4. k.table = NoPages /\ k.kpage = NoFrame
    BY <1>1, <1>2 DEF CallShape
  <1>5. /\ Idle.table = NoPages /\ Idle.kpage = NoFrame /\ Idle.frame = NoFrame
    BY DEF Idle
  <1>6. UNCHANGED <<freelist, freePages>> /\ kpage' = kpage
    BY DEF SbrkPage, SwapIn, memory
  <1>14. pgdir' = [pgdir EXCEPT ![p][w] = InRam(k.frame, FALSE)]
    BY DEF SbrkPage, SwapIn
  <1>7. PICK k2 : /\ Enter(p, k2) /\ k2.table = k.table /\ k2.kpage = k.kpage
                  /\ k2.frame = NoFrame
    <2>1. CASE Return(p)
      BY <1>4, <1>5, <2>1 DEF Return
    <2>2. CASE SbrkPage(p) /\ Enter(p, NextPage(k))
      BY <1>1, <2>2, NextPageFacts DEF SbrkPage, At, Calls
    <2> QED
      BY <2>1, <2>2 DEF SbrkPage, SwapIn
  <1>8. HoldingShape
    BY HoldingFacts
  <1>9. Holding[<<"page", p, w>>] = NoFrame
    BY <1>3, <1>8 DEF HoldingShape, FrameOf
  <1>10. \A q \in Procs : \A v \in Pages :
           pgdir'[q][v] = IF q = p /\ v = w THEN InRam(k.frame, FALSE) ELSE pgdir[q][v]
    BY <1>1, <1>3, <1>14 DEF Tables
  <1> HIDE DEF w
  <1>11. \A q \in Procs :
           /\ kernel'[q].table = kernel[q].table /\ kernel'[q].kpage = kernel[q].kpage
           /\ kernel'[q].frame = IF q = p THEN NoFrame ELSE kernel[q].frame
    BY <1>1, <1>7, OneCall
  <1>12. \A q \in Procs : \A v \in Pages :
           FrameOf(pgdir'[q][v]) =
             IF q = p /\ v = w THEN k.frame ELSE FrameOf(pgdir[q][v])
    <2> SUFFICES ASSUME NEW q \in Procs, NEW v \in Pages
                 PROVE  FrameOf(pgdir'[q][v]) =
                          IF q = p /\ v = w THEN k.frame ELSE FrameOf(pgdir[q][v])
      OBVIOUS
    <2>1. CASE q = p /\ v = w
      <3>1. pgdir'[q][v] = InRam(k.frame, FALSE)
        BY <1>10, <2>1
      <3> QED
        BY <2>1, <3>1, FrameOfFacts
    <2>2. CASE ~ (q = p /\ v = w)
      BY <1>10, <2>2
    <2> QED
      BY <2>1, <2>2
  <1>13. \A q \in Procs : \A v \in Pages :
           FrameOf(kernel'[q].table[v]) = FrameOf(kernel[q].table[v])
    BY <1>11
  <1> QED
    BY <1>3, <1>6, <1>9, <1>11, <1>12, <1>13, HandedOn

\* exec() and fork() take their kernel page first, and then a page at a time.
LEMMA BuildKeepsFrames ==
  ASSUME ShapeInv, ShapeInv', FrameInv, NEW p \in Procs,
         \/ ExecPage(p) \/ ForkKernelPage(p)
         \/ CopyPage(p) /\ kernel[p].page + 1 < sz[p]
  PROVE  FrameInv'
  <1> DEFINE k == kernel[p]
             w == k.page
  <1>1. /\ kernel \in [Procs -> KernelTypes] /\ pgdir \in [Procs -> Tables]
        /\ k \in KernelTypes /\ KernelShape(k) /\ CallShape(p)
    BY DEF ShapeInv, KernelInv, TableInv
  <1>2. k.pc = "got" /\ k.call \in {"exec", "fork"}
    BY DEF ExecPage, ForkKernelPage, CopyPage, At
  <1>3. /\ UNCHANGED <<freelist, freePages>> /\ kpage' = kpage /\ pgdir' = pgdir
    BY DEF ExecPage, ForkKernelPage, CopyPage, memory
  <1>4. HoldingShape
    BY HoldingFacts
  <1>5. /\ NextPage(k) \in KernelTypes /\ NextPage(k).table = k.table
        /\ NextPage(k).kpage = k.kpage /\ NextPage(k).frame = NoFrame
    BY <1>1, <1>2, NextPageFacts DEF Calls
  <1>6. BuiltTo(k.table, w) /\ (k.kpage = NoFrame <=> w = -1) /\ k.table \in Tables
    BY <1>1, <1>2 DEF CallShape, KernelTypes
  <1>7. CASE w = -1
    <2>1. PICK k2 : /\ Enter(p, k2) /\ k2.table = k.table /\ k2.kpage = k.frame
                    /\ k2.frame = NoFrame
      <3>1. CASE ExecPage(p)
        <4> DEFINE k2 == [NextPage(k) EXCEPT !.kpage = k.frame]
        <4>1. k2.table = k.table /\ k2.kpage = k.frame /\ k2.frame = NoFrame
          BY <1>5 DEF KernelTypes
        <4>2. Enter(p, k2)
          BY <1>7, <3>1 DEF ExecPage
        <4> QED
          BY <4>1, <4>2
      <3>2. CASE ForkKernelPage(p)
        <4> DEFINE k2 == [NextPage(k) EXCEPT !.kpage = k.frame, !.pc = "copy"]
        <4>1. k2.table = k.table /\ k2.kpage = k.frame /\ k2.frame = NoFrame
          BY <1>5 DEF KernelTypes
        <4>2. Enter(p, k2)
          BY <3>2 DEF ForkKernelPage
        <4> QED
          BY <4>1, <4>2
      <3>3. CASE CopyPage(p)
        <4>1. w >= 0
          BY <3>3 DEF CopyPage
        <4> QED
          BY <1>7, <4>1
      <3> QED
        BY <3>1, <3>2, <3>3
    <2>2. Holding[<<"newKpage", p, 0>>] = NoFrame
      BY <1>4, <1>6, <1>7, Numbers DEF HoldingShape
    <2>3. \A q \in Procs :
            /\ kernel'[q].table = kernel[q].table
            /\ kernel'[q].kpage = IF q = p THEN k.frame ELSE kernel[q].kpage
            /\ kernel'[q].frame = IF q = p THEN NoFrame ELSE kernel[q].frame
      BY <1>1, <2>1, OneCall
    <2>4. 0 \in Pages
      BY Numbers
    <2>5. \A q \in Procs : \A v \in Pages :
            /\ FrameOf(pgdir'[q][v]) = FrameOf(pgdir[q][v])
            /\ FrameOf(kernel'[q].table[v]) = FrameOf(kernel[q].table[v])
      BY <1>3, <2>3
    <2> HIDE DEF w
    <2> QED
      BY <1>3, <2>2, <2>3, <2>4, <2>5, HandedOn
  <1>8. CASE w # -1
    <2>1. w \in Pages
      <3>1. sz[p] \in 0 .. MaxPages /\ MaxPages \in Nat /\ ProgramPages \in 1 .. MaxPages
        BY SwapAssumption DEF ShapeInv, TableInv
      <3>2. w \in -1 .. ProgramPages - 1 \/ w \in -1 .. sz[p] - 1
        BY <1>1, <1>2 DEF CallShape
      <3> QED
        BY <1>8, <3>1, <3>2 DEF Pages
    <2>7. PICK u \in BOOLEAN : \E k2 :
            /\ Enter(p, k2) /\ k2.kpage = k.kpage /\ k2.frame = NoFrame
            /\ k2.table = [k.table EXCEPT ![w] = InRam(k.frame, u)]
      <3>1. CASE ExecPage(p)
        <4> DEFINE k2 == [NextPage(k) EXCEPT !.table =
                            [NextPage(k).table EXCEPT ![w] = InRam(k.frame, FALSE)]]
        <4>1. Enter(p, k2)
          BY <1>8, <3>1 DEF ExecPage
        <4>2. /\ k2.kpage = k.kpage /\ k2.frame = NoFrame
              /\ k2.table = [k.table EXCEPT ![w] = InRam(k.frame, FALSE)]
          BY <1>5 DEF KernelTypes
        <4> HIDE DEF k2
        <4> QED
          BY <4>1, <4>2
      <3>2. CASE CopyPage(p) /\ w + 1 < sz[p]
        <4> DEFINE table == [k.table EXCEPT ![w] = InRam(k.frame, k.source.used)]
                   k2 == [NextPage(k) EXCEPT !.pc = "copy", !.table = table]
        <4>1. Enter(p, k2)
          BY <3>2 DEF CopyPage
        <4>2. k2.kpage = k.kpage /\ k2.frame = NoFrame /\ k2.table = table
          BY <1>5 DEF KernelTypes
        <4>3. k.source.used \in BOOLEAN
          <5>1. k.source \in Entries /\ k.source.at = "ram"
            BY <1>1, <1>2, <3>2 DEF CallShape, KernelTypes, CopyPage
          <5> QED
            BY <5>1, EntryFacts
        <4> HIDE DEF k2
        <4> QED
          BY <4>1, <4>2, <4>3
      <3>3. CASE ForkKernelPage(p)
        BY <1>8, <3>3 DEF ForkKernelPage
      <3> QED
        BY <3>1, <3>2, <3>3
    <2>2. PICK k2 :
            /\ Enter(p, k2) /\ k2.kpage = k.kpage /\ k2.frame = NoFrame
            /\ k2.table = [k.table EXCEPT ![w] = InRam(k.frame, u)]
      BY <2>7
    <2>3. Holding[<<"table", p, w>>] = NoFrame
      <3>1. w \in Nat
        BY <2>1, Numbers
      <3>2. k.table[w] = Unmapped
        BY <1>6, <2>1, <3>1 DEF BuiltTo
      <3> QED
        BY <1>4, <2>1, <3>2, FrameOfFacts DEF HoldingShape
    <2>4. \A q \in Procs :
            /\ kernel'[q].table = IF q = p THEN k2.table ELSE kernel[q].table
            /\ kernel'[q].kpage = kernel[q].kpage
            /\ kernel'[q].frame = IF q = p THEN NoFrame ELSE kernel[q].frame
      BY <1>1, <2>2, OneCall
    <2>5. \A v \in Pages :
            k2.table[v] = IF v = w THEN InRam(k.frame, u) ELSE k.table[v]
      BY <1>6, <2>1, <2>2 DEF Tables
    <2>6. \A q \in Procs : \A v \in Pages :
            FrameOf(kernel'[q].table[v]) =
              IF q = p /\ v = w THEN k.frame ELSE FrameOf(kernel[q].table[v])
      BY <2>4, <2>5, FrameOfFacts
    <2> QED
      BY <1>3, <2>1, <2>3, <2>4, <2>6, HandedOn
  <1> QED
    BY <1>7, <1>8

\* The pages W of process r are unmapped, and its kernel page when 0 is in K.
Unmaps(r, W, K) ==
  \A q \in Procs :
    /\ \A v \in Pages :
         FrameOf(pgdir'[q][v]) =
           IF q = r /\ v \in W THEN NoFrame ELSE FrameOf(pgdir[q][v])
    /\ kpage'[q] = IF q = r /\ 0 \in K THEN NoFrame ELSE kpage[q]
    /\ kernel'[q].table = kernel[q].table
    /\ kernel'[q].kpage = kernel[q].kpage
    /\ kernel'[q].frame = kernel[q].frame

FramesIn(r, W, K) ==
  {f \in Frames : (\E v \in W : FrameOf(pgdir[r][v]) = f) \/ (0 \in K /\ kpage[r] = f)}

PlacesIn(r, W, K) ==
  {<<"page", r, v>> : v \in W} \cup {<<"kpage", r, v>> : v \in K}

\* The frames that are given back are those of these places.
LEMMA PlacesInFacts ==
  ASSUME ShapeInv, NEW r \in Procs, NEW W \in SUBSET Pages, NEW K \in SUBSET {0}
  PROVE  /\ PlacesIn(r, W, K) \in SUBSET Places
         /\ FramesIn(r, W, K) = {Holding[x] : x \in PlacesIn(r, W, K)} \ {NoFrame}
         /\ \A q \in Procs : \A v \in Pages :
              /\ <<"page", q, v>> \in PlacesIn(r, W, K) <=> q = r /\ v \in W
              /\ <<"kpage", q, v>> \in PlacesIn(r, W, K) <=> q = r /\ v = 0 /\ 0 \in K
              /\ <<"table", q, v>> \notin PlacesIn(r, W, K)
              /\ <<"newKpage", q, v>> \notin PlacesIn(r, W, K)
              /\ <<"frame", q, v>> \notin PlacesIn(r, W, K)
  <1> DEFINE gone == {<<"page", r, v>> : v \in W} \cup {<<"kpage", r, v>> : v \in K}
             frames == FramesIn(r, W, K)
  <1>1. gone \in SUBSET Places
    <2>1. /\ \A v \in W : <<"page", r, v>> \in Places
          /\ \A v \in K : <<"kpage", r, v>> \in Places
      BY PlaceFacts, Numbers
    <2> QED
      BY <2>1
  <1>2. frames = {Holding[x] : x \in gone} \ {NoFrame}
    <2>1. /\ \A v \in W : Holding[<<"page", r, v>>] = FrameOf(pgdir[r][v])
          /\ Holding[<<"kpage", r, 0>>] = kpage[r]
      <3>1. ASSUME NEW v \in W PROVE Holding[<<"page", r, v>>] = FrameOf(pgdir[r][v])
        BY HoldingAt
      <3>2. Holding[<<"kpage", r, 0>>] = kpage[r]
        BY HoldingAt, Numbers
      <3> QED
        BY <3>1, <3>2
    <2>2. ASSUME NEW f \in frames PROVE f \in {Holding[x] : x \in gone} \ {NoFrame}
      <3>1. /\ f # NoFrame
            /\ (\E v \in W : FrameOf(pgdir[r][v]) = f) \/ (0 \in K /\ kpage[r] = f)
        BY Numbers DEF FramesIn
      <3>2. CASE \E v \in W : FrameOf(pgdir[r][v]) = f
        <4>1. PICK v \in W : FrameOf(pgdir[r][v]) = f
          BY <3>2
        <4> DEFINE x == <<"page", r, v>>
        <4>2. x \in gone /\ Holding[x] = f
          BY <2>1, <4>1
        <4> HIDE DEF x, gone
        <4> QED
          BY <3>1, <4>2
      <3>3. CASE 0 \in K /\ kpage[r] = f
        <4> DEFINE x == <<"kpage", r, 0>>
        <4>2. x \in gone /\ Holding[x] = f
          BY <2>1, <3>3
        <4> HIDE DEF x, gone
        <4> QED
          BY <3>1, <4>2
      <3> QED
        BY <3>1, <3>2, <3>3
    <2>3. ASSUME NEW x \in gone, Holding[x] # NoFrame PROVE Holding[x] \in frames
      <3>1. Holding[x] \in Frames
        <4>1. x \in Places
          BY <1>1
        <4> HIDE DEF gone
        <4>2. Holding \in [Places -> Frames \cup {NoFrame}]
          BY HoldingFacts DEF HoldingShape
        <4> QED
          BY <2>3, <4>1, <4>2
      <3>2. CASE \E v \in W : x = <<"page", r, v>>
        BY <2>1, <3>1, <3>2 DEF FramesIn
      <3>3. CASE 0 \in K /\ x = <<"kpage", r, 0>>
        BY <2>1, <3>1, <3>3 DEF FramesIn
      <3> QED
        BY <3>2, <3>3
    <2> HIDE DEF gone
    <2> QED
      BY <2>2, <2>3
  <1>3. ASSUME NEW q \in Procs, NEW v \in Pages
        PROVE  /\ <<"page", q, v>> \in gone <=> q = r /\ v \in W
               /\ <<"kpage", q, v>> \in gone <=> q = r /\ v = 0 /\ 0 \in K
               /\ <<"table", q, v>> \notin gone
               /\ <<"newKpage", q, v>> \notin gone
               /\ <<"frame", q, v>> \notin gone
    <2>1. <<"page", q, v>> \in gone <=> q = r /\ v \in W
      OBVIOUS
    <2>2. <<"kpage", q, v>> \in gone <=> q = r /\ v = 0 /\ 0 \in K
      OBVIOUS
    <2>3. /\ <<"frame", q, v>> \notin gone /\ <<"table", q, v>> \notin gone
          /\ <<"newKpage", q, v>> \notin gone
      OBVIOUS
    <2> QED
      BY <2>1, <2>2, <2>3
  <1>4. PlacesIn(r, W, K) = gone
    BY DEF PlacesIn
  <1> HIDE DEF gone
  <1> QED
    BY <1>1, <1>2, <1>3, <1>4

FramesAt(places) == {Holding[x] : x \in places} \ {NoFrame}

\* The second of these facts by itself.
LEMMA FramesInPlaces ==
  ASSUME ShapeInv, NEW r \in Procs, NEW W \in SUBSET Pages, NEW K \in SUBSET {0}
  PROVE  FramesIn(r, W, K) = FramesAt(PlacesIn(r, W, K))
  BY PlacesInFacts DEF FramesAt

\* Some pages of a process, and perhaps its kernel page, are given back.
LEMMA PagesFreed ==
  ASSUME ShapeInv, ShapeInv', FrameInv, NEW r \in Procs, NEW W \in SUBSET Pages,
         NEW K \in SUBSET {0}, Unmaps(r, W, K),
         freelist' = freelist \cup FramesIn(r, W, K),
         freePages' = Counted(Cardinality(FramesIn(r, W, K)))
  PROVE  FrameInv'
  <1> DEFINE frames == FramesIn(r, W, K)
             gone == PlacesIn(r, W, K)
  <1>1. HoldingShape /\ HoldingShape'
    BY HoldingFacts, HoldingFactsNext
  <1>2. ASSUME NEW q \in Procs, NEW v \in Pages
        PROVE  /\ Holding'[<<"page", q, v>>] =
                    IF q = r /\ v \in W THEN NoFrame ELSE Holding[<<"page", q, v>>]
               /\ Holding'[<<"kpage", q, v>>] =
                    IF q = r /\ v = 0 /\ 0 \in K THEN NoFrame
                    ELSE Holding[<<"kpage", q, v>>]
               /\ Holding'[<<"table", q, v>>] = Holding[<<"table", q, v>>]
               /\ Holding'[<<"newKpage", q, v>>] = Holding[<<"newKpage", q, v>>]
               /\ Holding'[<<"frame", q, v>>] = Holding[<<"frame", q, v>>]
    <2>1. /\ FrameOf(pgdir'[q][v]) =
               IF q = r /\ v \in W THEN NoFrame ELSE FrameOf(pgdir[q][v])
          /\ FrameOf(kernel'[q].table[v]) = FrameOf(kernel[q].table[v])
      BY DEF Unmaps
    <2>2. /\ kpage'[q] = IF q = r /\ 0 \in K THEN NoFrame ELSE kpage[q]
          /\ kernel'[q].kpage = kernel[q].kpage
          /\ kernel'[q].frame = kernel[q].frame
      BY DEF Unmaps
    <2>3. /\ Holding[<<"page", q, v>>] = FrameOf(pgdir[q][v])
          /\ Holding'[<<"page", q, v>>] = FrameOf(pgdir'[q][v])
      BY HoldingAt, HoldingAtNext, Zenon
    <2>4. /\ Holding[<<"table", q, v>>] = FrameOf(kernel[q].table[v])
          /\ Holding'[<<"table", q, v>>] = FrameOf(kernel'[q].table[v])
      BY HoldingAt, HoldingAtNext, Zenon
    <2>5. /\ Holding[<<"kpage", q, v>>] = IF v = 0 THEN kpage[q] ELSE NoFrame
          /\ Holding'[<<"kpage", q, v>>] = IF v = 0 THEN kpage'[q] ELSE NoFrame
      BY HoldingAt, HoldingAtNext, Zenon
    <2>6. /\ Holding[<<"newKpage", q, v>>] = IF v = 0 THEN kernel[q].kpage ELSE NoFrame
          /\ Holding'[<<"newKpage", q, v>>] = IF v = 0 THEN kernel'[q].kpage ELSE NoFrame
      BY HoldingAt, HoldingAtNext, Zenon
    <2>7. /\ Holding[<<"frame", q, v>>] = IF v = 0 THEN kernel[q].frame ELSE NoFrame
          /\ Holding'[<<"frame", q, v>>] = IF v = 0 THEN kernel'[q].frame ELSE NoFrame
      BY HoldingAt, HoldingAtNext, Zenon
    <2> QED
      BY <2>1, <2>2, <2>3, <2>4, <2>5, <2>6, <2>7
  <1> DEFINE S == {x \in Places : Holding'[x] = IF x \in gone THEN NoFrame ELSE Holding[x]}
  <1>3. gone \in SUBSET Places /\ frames = {Holding[x] : x \in gone} \ {NoFrame}
    BY PlacesInFacts
  <1>4. ASSUME NEW q \in Procs, NEW v \in Pages
        PROVE  /\ <<"page", q, v>> \in S /\ <<"table", q, v>> \in S
               /\ <<"kpage", q, v>> \in S /\ <<"newKpage", q, v>> \in S
               /\ <<"frame", q, v>> \in S
    <2>1. /\ <<"page", q, v>> \in gone <=> q = r /\ v \in W
          /\ <<"kpage", q, v>> \in gone <=> q = r /\ v = 0 /\ 0 \in K
          /\ <<"table", q, v>> \notin gone
          /\ <<"newKpage", q, v>> \notin gone
          /\ <<"frame", q, v>> \notin gone
      BY PlacesInFacts
    <2> HIDE DEF gone
    <2> QED
      BY <1>2, <2>1, PlaceFacts
  <1>5. Places \subseteq S
    <2> HIDE DEF S
    <2> QED
      BY <1>4, EveryPlace
  <1>6. /\ \A x \in Places : Holding'[x] = IF x \in gone THEN NoFrame ELSE Holding[x]
        /\ Holding' \in [Places -> Frames \cup {NoFrame}] /\ Shared(Holding, freelist)
    BY <1>1, <1>5 DEF HoldingShape, FrameInv
  <1> HIDE DEF gone, S, frames
  <1>8. Shared(Holding', freelist \cup frames)
    BY <1>3, <1>6, Freed
  <1> QED
    BY <1>3, <1>8, GivenBack DEF frames

\* swap_write() has returned: the frame of the page it has written is free.
LEMMA SwapOutDoneKeepsFrames ==
  ASSUME ShapeInv, ShapeInv', FrameInv, NEW p \in Procs, SwapOutDone(p)
  PROVE  FrameInv'
  <1> DEFINE k == kernel[p]
             q == k.victim
             v == k.vpage
             f == pgdir[q][v].n
  <1>1. kernel \in [Procs -> KernelTypes] /\ k \in KernelTypes /\ pgdir \in [Procs -> Tables]
    BY DEF ShapeInv, KernelInv
  <1>2. /\ q \in Procs /\ v \in Pages /\ k.after \in {"got", "again"}
        /\ pgdir[q][v].at = "ram" /\ pgdir[q][v] \in Entries
    <2>1. k.pc = "writing" /\ KernelShape(k) /\ CallShape(p)
      BY DEF SwapOutDone, At, ShapeInv, KernelInv, TableInv
    <2> QED
      BY <1>1, <2>1 DEF KernelShape, CallShape, WritingShape, Tables
  <1>3. /\ pgdir' = [pgdir EXCEPT ![q][v] = InSwap(k.slot)] /\ kpage' = kpage
        /\ freelist' = freelist \cup {f} /\ freePages' = Counted(1)
    BY DEF SwapOutDone
  <1>4. \A r \in Procs : /\ kernel'[r].table = kernel[r].table
                         /\ kernel'[r].kpage = kernel[r].kpage
                         /\ kernel'[r].frame = kernel[r].frame
    BY <1>1, <1>2 DEF SwapOutDone, KernelTypes
  <1>5. f \in Frames /\ FrameOf(pgdir[q][v]) = f
    BY <1>2, EntryFacts DEF FrameOf
  <1> HIDE DEF q, v, f
  <1>6. {f} = FramesIn(q, {v}, {})
    BY <1>5 DEF FramesIn
  <1>7. \A r \in Procs : \A w \in Pages :
          FrameOf(pgdir'[r][w]) = IF r = q /\ w = v THEN NoFrame ELSE FrameOf(pgdir[r][w])
    BY <1>1, <1>2, <1>3, FrameOfFacts DEF Tables
  <1>8. Unmaps(q, {v}, {})
    BY <1>3, <1>4, <1>7 DEF Unmaps
  <1>9. Cardinality({f}) = 1
    BY FS_Singleton
  <1> QED
    BY <1>2, <1>3, <1>6, <1>8, <1>9, PagesFreed

\* sbrk() of a negative size and wait() give frames back.
LEMMA ReleaseKeepsFrames ==
  ASSUME ShapeInv, ShapeInv', FrameInv, NEW p \in Procs,
         (\E n \in 1 .. MaxPages : Shrink(p, n)) \/ Wait(p)
  PROVE  FrameInv'
  <1>1. /\ kernel \in [Procs -> KernelTypes] /\ pgdir \in [Procs -> Tables]
        /\ kpage \in [Procs -> Frames \cup {NoFrame}]
    BY DEF ShapeInv, KernelInv, TableInv
  <1>2. CASE \E n \in 1 .. MaxPages : Shrink(p, n)
    <2>1. PICK n \in 1 .. MaxPages : Shrink(p, n)
      BY <1>2
    <2> DEFINE W == {v \in Resident(pgdir[p]) : v >= n}
               frames == {pgdir[p][v].n : v \in W}
    <2>2. /\ pgdir' = [pgdir EXCEPT ![p] = [v \in Pages |-> IF v \in W THEN Unmapped
                                                            ELSE pgdir[p][v]]]
          /\ freelist' = freelist \cup frames
          /\ freePages' = Counted(Cardinality(frames))
          /\ UNCHANGED <<kpage, kernel>>
      BY <1>1, <2>1 DEF Shrink
    <2>3. /\ W \subseteq Pages
          /\ \A v \in W : FrameOf(pgdir[p][v]) = pgdir[p][v].n /\ pgdir[p][v].n \in Frames
      BY <1>1, FramesOfFacts DEF Resident, FrameOf
    <2>4. frames = FramesIn(p, W, {})
      <3> HIDE DEF W
      <3> QED
        BY <2>3 DEF FramesIn
    <2> HIDE DEF W, frames
    <2>5. \A q \in Procs : \A v \in Pages :
            FrameOf(pgdir'[q][v]) =
              IF q = p /\ v \in W THEN NoFrame ELSE FrameOf(pgdir[q][v])
      BY <1>1, <2>2, FrameOfFacts
    <2>6. Unmaps(p, W, {})
      BY <2>2, <2>5 DEF Unmaps
    <2> QED
      BY <2>2, <2>3, <2>4, <2>6, PagesFreed
  <1>3. CASE Wait(p)
    <2> DEFINE c == kernel[p].child
               frames == FramesOf(pgdir[c]) \cup {kpage[c]}
    <2>1. /\ At(p, "wait") /\ state[c] = "ZOMBIE"
          /\ pgdir' = [pgdir EXCEPT ![c] = NoPages]
          /\ kpage' = [kpage EXCEPT ![c] = NoFrame]
          /\ kernel' = [kernel EXCEPT ![p] = Idle]
          /\ freelist' = freelist \cup frames
          /\ freePages' = Counted(Cardinality(frames))
      BY <1>3 DEF Wait, Return, Enter
    <2>2. /\ c \in Procs
          /\ \A q \in Procs : /\ kernel[q].table = NoPages
                              /\ kernel[q].kpage = NoFrame /\ kernel[q].frame = NoFrame
      BY <2>1, Reaping DEF ShapeInv
    <2>3. /\ Idle.table = NoPages /\ Idle.kpage = NoFrame /\ Idle.frame = NoFrame
      BY DEF Idle
    <2>4. \A q \in Procs : /\ kernel'[q].table = kernel[q].table
                           /\ kernel'[q].kpage = kernel[q].kpage
                           /\ kernel'[q].frame = kernel[q].frame
      BY <1>1, <2>1, <2>2, <2>3
    <2> HIDE DEF c
    <2>5. kpage[c] \in Frames
      BY <2>1, <2>2 DEF ShapeInv, TableInv, InUse
    <2>6. FramesOf(pgdir[c]) = {f \in Frames : \E v \in Pages : FrameOf(pgdir[c][v]) = f}
      <3>1. \A v \in Resident(pgdir[c]) :
              /\ v \in Pages /\ pgdir[c][v].n \in Frames
              /\ FrameOf(pgdir[c][v]) = pgdir[c][v].n
        BY <1>1, <2>2, FramesOfFacts DEF Resident, FrameOf
      <3>2. \A v \in Pages : FrameOf(pgdir[c][v]) \in Frames => v \in Resident(pgdir[c])
        BY Numbers DEF Resident, FrameOf
      <3> QED
        BY <3>1, <3>2 DEF FramesOf
    <2>7. frames = FramesIn(c, Pages, {0})
      BY <2>5, <2>6 DEF FramesIn
    <2> HIDE DEF frames
    <2>8. \A q \in Procs : \A v \in Pages :
            FrameOf(pgdir'[q][v]) = IF q = c THEN NoFrame ELSE FrameOf(pgdir[q][v])
      BY <1>1, <2>1, <2>2, FrameOfFacts DEF NoPages
    <2>9. \A q \in Procs : kpage'[q] = IF q = c THEN NoFrame ELSE kpage[q]
      BY <1>1, <2>1
    <2>10. Unmaps(c, Pages, {0})
      BY <2>4, <2>8, <2>9 DEF Unmaps
    <2> QED
      BY <2>1, <2>2, <2>7, <2>10, PagesFreed
  <1> QED
    BY <1>2, <1>3

\* What process p has built becomes the image of c, its page w coming from
\* kalloc() itself.
Installs(p, c, w) ==
  \A q \in Procs :
    /\ \A v \in Pages :
         /\ FrameOf(pgdir'[q][v]) =
              IF q = c THEN IF v = w THEN kernel[p].frame
                            ELSE FrameOf(kernel[p].table[v])
              ELSE FrameOf(pgdir[q][v])
         /\ FrameOf(kernel'[q].table[v]) =
              IF q = p THEN NoFrame ELSE FrameOf(kernel[q].table[v])
    /\ kpage'[q] = IF q = c THEN kernel[p].kpage ELSE kpage[q]
    /\ kernel'[q].kpage = IF q = p THEN NoFrame ELSE kernel[q].kpage
    /\ kernel'[q].frame = IF q = p THEN NoFrame ELSE kernel[q].frame

\* The frames of a new image change places, and those of the old one are free.
LEMMA ImageInstalled ==
  ASSUME ShapeInv, ShapeInv', FrameInv, NEW p \in Procs, NEW c \in Procs,
         NEW w \in Pages, FrameOf(kernel[p].table[w]) = NoFrame, Installs(p, c, w)
  PROVE  Shared(Holding', freelist \cup FramesIn(c, Pages, {0}))
  <1> DEFINE gone == PlacesIn(c, Pages, {0})
             H == Holding
             G == Holding'
  <1>1. /\ gone \in SUBSET Places
        /\ FramesIn(c, Pages, {0}) = {H[x] : x \in gone} \ {NoFrame}
        /\ H \in [Places -> Frames \cup {NoFrame}]
        /\ G \in [Places -> Frames \cup {NoFrame}]
        /\ Shared(H, freelist)
    <2>1. ASSUME NEW W, NEW K, W = Pages, K = {0}
          PROVE  /\ PlacesIn(c, W, K) \in SUBSET Places
                 /\ FramesIn(c, W, K) = {Holding[x] : x \in PlacesIn(c, W, K)} \ {NoFrame}
      <3>1. W \in SUBSET Pages /\ K \in SUBSET {0}
        BY <2>1
      <3>2. PlacesIn(c, W, K) \in SUBSET Places
        BY <3>1, PlacesInFacts, Zenon
      <3>3. FramesIn(c, W, K) = FramesAt(PlacesIn(c, W, K))
        BY <3>1, FramesInPlaces
      <3> QED
        BY <3>2, <3>3 DEF FramesAt
    <2>2. /\ gone \in SUBSET Places
          /\ FramesIn(c, Pages, {0}) = {Holding[x] : x \in gone} \ {NoFrame}
      BY <2>1
    <2>3. HoldingShape /\ HoldingShape'
      BY HoldingFacts, HoldingFactsNext
    <2> QED
      BY <2>2, <2>3 DEF HoldingShape, FrameInv
  <1>2. ASSUME NEW q \in Procs, NEW v \in Pages
        PROVE  /\ H[<<"page", q, v>>] = FrameOf(pgdir[q][v])
               /\ H[<<"table", q, v>>] = FrameOf(kernel[q].table[v])
               /\ H[<<"kpage", q, v>>] = IF v = 0 THEN kpage[q] ELSE NoFrame
               /\ H[<<"newKpage", q, v>>] = IF v = 0 THEN kernel[q].kpage ELSE NoFrame
               /\ H[<<"frame", q, v>>] = IF v = 0 THEN kernel[q].frame ELSE NoFrame
    BY HoldingAt, Zenon
  <1>3. ASSUME NEW q \in Procs, NEW v \in Pages
        PROVE  /\ G[<<"page", q, v>>] = FrameOf(pgdir'[q][v])
               /\ G[<<"table", q, v>>] = FrameOf(kernel'[q].table[v])
               /\ G[<<"kpage", q, v>>] = IF v = 0 THEN kpage'[q] ELSE NoFrame
               /\ G[<<"newKpage", q, v>>] = IF v = 0 THEN kernel'[q].kpage ELSE NoFrame
               /\ G[<<"frame", q, v>>] = IF v = 0 THEN kernel'[q].frame ELSE NoFrame
    BY HoldingAtNext, Zenon
  <1> HIDE DEF H, G
  <1>4. ASSUME NEW q \in Procs, NEW v \in Pages
        PROVE  /\ q = c => G[<<"page", q, v>>] = IF v = w THEN H[<<"frame", p, 0>>]
                                                 ELSE H[<<"table", p, v>>]
               /\ q # c => G[<<"page", q, v>>] = H[<<"page", q, v>>]
               /\ q = p => G[<<"table", q, v>>] = NoFrame
               /\ q # p => G[<<"table", q, v>>] = H[<<"table", q, v>>]
               /\ q = c => G[<<"kpage", q, v>>] = H[<<"newKpage", p, v>>]
               /\ q # c => G[<<"kpage", q, v>>] = H[<<"kpage", q, v>>]
               /\ q = p => G[<<"newKpage", q, v>>] = NoFrame
               /\ q # p => G[<<"newKpage", q, v>>] = H[<<"newKpage", q, v>>]
               /\ q = p => G[<<"frame", q, v>>] = NoFrame
               /\ q # p => G[<<"frame", q, v>>] = H[<<"frame", q, v>>]
    <2>0. /\ H[<<"frame", p, 0>>] = kernel[p].frame
          /\ H[<<"table", p, v>>] = FrameOf(kernel[p].table[v])
          /\ H[<<"newKpage", p, v>>] = IF v = 0 THEN kernel[p].kpage ELSE NoFrame
      BY <1>2, Numbers
    <2>1. /\ q = c => G[<<"page", q, v>>] = IF v = w THEN H[<<"frame", p, 0>>]
                                            ELSE H[<<"table", p, v>>]
          /\ q # c => G[<<"page", q, v>>] = H[<<"page", q, v>>]
      <3>1. /\ G[<<"page", q, v>>] = FrameOf(pgdir'[q][v])
            /\ H[<<"page", q, v>>] = FrameOf(pgdir[q][v])
        BY <1>2, <1>3, Zenon
      <3> QED
        BY <2>0, <3>1 DEF Installs
    <2>2. /\ q = p => G[<<"table", q, v>>] = NoFrame
          /\ q # p => G[<<"table", q, v>>] = H[<<"table", q, v>>]
      <3>1. /\ G[<<"table", q, v>>] = FrameOf(kernel'[q].table[v])
            /\ H[<<"table", q, v>>] = FrameOf(kernel[q].table[v])
        BY <1>2, <1>3, Zenon
      <3> QED
        BY <3>1 DEF Installs
    <2>3. /\ q = c => G[<<"kpage", q, v>>] = H[<<"newKpage", p, v>>]
          /\ q # c => G[<<"kpage", q, v>>] = H[<<"kpage", q, v>>]
      <3>1. /\ G[<<"kpage", q, v>>] = IF v = 0 THEN kpage'[q] ELSE NoFrame
            /\ H[<<"kpage", q, v>>] = IF v = 0 THEN kpage[q] ELSE NoFrame
        BY <1>2, <1>3, Zenon
      <3> QED
        BY <2>0, <3>1 DEF Installs
    <2>4. /\ q = p => G[<<"newKpage", q, v>>] = NoFrame
          /\ q # p => G[<<"newKpage", q, v>>] = H[<<"newKpage", q, v>>]
      <3>1. /\ G[<<"newKpage", q, v>>] = IF v = 0 THEN kernel'[q].kpage ELSE NoFrame
            /\ H[<<"newKpage", q, v>>] = IF v = 0 THEN kernel[q].kpage ELSE NoFrame
        BY <1>2, <1>3, Zenon
      <3> QED
        BY <3>1 DEF Installs
    <2>5. /\ q = p => G[<<"frame", q, v>>] = NoFrame
          /\ q # p => G[<<"frame", q, v>>] = H[<<"frame", q, v>>]
      <3>1. /\ G[<<"frame", q, v>>] = IF v = 0 THEN kernel'[q].frame ELSE NoFrame
            /\ H[<<"frame", q, v>>] = IF v = 0 THEN kernel[q].frame ELSE NoFrame
        BY <1>2, <1>3, Zenon
      <3> QED
        BY <3>1 DEF Installs
    <2> QED
      BY <2>1, <2>2, <2>3, <2>4, <2>5
  <1>5. /\ H[<<"table", p, w>>] = NoFrame
        /\ \A v \in Pages : v # 0 => H[<<"frame", p, v>>] = NoFrame
    BY <1>2
  <1>6. \A q \in Procs : \A v \in Pages :
          /\ <<"page", q, v>> \in gone <=> q = c
          /\ <<"kpage", q, v>> \in gone <=> q = c /\ v = 0
          /\ <<"table", q, v>> \notin gone
          /\ <<"newKpage", q, v>> \notin gone
          /\ <<"frame", q, v>> \notin gone
    <2>1. {0} \in SUBSET {0} /\ Pages \in SUBSET Pages
      OBVIOUS
    <2>2. \A q \in Procs : \A v \in Pages :
            /\ <<"page", q, v>> \in gone <=> q = c /\ v \in Pages
            /\ <<"kpage", q, v>> \in gone <=> q = c /\ v = 0 /\ 0 \in {0}
            /\ <<"table", q, v>> \notin gone
            /\ <<"newKpage", q, v>> \notin gone
            /\ <<"frame", q, v>> \notin gone
      BY <2>1, PlacesInFacts
    <2> QED
      BY <2>2
  <1>7. \A v \in Pages : v # 0 => H[<<"kpage", c, v>>] = NoFrame
    BY <1>2
  <1> DEFINE from == [x \in Places |->
                IF x[1] = "page" /\ x[2] = c
                THEN IF x[3] = w THEN <<"frame", p, 0>> ELSE <<"table", p, x[3]>>
                ELSE IF x[1] = "kpage" /\ x[2] = c THEN <<"newKpage", p, x[3]>> ELSE x]
             back == [x \in Places |->
                IF x[1] = "frame" /\ x[2] = p THEN <<"page", c, w>>
                ELSE IF x[1] = "table" /\ x[2] = p THEN <<"page", c, x[3]>>
                ELSE IF x[1] = "newKpage" /\ x[2] = p THEN <<"kpage", c, x[3]>> ELSE x]
             Good(y) ==
               /\ from[y] \in Places /\ back[y] \in Places
               /\ G[y] # NoFrame =>
                    G[y] = H[from[y]] /\ from[y] \notin gone /\ back[from[y]] = y
               /\ H[y] # NoFrame /\ y \notin gone => G[back[y]] = H[y]
             S == {y \in Places : Good(y)}
  <1>8. 0 \in Pages
    BY Numbers
  <1>9. ASSUME NEW q \in Procs, NEW v \in Pages
        PROVE  /\ from[<<"page", q, v>>] =
                    IF q = c THEN IF v = w THEN <<"frame", p, 0>> ELSE <<"table", p, v>>
                    ELSE <<"page", q, v>>
               /\ from[<<"table", q, v>>] = <<"table", q, v>>
               /\ from[<<"kpage", q, v>>] =
                    IF q = c THEN <<"newKpage", p, v>> ELSE <<"kpage", q, v>>
               /\ from[<<"newKpage", q, v>>] = <<"newKpage", q, v>>
               /\ from[<<"frame", q, v>>] = <<"frame", q, v>>
    BY PlaceFacts
  <1>10. ASSUME NEW q \in Procs, NEW v \in Pages
         PROVE  /\ back[<<"page", q, v>>] = <<"page", q, v>>
                /\ back[<<"table", q, v>>] =
                     IF q = p THEN <<"page", c, v>> ELSE <<"table", q, v>>
                /\ back[<<"kpage", q, v>>] = <<"kpage", q, v>>
                /\ back[<<"newKpage", q, v>>] =
                     IF q = p THEN <<"kpage", c, v>> ELSE <<"newKpage", q, v>>
                /\ back[<<"frame", q, v>>] =
                     IF q = p THEN <<"page", c, w>> ELSE <<"frame", q, v>>
    BY PlaceFacts
  <1> HIDE DEF from, back, gone
  <1>11. ASSUME NEW q \in Procs, NEW v \in Pages PROVE Good(<<"page", q, v>>)
    <2> DEFINE y == <<"page", q, v>>
               z == IF v = w THEN <<"frame", p, 0>> ELSE <<"table", p, v>>
    <2> SUFFICES Good(y)
      OBVIOUS
    <2>1. y \in Places /\ z \in Places
      BY <1>8, PlaceFacts
    <2>2. from[y] = IF q = c THEN z ELSE y
      BY <1>9, Zenon
    <2>3. back[y] = y
      BY <1>10, Zenon
    <2>4. q = c => back[z] = y
      BY <1>8, <1>10
    <2>5. G[y] = IF q = c THEN H[z] ELSE H[y]
      BY <1>4
    <2>6. (y \in gone <=> q = c) /\ z \notin gone
      BY <1>6, <1>8
    <2> HIDE DEF y, z
    <2>7. CASE q = c
      BY <2>1, <2>2, <2>3, <2>4, <2>5, <2>6, <2>7
    <2>8. CASE q # c
      BY <2>1, <2>2, <2>3, <2>4, <2>5, <2>6, <2>8
    <2> QED
      BY <2>7, <2>8
  <1>12. ASSUME NEW q \in Procs, NEW v \in Pages PROVE Good(<<"table", q, v>>)
    <2> DEFINE y == <<"table", q, v>>
               z == <<"page", c, v>>
    <2> SUFFICES Good(y)
      OBVIOUS
    <2>1. y \in Places /\ z \in Places
      BY PlaceFacts
    <2>2. from[y] = y
      BY <1>9, Zenon
    <2>3. back[y] = IF q = p THEN z ELSE y
      BY <1>10, Zenon
    <2>4. q = p /\ H[y] # NoFrame => G[z] = H[y]
      <3>1. v = w /\ q = p => H[y] = NoFrame
        BY <1>5
      <3>2. G[z] = IF v = w THEN H[<<"frame", p, 0>>] ELSE H[<<"table", p, v>>]
        BY <1>4, Zenon
      <3> QED
        BY <3>1, <3>2
    <2>5. G[y] = IF q = p THEN NoFrame ELSE H[y]
      BY <1>4
    <2>6. y \notin gone
      BY <1>6
    <2> HIDE DEF y, z
    <2>7. CASE q = p
      BY <2>1, <2>2, <2>3, <2>4, <2>5, <2>6, <2>7
    <2>8. CASE q # p
      BY <2>1, <2>2, <2>3, <2>4, <2>5, <2>6, <2>8
    <2> QED
      BY <2>7, <2>8
  <1>13. ASSUME NEW q \in Procs, NEW v \in Pages PROVE Good(<<"kpage", q, v>>)
    <2> DEFINE y == <<"kpage", q, v>>
               z == <<"newKpage", p, v>>
    <2> SUFFICES Good(y)
      OBVIOUS
    <2>1. y \in Places /\ z \in Places
      BY PlaceFacts
    <2>2. from[y] = IF q = c THEN z ELSE y
      BY <1>9, Zenon
    <2>3. back[y] = y
      BY <1>10, Zenon
    <2>4. q = c => back[z] = y
      BY <1>10
    <2>5. G[y] = IF q = c THEN H[z] ELSE H[y]
      BY <1>4
    <2>6. (y \in gone <=> q = c /\ v = 0) /\ z \notin gone
      BY <1>6, Zenon
    <2>7. q = c /\ v # 0 => H[y] = NoFrame
      BY <1>7
    <2> HIDE DEF y, z
    <2>8. CASE q = c
      BY <2>1, <2>2, <2>3, <2>4, <2>5, <2>6, <2>7, <2>8
    <2>9. CASE q # c
      BY <2>1, <2>2, <2>3, <2>4, <2>5, <2>6, <2>7, <2>9
    <2> QED
      BY <2>8, <2>9
  <1>14. ASSUME NEW q \in Procs, NEW v \in Pages PROVE Good(<<"newKpage", q, v>>)
    <2> DEFINE y == <<"newKpage", q, v>>
               z == <<"kpage", c, v>>
    <2> SUFFICES Good(y)
      OBVIOUS
    <2>1. y \in Places /\ z \in Places
      BY PlaceFacts
    <2>2. from[y] = y
      BY <1>9, Zenon
    <2>3. back[y] = IF q = p THEN z ELSE y
      BY <1>10, Zenon
    <2>4. q = p => G[z] = H[y]
      BY <1>4
    <2>5. G[y] = IF q = p THEN NoFrame ELSE H[y]
      BY <1>4
    <2>6. y \notin gone
      BY <1>6
    <2> HIDE DEF y, z
    <2>7. CASE q = p
      BY <2>1, <2>2, <2>3, <2>4, <2>5, <2>6, <2>7
    <2>8. CASE q # p
      BY <2>1, <2>2, <2>3, <2>4, <2>5, <2>6, <2>8
    <2> QED
      BY <2>7, <2>8
  <1>15. ASSUME NEW q \in Procs, NEW v \in Pages PROVE Good(<<"frame", q, v>>)
    <2> DEFINE y == <<"frame", q, v>>
               z == <<"page", c, w>>
    <2> SUFFICES Good(y)
      OBVIOUS
    <2>1. y \in Places /\ z \in Places
      BY PlaceFacts
    <2>2. from[y] = y
      BY <1>9, Zenon
    <2>3. back[y] = IF q = p THEN z ELSE y
      BY <1>10, Zenon
    <2>4. q = p /\ H[y] # NoFrame => G[z] = H[y]
      BY <1>4, <1>5
    <2>5. G[y] = IF q = p THEN NoFrame ELSE H[y]
      BY <1>4
    <2>6. y \notin gone
      BY <1>6
    <2> HIDE DEF y, z
    <2>7. CASE q = p
      BY <2>1, <2>2, <2>3, <2>4, <2>5, <2>6, <2>7
    <2>8. CASE q # p
      BY <2>1, <2>2, <2>3, <2>4, <2>5, <2>6, <2>8
    <2> QED
      BY <2>7, <2>8
  <1>16. Places \subseteq S
    <2>1. \A q \in Procs : \A v \in Pages :
            /\ <<"page", q, v>> \in S /\ <<"table", q, v>> \in S
            /\ <<"kpage", q, v>> \in S /\ <<"newKpage", q, v>> \in S
            /\ <<"frame", q, v>> \in S
      <3> HIDE DEF Good
      <3> QED
        BY <1>11, <1>12, <1>13, <1>14, <1>15, PlaceFacts
    <2> HIDE DEF S
    <2> QED
      BY <2>1, EveryPlace
  <1>20. \A y \in Places : from[y] \in Places /\ back[y] \in Places
    BY <1>16
  <1>17. from \in [Places -> Places] /\ back \in [Places -> Places]
    BY <1>20 DEF from, back
  <1>18. /\ \A y \in Places : G[y] # NoFrame =>
              G[y] = H[from[y]] /\ from[y] \notin gone /\ back[from[y]] = y
         /\ \A x \in Places : H[x] # NoFrame /\ x \notin gone => G[back[x]] = H[x]
    BY <1>16
  <1> HIDE DEF S
  <1>19. Shared(G, freelist \cup ({H[x] : x \in gone} \ {NoFrame}))
    BY <1>1, <1>17, <1>18, Rearranged
  <1> QED
    BY <1>1, <1>19 DEF G

\* The last page of exec(): the new image replaces the old one.
LEMMA ExecDoneKeepsFrames ==
  ASSUME ShapeInv, ShapeInv', FrameInv, NEW p \in Procs, ExecDone(p)
  PROVE  FrameInv'
  <1> DEFINE k == kernel[p]
             w == k.page
  <1>1. /\ kernel \in [Procs -> KernelTypes] /\ pgdir \in [Procs -> Tables]
        /\ kpage \in [Procs -> Frames \cup {NoFrame}]
        /\ k \in KernelTypes /\ CallShape(p) /\ k.table \in Tables
    BY DEF ShapeInv, KernelInv, TableInv, KernelTypes
  <1>2. k.call = "exec" /\ w = ProgramPages - 1 /\ state[p] = "RUNNABLE"
    BY DEF ExecDone, At, Runs
  <1>3. w \in Pages /\ w \in Nat
    BY <1>2, SwapAssumption DEF Pages
  <1>4. FrameOf(k.table[w]) = NoFrame
    <2>1. BuiltTo(k.table, w)
      BY <1>1, <1>2 DEF CallShape
    <2>2. k.table[w] = Unmapped
      BY <1>3, <2>1 DEF BuiltTo
    <2> QED
      BY <2>2, FrameOfFacts
  <1>5. /\ pgdir' = [pgdir EXCEPT ![p] = [k.table EXCEPT ![w] = InRam(k.frame, FALSE)]]
        /\ kpage' = [kpage EXCEPT ![p] = k.kpage]
        /\ kernel' = [kernel EXCEPT ![p] = Idle]
        /\ freelist' = freelist \cup OldImage(p)
        /\ freePages' = Counted(Cardinality(OldImage(p)))
    BY DEF ExecDone, Return, Enter
  <1>6. /\ Idle.table = NoPages /\ Idle.kpage = NoFrame /\ Idle.frame = NoFrame
        /\ \A v \in Pages : FrameOf(NoPages[v]) = NoFrame
    BY FrameOfFacts DEF Idle, NoPages
  <1>7. kpage[p] \in Frames
    BY <1>2 DEF ShapeInv, TableInv, InUse
  <1>8. OldImage(p) = FramesIn(p, Pages, {0})
    <2>1. \A v \in Resident(pgdir[p]) :
            /\ v \in Pages /\ pgdir[p][v].n \in Frames
            /\ FrameOf(pgdir[p][v]) = pgdir[p][v].n
      BY <1>1, FramesOfFacts DEF Resident, FrameOf
    <2>2. \A v \in Pages : FrameOf(pgdir[p][v]) \in Frames => v \in Resident(pgdir[p])
      BY Numbers DEF Resident, FrameOf
    <2> QED
      BY <1>7, <2>1, <2>2 DEF OldImage, FramesOf, FramesIn
  <1> HIDE DEF w
  <1>9. ASSUME NEW q \in Procs, NEW v \in Pages
        PROVE  FrameOf(pgdir'[q][v]) =
                 IF q = p THEN IF v = w THEN k.frame ELSE FrameOf(k.table[v])
                 ELSE FrameOf(pgdir[q][v])
    <2>1. CASE q = p /\ v = w
      <3>1. pgdir'[q][v] = InRam(k.frame, FALSE)
        BY <1>1, <1>3, <1>5, <2>1 DEF Tables
      <3> QED
        BY <2>1, <3>1, FrameOfFacts
    <2>2. CASE q = p /\ v # w
      <3>1. pgdir'[q][v] = k.table[v]
        BY <1>1, <1>3, <1>5, <2>2 DEF Tables
      <3> QED
        BY <2>2, <3>1
    <2>3. CASE q # p
      <3>1. pgdir'[q] = pgdir[q]
        BY <1>1, <1>5, <2>3
      <3> QED
        BY <2>3, <3>1
    <2> QED
      BY <2>1, <2>2, <2>3
  <1>10. \A q \in Procs :
           /\ \A v \in Pages : FrameOf(kernel'[q].table[v]) =
                IF q = p THEN NoFrame ELSE FrameOf(kernel[q].table[v])
           /\ kpage'[q] = IF q = p THEN k.kpage ELSE kpage[q]
           /\ kernel'[q].kpage = IF q = p THEN NoFrame ELSE kernel[q].kpage
           /\ kernel'[q].frame = IF q = p THEN NoFrame ELSE kernel[q].frame
    BY <1>1, <1>5, <1>6
  <1>11. Installs(p, p, w)
    BY <1>9, <1>10 DEF Installs
  <1>12. Shared(Holding', freelist \cup FramesIn(p, Pages, {0}))
    BY <1>3, <1>4, <1>11, ImageInstalled
  <1>13. freePages' \in Int /\ freePages' <= Cardinality(freelist')
    <2>1. FramesIn(p, Pages, {0}) \cap freelist = {}
      <3>1. \A v \in Pages : /\ Holding[<<"page", p, v>>] = FrameOf(pgdir[p][v])
                             /\ <<"page", p, v>> \in Places
        BY HoldingAt, PlaceFacts
      <3>2. Holding[<<"kpage", p, 0>>] = kpage[p] /\ <<"kpage", p, 0>> \in Places
        BY HoldingAt, PlaceFacts, Numbers
      <3>3. \A x \in Places : Holding[x] \notin freelist
        BY Numbers DEF FrameInv, Shared
      <3> QED
        BY <3>1, <3>2, <3>3 DEF FramesIn
    <2>2. FramesIn(p, Pages, {0}) \in SUBSET Frames
      BY DEF FramesIn
    <2>3. freelist \subseteq Frames /\ freePages \in Int /\ freePages <= Cardinality(freelist)
      BY DEF FrameInv, Shared
    <2> QED
      BY <1>5, <1>8, <2>1, <2>2, <2>3, CounterFreed
  <1> QED
    BY <1>5, <1>8, <1>12, <1>13 DEF FrameInv

\* The last page of fork(): the child gets what was built for it.
LEMMA CopyDoneKeepsFrames ==
  ASSUME ShapeInv, ShapeInv', FrameInv, NEW p \in Procs, CopyPage(p),
         ~ (kernel[p].page + 1 < sz[p])
  PROVE  FrameInv'
  <1> DEFINE k == kernel[p]
             c == k.child
             w == k.page
             e == InRam(k.frame, k.source.used)
  <1>1. /\ kernel \in [Procs -> KernelTypes] /\ pgdir \in [Procs -> Tables]
        /\ kpage \in [Procs -> Frames \cup {NoFrame}]
        /\ k \in KernelTypes /\ CallShape(p) /\ k.table \in Tables
    BY DEF ShapeInv, KernelInv, TableInv, KernelTypes
  <1>2. k.call = "fork" /\ w >= 0 /\ k.pc = "got"
    BY DEF CopyPage, At
  <1>3. c \in Procs /\ state[c] = "EMBRYO" /\ c # p
    BY <1>2, Numbers DEF ShapeInv, StackInv, CopyPage, At, Runs
  <1>4. w \in Pages /\ w \in Nat
    <2>1. sz[p] \in 0 .. MaxPages /\ MaxPages \in Nat
      BY SwapAssumption DEF ShapeInv, TableInv
    <2> QED
      BY <1>1, <1>2, <2>1 DEF CallShape, Pages
  <1>5. FrameOf(k.table[w]) = NoFrame
    <2>1. BuiltTo(k.table, w)
      BY <1>1, <1>2 DEF CallShape
    <2>2. k.table[w] = Unmapped
      BY <1>4, <2>1 DEF BuiltTo
    <2> QED
      BY <2>2, FrameOfFacts
  <1>6. /\ pgdir' = [pgdir EXCEPT ![c] = [k.table EXCEPT ![w] = e]]
        /\ kpage' = [kpage EXCEPT ![c] = k.kpage]
        /\ kernel' = [kernel EXCEPT ![p] = [Idle EXCEPT !.pc = "wait", !.child = c]]
        /\ UNCHANGED <<freelist, freePages>>
    BY DEF CopyPage, Enter
  <1>7. /\ [Idle EXCEPT !.pc = "wait", !.child = c].table = NoPages
        /\ [Idle EXCEPT !.pc = "wait", !.child = c].kpage = NoFrame
        /\ [Idle EXCEPT !.pc = "wait", !.child = c].frame = NoFrame
        /\ \A v \in Pages : FrameOf(NoPages[v]) = NoFrame
    BY FrameOfFacts DEF Idle, NoPages
  <1>8. pgdir[c] = NoPages /\ kpage[c] = NoFrame
    BY <1>3 DEF ShapeInv, TableInv, InUse
  <1> HIDE DEF w, c
  <1>9. FramesIn(c, Pages, {0}) = {}
    BY <1>7, <1>8, Numbers DEF FramesIn
  <1>10. ASSUME NEW q \in Procs, NEW v \in Pages
         PROVE  FrameOf(pgdir'[q][v]) =
                  IF q = c THEN IF v = w THEN k.frame ELSE FrameOf(k.table[v])
                  ELSE FrameOf(pgdir[q][v])
    <2>1. CASE q = c /\ v = w
      <3>1. pgdir'[q][v] = e
        BY <1>1, <1>3, <1>4, <1>6, <2>1 DEF Tables
      <3> QED
        BY <2>1, <3>1, FrameOfFacts
    <2>2. CASE q = c /\ v # w
      <3>1. pgdir'[q][v] = k.table[v]
        BY <1>1, <1>3, <1>4, <1>6, <2>2 DEF Tables
      <3> QED
        BY <2>2, <3>1
    <2>3. CASE q # c
      <3>1. pgdir'[q] = pgdir[q]
        BY <1>1, <1>6, <2>3
      <3> QED
        BY <2>3, <3>1
    <2> QED
      BY <2>1, <2>2, <2>3
  <1>11. \A q \in Procs :
           /\ \A v \in Pages : FrameOf(kernel'[q].table[v]) =
                IF q = p THEN NoFrame ELSE FrameOf(kernel[q].table[v])
           /\ kpage'[q] = IF q = c THEN k.kpage ELSE kpage[q]
           /\ kernel'[q].kpage = IF q = p THEN NoFrame ELSE kernel[q].kpage
           /\ kernel'[q].frame = IF q = p THEN NoFrame ELSE kernel[q].frame
    BY <1>1, <1>6, <1>7
  <1>12. Installs(p, c, w)
    BY <1>10, <1>11 DEF Installs
  <1>13. Shared(Holding', freelist \cup FramesIn(c, Pages, {0}))
    BY <1>3, <1>4, <1>5, <1>12, ImageInstalled
  <1> QED
    BY <1>6, <1>9, <1>13 DEF FrameInv

-----------------------------------------------------------------------------
(* Every step, and the theorems *)

\* No step loses a frame or gives one a second place.
LEMMA FrameKept ==
  ASSUME ShapeInv, ShapeInv', FrameInv, [Next]_vars
  PROVE  FrameInv'
  <1>1. CASE UNCHANGED vars
    BY <1>1, FramesSame DEF vars
  <1>2. CASE Next
    <2>1. PICK p \in Procs : Kernel(p) \/ User(p)
      BY <1>2 DEF Next
    <2>2. CASE \/ KallocFindsNone(p) \/ SwapOut(p) \/ SwapRead(p) \/ CopyLooks(p)
               \/ \E n \in 1 .. MaxPages : Sbrk(p, n)
               \/ \E v \in Pages : Fault(p, v) \/ \E x \in Values : Touch(p, v, x)
               \/ Fork(p) \/ Exec(p) \/ Exit(p)
      BY <2>2, FramesUntouched
    <2>3. CASE KallocTakes(p)
      BY <2>3, KallocTakesKeepsFrames
    <2>4. CASE SwapOutDone(p)
      BY <2>4, SwapOutDoneKeepsFrames
    <2>5. CASE SbrkPage(p) \/ SwapIn(p)
      BY <2>5, PageKeepsFrames
    <2>6. CASE ExecPage(p) \/ ForkKernelPage(p)
      BY <2>6, BuildKeepsFrames
    <2>7. CASE CopyPage(p)
      <3>1. CASE kernel[p].page + 1 < sz[p]
        BY <2>7, <3>1, BuildKeepsFrames
      <3>2. CASE ~ (kernel[p].page + 1 < sz[p])
        BY <2>7, <3>2, CopyDoneKeepsFrames
      <3> QED
        BY <3>1, <3>2
    <2>8. CASE ExecDone(p)
      BY <2>8, ExecDoneKeepsFrames
    <2>9. CASE (\E n \in 1 .. MaxPages : Shrink(p, n)) \/ Wait(p)
      BY <2>9, ReleaseKeepsFrames
    <2> QED
      BY <2>1, <2>2, <2>3, <2>4, <2>5, <2>6, <2>7, <2>8, <2>9 DEF Kernel, User
  <1> QED
    BY <1>1, <1>2

\* boot leaves the frames of the first image in their places, the others free.
LEMMA FrameInit ==
  ASSUME Init
  PROVE  FrameInv
  <1>1. /\ ProgramPages \in 1 .. MaxPages /\ MaxPages \in Nat
        /\ Pages = 0 .. MaxPages - 1 /\ ProgramPages \in Nat
    BY SwapAssumption DEF Pages
  <1>2. ShapeInv
    BY ShapeInit
  <1>3. ASSUME NEW q \in Procs, NEW v \in Pages
        PROVE  /\ Holding[<<"page", q, v>>] =
                    IF q = 1 /\ v < ProgramPages THEN FirstImage[v] ELSE NoFrame
               /\ Holding[<<"table", q, v>>] = NoFrame
               /\ Holding[<<"kpage", q, v>>] =
                    IF q = 1 /\ v = 0 THEN FirstImage[ProgramPages] ELSE NoFrame
               /\ Holding[<<"newKpage", q, v>>] = NoFrame
               /\ Holding[<<"frame", q, v>>] = NoFrame
    <2>1. pgdir[q][v] = IF q = 1 /\ v < ProgramPages THEN InRam(FirstImage[v], FALSE)
                        ELSE Unmapped
      BY DEF Init
    <2>2. /\ kpage[q] = IF q = 1 THEN FirstImage[ProgramPages] ELSE NoFrame
          /\ kernel[q].table[v] = Unmapped /\ kernel[q].kpage = NoFrame
          /\ kernel[q].frame = NoFrame
      BY DEF Init, Idle, NoPages
    <2>3. FrameOf(pgdir[q][v]) =
            IF q = 1 /\ v < ProgramPages THEN FirstImage[v] ELSE NoFrame
      BY <2>1, FrameOfFacts
    <2>4. FrameOf(kernel[q].table[v]) = NoFrame
      BY <2>2, FrameOfFacts
    <2>5. /\ Holding[<<"page", q, v>>] = FrameOf(pgdir[q][v])
          /\ Holding[<<"table", q, v>>] = FrameOf(kernel[q].table[v])
          /\ Holding[<<"kpage", q, v>>] = IF v = 0 THEN kpage[q] ELSE NoFrame
          /\ Holding[<<"newKpage", q, v>>] = IF v = 0 THEN kernel[q].kpage ELSE NoFrame
          /\ Holding[<<"frame", q, v>>] = IF v = 0 THEN kernel[q].frame ELSE NoFrame
      BY <1>2, HoldingAt
    <2> QED
      BY <2>2, <2>3, <2>4, <2>5
  \* The place of frame i of the image.
  <1> DEFINE at == [i \in 0 .. ProgramPages |->
               IF i = ProgramPages THEN <<"kpage", 1, 0>> ELSE <<"page", 1, i>>]
             S == {x \in Places : Holding[x] # NoFrame =>
                     \E i \in 0 .. ProgramPages : x = at[i] /\ Holding[x] = FirstImage[i]}
  <1>4. ASSUME NEW i \in 0 .. ProgramPages
        PROVE  at[i] \in Places /\ Holding[at[i]] = FirstImage[i]
    <2>1. 1 \in Procs /\ 0 \in Pages
      BY Numbers
    <2>2. CASE i = ProgramPages
      BY <1>3, <2>1, <2>2, PlaceFacts
    <2>3. CASE i # ProgramPages
      <3>1. i \in Pages /\ i < ProgramPages
        BY <1>1, <2>3
      <3> QED
        BY <1>3, <2>1, <2>3, <3>1, PlaceFacts
    <2> QED
      BY <2>2, <2>3
  <1>5. ASSUME NEW q \in Procs, NEW v \in Pages
        PROVE  /\ <<"page", q, v>> \in S /\ <<"table", q, v>> \in S
               /\ <<"kpage", q, v>> \in S /\ <<"newKpage", q, v>> \in S
               /\ <<"frame", q, v>> \in S
    <2>1. <<"table", q, v>> \in S /\ <<"newKpage", q, v>> \in S /\ <<"frame", q, v>> \in S
      BY <1>3, PlaceFacts
    <2>2. <<"page", q, v>> \in S
      <3>1. CASE q = 1 /\ v < ProgramPages
        <4>1. v \in 0 .. ProgramPages /\ v # ProgramPages
          BY <1>1, <3>1
        <4> QED
          BY <1>3, <3>1, <4>1, PlaceFacts
      <3>2. CASE ~ (q = 1 /\ v < ProgramPages)
        BY <1>3, <3>2, PlaceFacts
      <3> QED
        BY <3>1, <3>2
    <2>3. <<"kpage", q, v>> \in S
      <3>1. ProgramPages \in 0 .. ProgramPages
        BY <1>1
      <3> QED
        BY <1>3, <3>1, PlaceFacts
    <2> QED
      BY <2>1, <2>2, <2>3
  <1>6. Places \subseteq S
    <2> HIDE DEF S
    <2> QED
      BY <1>5, EveryPlace
  <1>7. Holding \in [Places -> Frames \cup {NoFrame}]
    BY <1>2, HoldingFacts DEF HoldingShape
  <1>8. freelist = Frames \ {FirstImage[i] : i \in 0 .. ProgramPages}
    BY DEF Init
  <1>9. \A x, y \in Places : Holding[x] = Holding[y] /\ Holding[x] # NoFrame => x = y
    BY <1>6, FirstImageFacts
  <1>10. \A f \in Frames : f \in freelist <=> \A x \in Places : Holding[x] # f
    <2> HIDE DEF at
    <2>1. ASSUME NEW f \in Frames, f \in freelist, NEW x \in Places
          PROVE  Holding[x] # f
      BY <1>6, <1>8, <2>1, Numbers
    <2>2. ASSUME NEW f \in Frames, f \notin freelist
          PROVE  \E x \in Places : Holding[x] = f
      <3>1. PICK i \in 0 .. ProgramPages : f = FirstImage[i]
        BY <1>8, <2>2
      <3> QED
        BY <1>4, <3>1
    <2> QED
      BY <2>1, <2>2
  <1>11. freePages \in Int /\ freePages <= Cardinality(freelist)
    <2>1. IsFiniteSet(freelist)
      BY <1>8, Numbers, FS_Subset
    <2>2. Cardinality(freelist) \in Nat
      BY <2>1, FS_CardinalityType
    <2> QED
      BY <2>2 DEF Init
  <1> QED
    BY <1>7, <1>8, <1>9, <1>10, <1>11 DEF FrameInv, Shared

\* The inductive invariant of every reachable state.
THEOREM FramesHold == Spec => [](ShapeInv /\ FrameInv)
  <1>1. Init => FrameInv
    BY FrameInit
  <1>2. ShapeInv /\ ShapeInv' /\ FrameInv /\ [Next]_vars => FrameInv'
    BY FrameKept
  <1> QED
    BY <1>1, <1>2, ShapeHolds, PTL DEF Spec

\* free_pages (kalloc.c) never promises a frame that is not there, although
\* kfree() counts from below zero and adaptive_swap() does not look again.
THEOREM CounterIsSafe == Spec => []CounterNeverTooHigh
  <1>1. FrameInv => CounterNeverTooHigh
    BY DEF FrameInv, CounterNeverTooHigh
  <1> QED
    BY <1>1, FramesHold, PTL

-----------------------------------------------------------------------------
(* The partition, in the words of the model *)

\* The frames of a process are those of its places.
LEMMA OwnedFacts ==
  ASSUME ShapeInv, FrameInv, NEW p \in Procs
  PROVE  /\ Owned(p) \subseteq Frames
         /\ \A f \in Frames : f \in Owned(p) <=>
              \E kind \in Kinds : \E v \in Pages : Holding[<<kind, p, v>>] = f
  <1> DEFINE k == kernel[p]
  <1>1. /\ pgdir[p] \in Tables /\ k.table \in Tables
        /\ {kpage[p], k.kpage, k.frame} \subseteq Frames \cup {NoFrame}
    BY DEF ShapeInv, KernelInv, TableInv, KernelTypes
  <1>2. Owned(p) \subseteq Frames
    BY <1>1, FramesOfFacts DEF Owned
  <1>3. ASSUME NEW v \in Pages
        PROVE  /\ Holding[<<"page", p, v>>] = FrameOf(pgdir[p][v])
               /\ Holding[<<"table", p, v>>] = FrameOf(k.table[v])
               /\ Holding[<<"kpage", p, v>>] = IF v = 0 THEN kpage[p] ELSE NoFrame
               /\ Holding[<<"newKpage", p, v>>] = IF v = 0 THEN k.kpage ELSE NoFrame
               /\ Holding[<<"frame", p, v>>] = IF v = 0 THEN k.frame ELSE NoFrame
    BY HoldingAt
  <1>4. ASSUME NEW f \in Frames, f \in Owned(p)
        PROVE  \E kind \in Kinds : \E v \in Pages : Holding[<<kind, p, v>>] = f
    <2>1. CASE f \in FramesOf(pgdir[p])
      <3>1. PICK v \in Pages : pgdir[p][v].at = "ram" /\ pgdir[p][v].n = f
        BY <2>1 DEF FramesOf, Resident
      <3> QED
        BY <1>3, <3>1 DEF FrameOf, Kinds
    <2>2. CASE f \in FramesOf(k.table)
      <3>1. PICK v \in Pages : k.table[v].at = "ram" /\ k.table[v].n = f
        BY <2>2 DEF FramesOf, Resident
      <3> QED
        BY <1>3, <3>1 DEF FrameOf, Kinds
    <2>3. CASE f \in {kpage[p], k.kpage, k.frame}
      <3>1. 0 \in Pages
        BY Numbers
      <3> QED
        BY <1>3, <2>3, <3>1 DEF Kinds
    <2> QED
      BY <1>4, <2>1, <2>2, <2>3 DEF Owned
  <1>5. ASSUME NEW f \in Frames, NEW kind \in Kinds, NEW v \in Pages,
               Holding[<<kind, p, v>>] = f
        PROVE  f \in Owned(p)
    <2>1. f # NoFrame
      BY Numbers
    <2>2. CASE kind = "page"
      BY <1>3, <1>5, <2>1, <2>2 DEF FrameOf, Owned, FramesOf, Resident
    <2>3. CASE kind = "table"
      BY <1>3, <1>5, <2>1, <2>3 DEF FrameOf, Owned, FramesOf, Resident
    <2>4. CASE kind \in {"kpage", "newKpage", "frame"}
      BY <1>3, <1>5, <2>1, <2>4 DEF Owned
    <2> QED
      BY <2>2, <2>3, <2>4 DEF Kinds
  <1> QED
    BY <1>2, <1>4, <1>5

\* A set that another one is put against, element by element, has its size.
LEMMA SameSize ==
  ASSUME NEW S, IsFiniteSet(S), NEW T, NEW f \in [S -> T],
         \A x, y \in S : f[x] = f[y] => x = y,
         \A t \in T : \E x \in S : f[x] = t
  PROVE  IsFiniteSet(T) /\ Cardinality(T) = Cardinality(S)
  <1>1. f \in Bijection(S, T)
    BY DEF Bijection, Injection, Surjection, IsInjective
  <1> QED
    BY <1>1, FS_Bijection DEF ExistsBijection

\* A process has as many frames as it has places that hold one.
LEMMA OwnedSize ==
  ASSUME ShapeInv, FrameInv, NEW p \in Procs
  PROVE  Cardinality(Owned(p)) = OwnedCount(p)
  <1> DEFINE k == kernel[p]
             A == FramesOf(pgdir[p])
             B == FramesOf(k.table)
             three == <<kpage[p], k.kpage, k.frame>>
             I == {i \in 1 .. 3 : three[i] # NoFrame}
             C == {kpage[p], k.kpage, k.frame} \ {NoFrame}
             H == Holding
  <1>1. /\ pgdir[p] \in Tables /\ k.table \in Tables
        /\ {kpage[p], k.kpage, k.frame} \subseteq Frames \cup {NoFrame}
    BY DEF ShapeInv, KernelInv, TableInv, KernelTypes
  <1>2. ASSUME NEW v \in Pages
        PROVE  /\ <<"page", p, v>> \in Places /\ <<"table", p, v>> \in Places
               /\ H[<<"page", p, v>>] = FrameOf(pgdir[p][v])
               /\ H[<<"table", p, v>>] = FrameOf(k.table[v])
    BY HoldingAt, PlaceFacts
  <1>3. /\ 0 \in Pages
        /\ <<"kpage", p, 0>> \in Places /\ H[<<"kpage", p, 0>>] = kpage[p]
        /\ <<"newKpage", p, 0>> \in Places /\ H[<<"newKpage", p, 0>>] = k.kpage
        /\ <<"frame", p, 0>> \in Places /\ H[<<"frame", p, 0>>] = k.frame
    BY HoldingAt, PlaceFacts, Numbers
  <1>4. \A x, y \in Places : H[x] = H[y] /\ H[x] # NoFrame => x = y
    BY DEF FrameInv, Shared
  <1>5. ASSUME NEW table \in Tables, NEW kind,
               \A v \in Pages : <<kind, p, v>> \in Places
                                /\ H[<<kind, p, v>>] = FrameOf(table[v])
        PROVE  /\ IsFiniteSet(FramesOf(table)) /\ Cardinality(Resident(table)) \in Nat
               /\ Cardinality(FramesOf(table)) = Cardinality(Resident(table))
    <2> DEFINE f == [v \in Resident(table) |-> table[v].n]
    <2>1. Resident(table) \subseteq Pages /\ IsFiniteSet(Resident(table))
      BY Numbers, FS_Subset DEF Resident
    <2>2. f \in [Resident(table) -> FramesOf(table)]
      BY DEF FramesOf
    <2>3. \A t \in FramesOf(table) : \E v \in Resident(table) : f[v] = t
      BY DEF FramesOf
    <2>4. ASSUME NEW v \in Resident(table), NEW w \in Resident(table), f[v] = f[w]
          PROVE  v = w
      <3>1. FrameOf(table[v]) = table[v].n /\ FrameOf(table[w]) = table[w].n
        BY DEF Resident, FrameOf
      <3>2. table[v].n # NoFrame
        BY FramesOfFacts, Numbers
      <3>3. H[<<kind, p, v>>] = H[<<kind, p, w>>] /\ H[<<kind, p, v>>] # NoFrame
        BY <1>5, <2>1, <2>4, <3>1, <3>2
      <3>4. <<kind, p, v>> = <<kind, p, w>>
        BY <1>4, <1>5, <2>1, <3>3
      <3> QED
        BY <3>4
    <2> HIDE DEF f
    <2>5. IsFiniteSet(FramesOf(table))
          /\ Cardinality(FramesOf(table)) = Cardinality(Resident(table))
      BY <2>1, <2>2, <2>3, <2>4, SameSize
    <2> QED
      BY <2>1, <2>5, FS_CardinalityType
  <1>6. /\ IsFiniteSet(A) /\ Cardinality(A) = Cardinality(Resident(pgdir[p]))
        /\ IsFiniteSet(B) /\ Cardinality(B) = Cardinality(Resident(k.table))
        /\ Cardinality(Resident(pgdir[p])) \in Nat
        /\ Cardinality(Resident(k.table)) \in Nat
    BY <1>1, <1>2, <1>5
  <1>7. /\ kpage[p] # NoFrame => kpage[p] # k.kpage /\ kpage[p] # k.frame
        /\ k.kpage # NoFrame => k.kpage # k.frame
    BY <1>3, <1>4
  <1>8. IsFiniteSet(C) /\ Cardinality(C) = Cardinality(I) /\ Cardinality(I) \in Nat
    <2> DEFINE f == [i \in I |-> three[i]]
    <2>1. IsFiniteSet(I)
      BY FS_Interval, FS_Subset
    <2>2. I \subseteq {1, 2, 3}
      OBVIOUS
    <2>3. three[1] = kpage[p] /\ three[2] = k.kpage /\ three[3] = k.frame
      OBVIOUS
    <2>4. f \in [I -> C]
      BY <2>2, <2>3
    <2>5. \A t \in C : \E i \in I : f[i] = t
      BY <2>3
    <2>6. \A i, j \in I : f[i] = f[j] => i = j
      BY <1>7, <2>2, <2>3
    <2> HIDE DEF f, I, C
    <2>7. IsFiniteSet(C) /\ Cardinality(C) = Cardinality(I)
      BY <2>1, <2>4, <2>5, <2>6, SameSize
    <2> QED
      BY <2>1, <2>7, FS_CardinalityType
  <1>9. A \cap B = {} /\ (A \cup B) \cap C = {}
    <2>1. ASSUME NEW f \in A
          PROVE  \E v \in Pages : H[<<"page", p, v>>] = f /\ f # NoFrame
      <3>1. PICK v \in Pages : pgdir[p][v].at = "ram" /\ pgdir[p][v].n = f
        BY DEF FramesOf, Resident
      <3> QED
        BY <1>1, <1>2, <3>1, FramesOfFacts, Numbers DEF FrameOf
    <2>2. ASSUME NEW f \in B
          PROVE  \E v \in Pages : H[<<"table", p, v>>] = f /\ f # NoFrame
      <3>1. PICK v \in Pages : k.table[v].at = "ram" /\ k.table[v].n = f
        BY DEF FramesOf, Resident
      <3> QED
        BY <1>1, <1>2, <3>1, FramesOfFacts, Numbers DEF FrameOf
    <2>3. ASSUME NEW f, NEW v \in Pages, NEW w \in Pages, f # NoFrame,
                 H[<<"page", p, v>>] = f, H[<<"table", p, w>>] = f
          PROVE  FALSE
      <3>1. <<"page", p, v>> = <<"table", p, w>>
        BY <1>2, <1>4, <2>3
      <3> QED
        BY <3>1
    <2>4. ASSUME NEW f \in C, NEW v \in Pages
          PROVE  H[<<"page", p, v>>] # f /\ H[<<"table", p, v>>] # f
      <3>1. PICK kind \in {"kpage", "newKpage", "frame"} :
              <<kind, p, 0>> \in Places /\ H[<<kind, p, 0>>] = f
        BY <1>3
      <3>2. <<kind, p, 0>> # <<"page", p, v>> /\ <<kind, p, 0>> # <<"table", p, v>>
        OBVIOUS
      <3> QED
        BY <1>2, <1>4, <3>1, <3>2
    <2> QED
      BY <2>1, <2>2, <2>3, <2>4
  <1>10. Owned(p) = (A \cup B) \cup C
    BY DEF Owned
  <1>11. OwnedCount(p) = Cardinality(Resident(pgdir[p])) + Cardinality(Resident(k.table))
                           + Cardinality(I)
    BY DEF OwnedCount
  <1> HIDE DEF A, B, C, I
  <1>12. IsFiniteSet(A \cup B) /\ Cardinality(A \cup B) = Cardinality(A) + Cardinality(B)
    <2>1. Cardinality(A \cap B) = 0
      BY <1>9, FS_EmptySet, Zenon
    <2>2. /\ Cardinality(A \cup B) = Cardinality(A) + Cardinality(B) - Cardinality(A \cap B)
          /\ IsFiniteSet(A \cup B)
      BY <1>6, FS_Union
    <2>3. Cardinality(A) \in Nat /\ Cardinality(B) \in Nat
      BY <1>6
    <2> QED
      BY <2>1, <2>2, <2>3
  <1>13. Cardinality((A \cup B) \cup C) = Cardinality(A \cup B) + Cardinality(C)
    <2>1. Cardinality((A \cup B) \cap C) = 0
      BY <1>9, FS_EmptySet, Zenon
    <2>2. Cardinality((A \cup B) \cup C)
            = Cardinality(A \cup B) + Cardinality(C) - Cardinality((A \cup B) \cap C)
      BY <1>8, <1>12, FS_Union
    <2>3. Cardinality(A \cup B) \in Nat /\ Cardinality(C) \in Nat
      BY <1>8, <1>12, FS_CardinalityType
    <2> QED
      BY <2>1, <2>2, <2>3
  <1> QED
    BY <1>6, <1>8, <1>10, <1>11, <1>12, <1>13

\* No frame is lost and none has two owners (kalloc(), kfree() and their
\* callers in vm.c, proc.c, exec.c and pageswap.c), at every step of every call,
\* up to a victim that fork() is still building, where the model ends.
THEOREM PartitionHolds == Spec => []FramesArePartitioned
  <1>1. ASSUME ShapeInv, FrameInv PROVE FramesArePartitioned
    <2>1. \A x, y \in Places : Holding[x] = Holding[y] /\ Holding[x] # NoFrame => x = y
      BY <1>1 DEF FrameInv, Shared
    <2>2. \A f \in Frames : f \in freelist <=> \A x \in Places : Holding[x] # f
      BY <1>1 DEF FrameInv, Shared
    <2>3. \A p \in Procs : Cardinality(Owned(p)) = OwnedCount(p)
      BY <1>1, OwnedSize
    <2>4. ASSUME NEW p \in Procs PROVE Owned(p) \cap freelist = {}
      BY <1>1, <2>2, OwnedFacts, PlaceFacts
    <2>5. ASSUME NEW p \in Procs, NEW q \in Procs, p # q PROVE Owned(p) \cap Owned(q) = {}
      <3> SUFFICES ASSUME NEW f \in Owned(p), f \in Owned(q) PROVE FALSE
        OBVIOUS
      <3>1. f \in Frames /\ f # NoFrame
        BY <1>1, OwnedFacts, Numbers
      <3>2. PICK i \in Kinds, v \in Pages : Holding[<<i, p, v>>] = f
        BY <1>1, <3>1, OwnedFacts
      <3>3. PICK j \in Kinds, w \in Pages : Holding[<<j, q, w>>] = f
        BY <1>1, <3>1, OwnedFacts
      <3>4. <<i, p, v>> = <<j, q, w>>
        BY <2>1, <3>1, <3>2, <3>3, PlaceFacts
      <3> QED
        BY <2>5, <3>4
    <2>6. Frames = freelist \cup UNION {Owned(p) : p \in Procs}
      <3>1. freelist \subseteq Frames
        BY <1>1 DEF FrameInv, Shared
      <3>2. \A p \in Procs : Owned(p) \subseteq Frames
        BY <1>1, OwnedFacts
      <3>3. ASSUME NEW f \in Frames, f \notin freelist
            PROVE  \E p \in Procs : f \in Owned(p)
        <4>1. PICK x \in Places : Holding[x] = f
          BY <2>2, <3>3
        <4>2. PICK i \in Kinds, p \in Procs, v \in Pages : x = <<i, p, v>>
          BY PlaceFacts
        <4> QED
          BY <1>1, <4>1, <4>2, OwnedFacts
      <3> QED
        BY <3>1, <3>2, <3>3
    <2> QED
      BY <2>3, <2>4, <2>5, <2>6 DEF FramesArePartitioned
  <1> QED
    BY <1>1, FramesHold, PTL

=============================================================================

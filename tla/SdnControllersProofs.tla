------------------------ MODULE SdnControllersProofs ------------------------
(***************************************************************************)
(* Proofs about SdnControllers and SpanningTree, for every finite network. *)
(* First compute_mst(): for any links it returns a forest that connects    *)
(* what they connect.  Then the controllers: in any network the tree is    *)
(* such a forest of known links, and in every network where links only     *)
(* come and go in wirings without a cycle, rules lead to their hosts and   *)
(* frames do not multiply.  The last two rest on what a forest is: between *)
(* two switches there is one way.                                          *)
(***************************************************************************)
EXTENDS SdnControllers, NumberFacts

-----------------------------------------------------------------------------
(* Connected switches *)

\* No edge leaves S.
Closed(edges, S) == \A e \in edges : e[1] \in S <=> e[2] \in S

\* The bound that ConnectedTo puts on its sets does not matter.
LEMMA InEveryClosedSet ==
  ASSUME NEW E, NEW s, NEW v
  PROVE  v \in ConnectedTo(E, s) <=> \A S : s \in S /\ Closed(E, S) => v \in S
  <1> DEFINE N == Nodes(E) \cup {s}
  <1>1. \A e \in E : e[1] \in N /\ e[2] \in N
    BY DEF Nodes
  <1>2. ASSUME v \in ConnectedTo(E, s), NEW S, s \in S, Closed(E, S)
        PROVE  v \in S
    <2>1. S \cap N \in SUBSET N /\ s \in S \cap N
      BY <1>2
    <2>2. \A e \in E : e[1] \in S \cap N <=> e[2] \in S \cap N
      BY <1>1, <1>2 DEF Closed
    <2>3. v \in S \cap N
      BY <1>2, <2>1, <2>2 DEF ConnectedTo
    <2> QED
      BY <2>3
  <1>3. ASSUME \A S : s \in S /\ Closed(E, S) => v \in S
        PROVE  v \in ConnectedTo(E, s)
    <2>1. s \in N /\ Closed(E, N)
      BY <1>1 DEF Closed
    <2>2. v \in N
      BY <1>3, <2>1
    <2>3. \A S \in SUBSET N :
            s \in S /\ (\A e \in E : e[1] \in S <=> e[2] \in S) => v \in S
      BY <1>3 DEF Closed
    <2> QED
      BY <2>2, <2>3 DEF ConnectedTo
  <1> QED
    BY <1>2, <1>3

\* A switch is connected with itself, and no edge leaves its part.
LEMMA PartIsClosed ==
  ASSUME NEW E, NEW s
  PROVE  /\ s \in ConnectedTo(E, s)
         /\ Closed(E, ConnectedTo(E, s))
         /\ ConnectedTo(E, s) \subseteq Nodes(E) \cup {s}
  <1>1. s \in ConnectedTo(E, s)
    BY InEveryClosedSet
  <1>2. Closed(E, ConnectedTo(E, s))
    <2> SUFFICES ASSUME NEW e \in E
                 PROVE  e[1] \in ConnectedTo(E, s) <=> e[2] \in ConnectedTo(E, s)
      BY DEF Closed
    <2>1. \A S : Closed(E, S) => (e[1] \in S <=> e[2] \in S)
      BY DEF Closed
    <2> QED
      BY <2>1, InEveryClosedSet
  <1> QED
    BY <1>1, <1>2 DEF ConnectedTo

\* Being connected is symmetric: the rest of a closed set is closed.
LEMMA ConnectedSymmetric ==
  ASSUME NEW E, NEW s, NEW v, v \in ConnectedTo(E, s)
  PROVE  s \in ConnectedTo(E, v)
  <1> SUFFICES ASSUME NEW S, v \in S, Closed(E, S), s \notin S
               PROVE  FALSE
    BY InEveryClosedSet
  <1> DEFINE T == (Nodes(E) \cup {s}) \ S
  <1>1. s \in T
    OBVIOUS
  <1>2. Closed(E, T)
    BY DEF Closed, Nodes
  <1>3. v \in T
    BY <1>1, <1>2, InEveryClosedSet
  <1> QED
    BY <1>3

\* Connected switches have the same part.
LEMMA SamePart ==
  ASSUME NEW E, NEW s, NEW v, v \in ConnectedTo(E, s)
  PROVE  ConnectedTo(E, v) = ConnectedTo(E, s)
  <1>1. ASSUME NEW a, NEW b, b \in ConnectedTo(E, a)
        PROVE  ConnectedTo(E, b) \subseteq ConnectedTo(E, a)
    BY <1>1, InEveryClosedSet
  <1> QED
    BY <1>1, ConnectedSymmetric

\* More edges connect more.
LEMMA ConnectedMore ==
  ASSUME NEW E, NEW F, E \subseteq F, NEW s
  PROVE  ConnectedTo(E, s) \subseteq ConnectedTo(F, s)
  BY InEveryClosedSet DEF Closed

\* What one more edge connects.
LEMMA OneMoreEdge ==
  ASSUME NEW E, NEW e, NEW x, NEW y
  PROVE  y \in ConnectedTo(E \cup {e}, x) <=>
           \/ y \in ConnectedTo(E, x)
           \/ e[1] \in ConnectedTo(E, x) /\ y \in ConnectedTo(E, e[2])
           \/ e[2] \in ConnectedTo(E, x) /\ y \in ConnectedTo(E, e[1])
  <1> DEFINE X == ConnectedTo(E, x)
             A == ConnectedTo(E, e[1])
             B == ConnectedTo(E, e[2])
             F == E \cup {e}
             T == X \cup (IF e[1] \in X THEN B ELSE {})
                    \cup (IF e[2] \in X THEN A ELSE {})
  <1>1. /\ x \in X /\ e[1] \in A /\ e[2] \in B
        /\ Closed(E, X) /\ Closed(E, A) /\ Closed(E, B)
    BY PartIsClosed
  <1>2. ASSUME y \in ConnectedTo(F, x) PROVE y \in T
    <2>1. Closed(E, T)
      <3> HIDE DEF X, A, B
      <3> QED
        BY <1>1 DEF Closed
    <2>2. e[1] \in T <=> e[2] \in T
      <3> HIDE DEF X, A, B
      <3> QED
        BY <1>1
    <2>3. x \in T /\ Closed(F, T)
      BY <1>1, <2>1, <2>2 DEF Closed
    <2> HIDE DEF T
    <2> QED
      BY <1>2, <2>3, InEveryClosedSet
  <1>3. ASSUME y \in T PROVE y \in ConnectedTo(F, x)
    <2>1. \A z : ConnectedTo(E, z) \subseteq ConnectedTo(F, z)
      BY ConnectedMore
    <2>2. Closed(F, ConnectedTo(F, x))
      BY PartIsClosed
    <2>3. e[1] \in ConnectedTo(F, x) <=> e[2] \in ConnectedTo(F, x)
      BY <2>2 DEF Closed
    <2>4. e[1] \in X => ConnectedTo(F, e[2]) = ConnectedTo(F, x)
      BY <2>1, <2>3, SamePart
    <2>5. e[2] \in X => ConnectedTo(F, e[1]) = ConnectedTo(F, x)
      BY <2>1, <2>3, SamePart
    <2> QED
      BY <1>3, <2>1, <2>4, <2>5
  <1> QED
    BY <1>2, <1>3

-----------------------------------------------------------------------------
(* Forests *)

\* An edge between two parts closes no cycle.
LEMMA ForestGrows ==
  ASSUME NEW M, IsForest(M), NEW e, e[2] \notin ConnectedTo(M, e[1])
  PROVE  IsForest(M \cup {e})
  <1>1. e \notin M
    BY PartIsClosed DEF Closed
  <1> SUFFICES ASSUME NEW d \in M \cup {e},
                      d[2] \in ConnectedTo((M \cup {e}) \ {d}, d[1])
               PROVE  FALSE
    BY DEF IsForest
  <1>2. CASE d = e
    <2>1. (M \cup {e}) \ {d} = M
      BY <1>1, <1>2
    <2> QED
      BY <1>2, <2>1
  <1>3. CASE d # e
    <2> DEFINE L == M \ {d}
    <2>1. d \in M /\ (M \cup {e}) \ {d} = L \cup {e}
      BY <1>3
    <2>2. d[2] \notin ConnectedTo(L, d[1])
      BY <2>1 DEF IsForest
    <2>3. \A z : ConnectedTo(L, z) \subseteq ConnectedTo(M, z)
      BY ConnectedMore
    <2>4. d[2] \in ConnectedTo(M, d[1])
      BY <2>1, PartIsClosed DEF Closed
    <2>5. \/ e[1] \in ConnectedTo(L, d[1]) /\ d[2] \in ConnectedTo(L, e[2])
          \/ e[2] \in ConnectedTo(L, d[1]) /\ d[2] \in ConnectedTo(L, e[1])
      BY <2>1, <2>2, OneMoreEdge
    <2>6. \A a, b : b \in ConnectedTo(M, a) => ConnectedTo(M, b) = ConnectedTo(M, a)
      BY SamePart
    <2>7. \A a, b : b \in ConnectedTo(M, a) => a \in ConnectedTo(M, b)
      BY ConnectedSymmetric
    <2> HIDE DEF L
    <2> QED
      BY <2>3, <2>4, <2>5, <2>6, <2>7
  <1> QED
    BY <1>2, <1>3

\* The switches on t's side of the edge between s and t.
Beside(edges, s, t) == <<s, t>> \in edges \/ <<t, s>> \in edges
Side(edges, s, t) == ConnectedTo(edges \ {<<s, t>>, <<t, s>>}, t)

\* Edges name their smaller end first.
Directed(edges) == \A e \in edges : e = <<e[1], e[2]>> /\ <<e[2], e[1]>> \notin edges

\* The next hop to d is the neighbour on whose side d is.
LEMMA NextHopIsBeside ==
  ASSUME NEW F, Directed(F), NEW s, NEW d, NEW n
  PROVE  n \in NextHops(F, s, d) <=> Beside(F, s, n) /\ d \in Side(F, s, n)
  <1>1. <<s, n>> \in F => F \ {<<s, n>>} = F \ {<<s, n>>, <<n, s>>}
    BY DEF Directed
  <1>2. <<n, s>> \in F => F \ {<<n, s>>} = F \ {<<s, n>>, <<n, s>>}
    BY DEF Directed
  <1>3. Beside(F, s, n) => n \in Nodes(F)
    BY DEF Beside, Nodes
  <1> QED
    BY <1>1, <1>2, <1>3 DEF NextHops, Beside, Side

\* Across the edge from s to t there is no way back to s.
LEMMA NoWayBack ==
  ASSUME NEW F, Directed(F), IsForest(F), NEW s, NEW t, Beside(F, s, t)
  PROVE  /\ s \notin Side(F, s, t)
         /\ t \in Side(F, s, t)
         /\ \A f \in F : f # <<s, t>> /\ f # <<t, s>> =>
              (f[1] \in Side(F, s, t) <=> f[2] \in Side(F, s, t))
         /\ \A u : u # t /\ Beside(F, s, u) => u \notin Side(F, s, t)
  <1> DEFINE A == Side(F, s, t)
             L == F \ {<<s, t>>, <<t, s>>}
  <1>1. PICK e \in F : e = <<s, t>> \/ e = <<t, s>>
    BY DEF Beside
  <1>2. L = F \ {e}
    BY <1>1 DEF Directed
  <1>3. e[2] \notin ConnectedTo(L, e[1])
    BY <1>2 DEF IsForest
  <1>4. s \notin A
    BY <1>1, <1>3, ConnectedSymmetric DEF Side
  <1>5. t \in A /\ Closed(L, A)
    BY PartIsClosed DEF Side
  <1>6. \A f \in F : f # <<s, t>> /\ f # <<t, s>> => (f[1] \in A <=> f[2] \in A)
    BY <1>5 DEF Closed
  <1>7. ASSUME NEW u, u # t, Beside(F, s, u) PROVE u \notin A
    BY <1>4, <1>6, <1>7 DEF Beside
  <1> QED
    BY <1>4, <1>5, <1>6, <1>7

\* The sides of two neighbours of s have nothing in common, and t's side is part
\* of s's as another neighbour sees it.
LEMMA SidesApart ==
  ASSUME NEW F, Directed(F), IsForest(F), NEW s, NEW t, NEW u,
         Beside(F, s, t), Beside(F, s, u), t # u
  PROVE  /\ Side(F, s, t) \cap Side(F, s, u) = {}
         /\ Side(F, s, t) \subseteq Side(F, u, s)
  <1> DEFINE A == Side(F, s, t)
             B == Side(F, s, u)
             C == Side(F, u, s)
             L == F \ {<<s, t>>, <<t, s>>}
  <1>1. /\ s \notin A /\ t \in A
        /\ \A f \in F : f # <<s, t>> /\ f # <<t, s>> => (f[1] \in A <=> f[2] \in A)
    BY NoWayBack
  <1>2. /\ s \notin B /\ t \notin B
        /\ \A f \in F : f # <<s, u>> /\ f # <<u, s>> => (f[1] \in B <=> f[2] \in B)
    BY NoWayBack
  <1>3. /\ s \in C
        /\ \A f \in F : f # <<s, u>> /\ f # <<u, s>> => (f[1] \in C <=> f[2] \in C)
    <2>1. Beside(F, u, s)
      BY DEF Beside
    <2> QED
      BY <2>1, NoWayBack
  <1>4. t \in C
    <2>1. PICK e \in F : e = <<s, t>> \/ e = <<t, s>>
      BY DEF Beside
    <2>2. e # <<s, u>> /\ e # <<u, s>>
      BY <1>2, <2>1
    <2> QED
      BY <1>3, <2>1, <2>2
  <1>5. \A T : t \in T /\ Closed(L, T) => A \subseteq T
    BY InEveryClosedSet DEF Side
  <1> HIDE DEF A, B, C
  <1>6. Closed(L, A \ B)
    BY <1>1, <1>2 DEF Closed
  <1>7. Closed(L, A \cap C)
    BY <1>1, <1>3 DEF Closed
  <1>8. A \subseteq A \ B /\ A \subseteq A \cap C
    BY <1>1, <1>2, <1>4, <1>5, <1>6, <1>7
  <1> QED
    BY <1>8 DEF A, B, C

-----------------------------------------------------------------------------
(* Union-find *)

\* Following parent from v leads to root[v].
Leads(parent, root) ==
  \A v \in DOMAIN parent :
    root[v] = IF parent[v] = v THEN v ELSE root[parent[v]]

\* The ranks, at most top, grow on the way to a root.
Ranked(parent, rank, top, N) ==
  /\ parent \in [N -> N]
  /\ rank \in [N -> 0 .. top]
  /\ \A v \in N : parent[v] # v => rank[v] < rank[parent[v]]

\* Because they do, there is one root for each switch, which Root finds.
LEMMA RootIsReached ==
  ASSUME NEW N, NEW parent, NEW rank, NEW top \in Nat,
         Ranked(parent, rank, top, N),
         NEW root \in [N -> N], Leads(parent, root)
  PROVE  \A u \in N : Root(parent, u) = root[u]
  <1> DEFINE Solves(r) == r = [v \in DOMAIN parent |->
                                 IF parent[v] = v THEN v ELSE r[parent[v]]]
             found == CHOOSE r : Solves(r)
  <1>1. DOMAIN parent = N
    BY DEF Ranked
  <1>2. Solves(root)
    BY <1>1 DEF Leads
  <1>3. Solves(found)
    BY <1>2
  <1>4. \A v \in N : found[v] = IF parent[v] = v THEN v ELSE found[parent[v]]
    <2> HIDE DEF found
    <2> QED
      BY <1>1, <1>3
  <1>5. \A v \in N : found[v] = root[v]
    <2> DEFINE Height(v) == top - rank[v]
               Bad == {v \in N : found[v] # root[v]}
               Heights == {n \in Nat : \E v \in Bad : n = Height(v)}
    <2> SUFFICES ASSUME NEW w \in N, found[w] # root[w] PROVE FALSE
      OBVIOUS
    <2> HIDE DEF found
    <2>1. \A v \in N : Height(v) \in Nat
      BY DEF Ranked
    <2>2. Heights \in SUBSET Nat /\ Heights # {}
      BY <2>1
    <2>3. PICK n \in Heights : \A m \in Heights : n <= m
      <3> HIDE DEF Heights
      <3> QED
        BY <2>2, LeastElement
    <2>4. PICK v \in Bad : n = Height(v)
      BY <2>3
    <2>5. parent[v] # v /\ parent[v] \in N /\ root[v] = root[parent[v]]
            /\ found[v] = found[parent[v]]
      BY <1>1, <1>4, <2>4 DEF Leads, Ranked
    <2>6. parent[v] \in Bad /\ Height(parent[v]) \in Heights
      BY <2>1, <2>4, <2>5
    <2>7. rank[v] < rank[parent[v]] /\ rank[v] \in Nat /\ rank[parent[v]] \in Nat
      BY <2>4, <2>5 DEF Ranked
    <2>8. Height(parent[v]) < Height(v)
      BY <2>7
    <2> QED
      BY <2>1, <2>3, <2>4, <2>6, <2>8
  <1>6. \A u \in N : Root(parent, u) = found[u]
    BY DEF Root
  <1> QED
    BY <1>5, <1>6

\* root gives each switch the root that parent leads it to.
Rooted(parent, rank, root, top, N) ==
  /\ Ranked(parent, rank, top, N)
  /\ root \in [N -> N]
  /\ Leads(parent, root)
  /\ \A v \in N : parent[root[v]] = root[v]

\* Path halving keeps the roots and the order of the ranks.
LEMMA HalveKeeps ==
  ASSUME NEW N, NEW parent, NEW rank, NEW root, NEW top \in Nat,
         Rooted(parent, rank, root, top, N), NEW u
  PROVE  Rooted(Halve(parent, u), rank, root, top, N)
  <1> DEFINE half == Halve(parent, u)
  <1>1. /\ DOMAIN parent = N /\ \A v \in N : parent[v] \in N /\ rank[v] \in 0 .. top
        /\ rank \in [N -> 0 .. top]
        /\ \A v \in N : parent[v] # v => rank[v] < rank[parent[v]]
        /\ root \in [N -> N]
        /\ \A v \in N : parent[root[v]] = root[v]
        /\ \A v \in N : root[v] = IF parent[v] = v THEN v ELSE root[parent[v]]
    BY DEF Rooted, Ranked, Leads
  <1>2. /\ DOMAIN half = N
        /\ \A v \in N : half[v] = parent[v] \/ half[v] = parent[parent[v]]
        /\ half = [v \in N |-> half[v]]
    BY <1>1 DEF Halve
  <1> HIDE DEF half
  <1>3. half \in [N -> N]
    BY <1>1, <1>2
  <1>4. ASSUME NEW v \in N, parent[v] # v
        PROVE  half[v] # v /\ rank[v] < rank[half[v]]
    <2>1. rank[v] < rank[parent[v]]
      BY <1>1, <1>4
    <2>2. parent[parent[v]] # parent[v] => rank[parent[v]] < rank[parent[parent[v]]]
      BY <1>1
    <2>3. rank[v] \in Nat /\ rank[parent[v]] \in Nat /\ rank[parent[parent[v]]] \in Nat
      BY <1>1
    <2>4. rank[v] < rank[half[v]]
      BY <1>2, <2>1, <2>2, <2>3
    <2> QED
      BY <2>3, <2>4
  <1>5. ASSUME NEW v \in N, parent[v] = v PROVE half[v] = v
    BY <1>2, <1>5
  <1>6. \A v \in N : root[half[v]] = root[v]
    BY <1>1, <1>2
  <1>7. Ranked(half, rank, top, N)
    BY <1>1, <1>3, <1>4, <1>5 DEF Ranked
  <1>8. Leads(half, root)
    BY <1>1, <1>2, <1>4, <1>5, <1>6 DEF Leads
  <1>9. \A v \in N : half[root[v]] = root[v]
    BY <1>1, <1>5
  <1> QED
    BY <1>1, <1>7, <1>8, <1>9 DEF half, Rooted

\* The parts of u and v have become one.
JoinsParts(root, root2, u, v, N) ==
  \A x, y \in N : root2[x] = root2[y] <=>
    \/ root[x] = root[y]
    \/ root[x] = u /\ root[y] = v
    \/ root[x] = v /\ root[y] = u

\* Only v's rank changes, and it is larger than u's.
Raises(rank, rank2, u, v, N) ==
  /\ \A x \in N \ {v} : rank2[x] = rank[x]
  /\ rank[v] <= rank2[v]
  /\ rank[u] < rank2[v]

\* Hanging root u under root v joins the two parts, if v's rank is larger then.
LEMMA Linking ==
  ASSUME NEW N, NEW parent, NEW rank, NEW root, NEW top \in Nat,
         Rooted(parent, rank, root, top, N),
         NEW u \in N, NEW v \in N, u # v, root[u] = u, root[v] = v,
         NEW rank2 \in [N -> 0 .. top + 1], Raises(rank, rank2, u, v, N)
  PROVE  \E root2 :
           /\ Rooted([parent EXCEPT ![u] = v], rank2, root2, top + 1, N)
           /\ JoinsParts(root, root2, u, v, N)
  <1> DEFINE parent2 == [parent EXCEPT ![u] = v]
             root2 == [x \in N |-> IF root[x] = u THEN v ELSE root[x]]
  <1>1. /\ DOMAIN parent = N
        /\ \A x \in N : parent[x] \in N /\ rank[x] \in 0 .. top
        /\ \A x \in N : parent[x] # x => rank[x] < rank[parent[x]]
        /\ root \in [N -> N]
        /\ \A x \in N : parent[root[x]] = root[x]
        /\ \A x \in N : root[x] = IF parent[x] = x THEN x ELSE root[parent[x]]
    BY DEF Rooted, Ranked, Leads
  <1>2. /\ DOMAIN parent2 = N /\ parent2 \in [N -> N] /\ parent2[u] = v
        /\ \A x \in N \ {u} : parent2[x] = parent[x]
        /\ parent[u] = u /\ parent[v] = v
    BY <1>1 DEF Rooted, Ranked
  <1>3. root2 \in [N -> N] /\ root2[u] = v /\ root2[v] = v
    BY <1>1
  <1>4. \A x \in N : root2[x] = IF root[x] = u THEN v ELSE root[x]
    OBVIOUS
  <1> HIDE DEF parent2, root2
  <1>6. Ranked(parent2, rank2, top + 1, N)
    <2> SUFFICES ASSUME NEW x \in N, parent2[x] # x
                 PROVE  rank2[x] < rank2[parent2[x]]
      BY <1>2 DEF Ranked
    <2>1. CASE x = u
      BY <1>1, <1>2, <2>1 DEF Raises
    <2>2. CASE x # u
      <3>1. parent2[x] = parent[x] /\ x # v /\ parent[x] \in N
        BY <1>1, <1>2, <2>2
      <3>2. rank2[x] = rank[x] /\ rank[x] < rank[parent[x]]
        BY <1>1, <3>1, <2>2 DEF Raises
      <3>3. rank[parent[x]] <= rank2[parent[x]]
        BY <1>1, <3>1 DEF Raises
      <3>4. rank[x] \in Nat /\ rank[parent[x]] \in Nat /\ rank2[parent[x]] \in Nat
        BY <1>1, <3>1
      <3> QED
        BY <3>1, <3>2, <3>3, <3>4
    <2> QED
      BY <2>1, <2>2
  <1>7. Leads(parent2, root2)
    <2> SUFFICES ASSUME NEW x \in N
                 PROVE  root2[x] = IF parent2[x] = x THEN x ELSE root2[parent2[x]]
      BY <1>2 DEF Leads
    <2>1. CASE x = u
      BY <1>2, <1>3, <2>1
    <2>2. CASE x # u /\ parent[x] = x
      BY <1>1, <1>2, <1>4, <2>2
    <2>3. CASE x # u /\ parent[x] # x
      BY <1>1, <1>2, <1>4, <2>3
    <2> QED
      BY <2>1, <2>2, <2>3
  <1>8. \A x \in N : parent2[root2[x]] = root2[x]
    BY <1>1, <1>2, <1>4
  <1>9. JoinsParts(root, root2, u, v, N)
    BY <1>4 DEF JoinsParts
  <1> QED
    BY <1>3, <1>6, <1>7, <1>8, <1>9 DEF parent2, Rooted

\* union() by rank: the root of the smaller rank is hung under the other.
LEMMA LinkByRank ==
  ASSUME NEW N, NEW parent, NEW rank, NEW root, NEW top \in Nat,
         Rooted(parent, rank, root, top, N),
         NEW u \in N, NEW v \in N, u # v, root[u] = u, root[v] = v,
         NEW parent2, parent2 = IF rank[u] < rank[v] THEN [parent EXCEPT ![u] = v]
                                                     ELSE [parent EXCEPT ![v] = u],
         NEW rank2, rank2 = IF rank[u] = rank[v] THEN [rank EXCEPT ![u] = @ + 1]
                                                 ELSE rank
  PROVE  \E root2 : /\ Rooted(parent2, rank2, root2, top + 1, N)
                    /\ JoinsParts(root, root2, u, v, N)
  <1>1. rank \in [N -> 0 .. top] /\ rank[u] \in 0 .. top /\ rank[v] \in 0 .. top
    BY DEF Rooted, Ranked
  <1>2. /\ rank2 \in [N -> 0 .. top + 1]
        /\ \A x \in N \ {u} : rank2[x] = rank[x]
        /\ rank2[u] = IF rank[u] = rank[v] THEN rank[u] + 1 ELSE rank[u]
    BY <1>1
  <1>3. CASE rank[u] < rank[v]
    <2>1. rank2 = rank
      BY <1>1, <1>3
    <2>2. Raises(rank, rank2, u, v, N)
      BY <1>1, <1>3, <2>1 DEF Raises
    <2>3. \E root2 : /\ Rooted([parent EXCEPT ![u] = v], rank2, root2, top + 1, N)
                     /\ JoinsParts(root, root2, u, v, N)
      BY <1>2, <2>2, Linking
    <2> QED
      BY <1>3, <2>3
  <1>4. CASE ~ (rank[u] < rank[v])
    <2>1. Raises(rank, rank2, v, u, N)
      BY <1>1, <1>2, <1>4 DEF Raises
    <2>2. PICK root2 : /\ Rooted([parent EXCEPT ![v] = u], rank2, root2, top + 1, N)
                       /\ JoinsParts(root, root2, v, u, N)
      BY <1>2, <2>1, Linking
    <2>3. JoinsParts(root, root2, u, v, N)
      BY <2>2 DEF JoinsParts
    <2> QED
      BY <1>4, <2>2, <2>3
  <1> QED
    BY <1>3, <1>4

\* The union-find of the switches N after the edges D: its roots tell the parts
\* that D connects, and mst is a forest with the same parts.
Joined(uf, root, top, D, N) ==
  /\ uf \in [parent : [N -> N], rank : [N -> 0 .. top], mst : SUBSET D]
  /\ Rooted(uf.parent, uf.rank, root, top, N)
  /\ \A v, w \in N : root[v] = root[w] <=> w \in ConnectedTo(D, v)
  /\ IsForest(uf.mst)
  /\ \A v, w \in N : w \in ConnectedTo(uf.mst, v) <=> w \in ConnectedTo(D, v)

\* union() of the ends of e turns a union-find of D into one of D and e.
LEMMA UnionJoins ==
  ASSUME NEW N, NEW D, NEW uf, NEW root, NEW top \in Nat,
         Joined(uf, root, top, D, N),
         NEW e, e[1] \in N, e[2] \in N
  PROVE  \E r : \E k \in Nat : Joined(Union(uf, e), r, k, D \cup {e}, N)
  <1> DEFINE a == e[1]
             b == e[2]
             parent == Halve(Halve(uf.parent, a), b)
             u == root[a]
             v == root[b]
             rank == uf.rank
  <1>1. Rooted(parent, rank, root, top, N)
    <2>1. Rooted(uf.parent, rank, root, top, N)
      BY DEF Joined
    <2>2. Rooted(Halve(uf.parent, a), rank, root, top, N)
      BY <2>1, HalveKeeps
    <2> QED
      BY <2>2, HalveKeeps
  <1>2. /\ parent \in [N -> N] /\ rank \in [N -> 0 .. top] /\ root \in [N -> N]
        /\ u \in N /\ v \in N
        /\ Root(parent, a) = u /\ Root(parent, b) = v
    BY <1>1, RootIsReached DEF Rooted, Ranked
  <1>3. root[u] = u /\ root[v] = v
    BY <1>1, <1>2 DEF Rooted, Leads
  <1>4. \A x, y \in N : root[x] = root[y] <=> y \in ConnectedTo(D, x)
    BY DEF Joined
  <1>5. /\ \A x, y \in N : y \in ConnectedTo(uf.mst, x) <=> y \in ConnectedTo(D, x)
        /\ IsForest(uf.mst) /\ uf.mst \subseteq D
    BY DEF Joined
  <1>6. \A x, y \in N : y \in ConnectedTo(D \cup {e}, x) <=>
           \/ root[x] = root[y]
           \/ root[x] = u /\ root[y] = v
           \/ root[x] = v /\ root[y] = u
    BY <1>4, OneMoreEdge
  <1>7. uf \in [parent : [N -> N], rank : [N -> 0 .. top], mst : SUBSET D]
    BY DEF Joined
  <1> HIDE DEF parent
  <1>8. CASE u = v
    <2> DEFINE uf2 == [uf EXCEPT !.parent = parent]
    <2>1. Union(uf, e) = uf2
      BY <1>2, <1>8 DEF Union, parent
    <2>2. /\ uf2 \in [parent : [N -> N], rank : [N -> 0 .. top], mst : SUBSET (D \cup {e})]
          /\ uf2.parent = parent /\ uf2.rank = rank /\ uf2.mst = uf.mst
      BY <1>2, <1>7
    <2>3. \A x, y \in N : y \in ConnectedTo(D \cup {e}, x) <=> root[x] = root[y]
      BY <1>6, <1>8
    <2> HIDE DEF uf2, rank
    <2>4. Joined(uf2, root, top, D \cup {e}, N)
      BY <1>1, <1>4, <1>5, <2>2, <2>3 DEF Joined
    <2> QED
      BY <2>1, <2>4
  <1>9. CASE u # v
    <2> DEFINE parent2 == IF rank[u] < rank[v] THEN [parent EXCEPT ![u] = v]
                                               ELSE [parent EXCEPT ![v] = u]
               rank2 == IF rank[u] = rank[v] THEN [rank EXCEPT ![u] = @ + 1] ELSE rank
               uf2 == [parent |-> parent2, rank |-> rank2, mst |-> uf.mst \cup {e}]
    <2>1. Union(uf, e) = uf2
      BY <1>2, <1>9 DEF Union, parent
    <2>2. PICK root2 : /\ Rooted(parent2, rank2, root2, top + 1, N)
                       /\ JoinsParts(root, root2, u, v, N)
      <3>1. /\ parent2 = IF rank[u] < rank[v] THEN [parent EXCEPT ![u] = v]
                                              ELSE [parent EXCEPT ![v] = u]
            /\ rank2 = IF rank[u] = rank[v] THEN [rank EXCEPT ![u] = @ + 1] ELSE rank
        OBVIOUS
      <3> HIDE DEF u, v, rank, parent2, rank2
      <3> QED
        BY <1>1, <1>2, <1>3, <1>9, <3>1, LinkByRank
    <2>3. b \notin ConnectedTo(uf.mst, a)
      BY <1>4, <1>5, <1>9
    <2>4. IsForest(uf.mst \cup {e})
      BY <1>5, <2>3, ForestGrows
    <2>5. \A x, y \in N : y \in ConnectedTo(uf.mst \cup {e}, x) <=>
             \/ root[x] = root[y]
             \/ root[x] = u /\ root[y] = v
             \/ root[x] = v /\ root[y] = u
      <3> SUFFICES ASSUME NEW x \in N, NEW y \in N
                   PROVE  y \in ConnectedTo(uf.mst \cup {e}, x) <=>
                            \/ root[x] = root[y]
                            \/ root[x] = u /\ root[y] = v
                            \/ root[x] = v /\ root[y] = u
        OBVIOUS
      <3>1. y \in ConnectedTo(uf.mst \cup {e}, x) <=>
              \/ y \in ConnectedTo(uf.mst, x)
              \/ a \in ConnectedTo(uf.mst, x) /\ y \in ConnectedTo(uf.mst, b)
              \/ b \in ConnectedTo(uf.mst, x) /\ y \in ConnectedTo(uf.mst, a)
        BY OneMoreEdge
      <3> QED
        BY <1>4, <1>5, <3>1
    <2>6. /\ uf2 \in [parent : [N -> N], rank : [N -> 0 .. top + 1], mst : SUBSET (D \cup {e})]
          /\ uf2.parent = parent2 /\ uf2.rank = rank2 /\ uf2.mst = uf.mst \cup {e}
      <3> HIDE DEF parent2, rank2
      <3> QED
        BY <1>5, <2>2 DEF Rooted, Ranked
    <2> HIDE DEF uf2, parent2, rank2, u, v, rank
    <2>7. \A x, y \in N : root2[x] = root2[y] <=> y \in ConnectedTo(D \cup {e}, x)
      BY <1>6, <2>2 DEF JoinsParts
    <2>8. \A x, y \in N : y \in ConnectedTo(uf.mst \cup {e}, x)
                            <=> y \in ConnectedTo(D \cup {e}, x)
      BY <1>6, <2>5
    <2>9. Joined(uf2, root2, top + 1, D \cup {e}, N)
      BY <2>2, <2>4, <2>6, <2>7, <2>8 DEF Joined
    <2> QED
      BY <2>1, <2>9
  <1> QED
    BY <1>8, <1>9

-----------------------------------------------------------------------------
(* compute_mst() *)

\* Removing a member makes a finite set smaller by one.
LEMMA OneLess ==
  ASSUME NEW T, IsFiniteSet(T), NEW x \in T
  PROVE  /\ IsFiniteSet(T \ {x})
         /\ Cardinality(T) \in Nat /\ Cardinality(T \ {x}) \in Nat
         /\ Cardinality(T \ {x}) = Cardinality(T) - 1
  BY FS_RemoveElement, FS_CardinalityType

\* The order of edges.sort().
Before(d, e) == d[1] < e[1] \/ (d[1] = e[1] /\ d[2] <= e[2])

\* It is a total order of the edges.
LEMMA SortingOrder ==
  ASSUME NEW a \in Nat \X Nat, NEW b \in Nat \X Nat, NEW c \in Nat \X Nat
  PROVE  /\ Before(a, a)
         /\ Before(a, b) \/ Before(b, a)
         /\ Before(a, b) /\ Before(b, c) => Before(a, c)
  <1>1. /\ a[1] \in Nat /\ b[1] \in Nat /\ c[1] \in Nat
        /\ a[2] \in Nat /\ b[2] \in Nat /\ c[2] \in Nat
    OBVIOUS
  <1> QED
    BY <1>1 DEF Before

\* Finitely many pairs have a last one.
LEMMA LastIsEdge ==
  ASSUME NEW E \in SUBSET (Nat \X Nat), IsFiniteSet(E), E # {}
  PROVE  Last(E) \in E
  <1> DEFINE HasLast(S) == \E e \in S : \A d \in S : Before(d, e)
             Bad == {S \in SUBSET E : S # {} /\ ~ HasLast(S)}
             Sizes == {n \in Nat : \E S \in Bad : n = Cardinality(S)}
  <1>1. ASSUME NEW S \in SUBSET E PROVE IsFiniteSet(S) /\ Cardinality(S) \in Nat
    BY FS_Subset, FS_CardinalityType
  <1>2. HasLast(E)
    <2> SUFFICES ASSUME ~ HasLast(E) PROVE FALSE
      OBVIOUS
    <2>1. E \in Bad
      OBVIOUS
    <2>2. Sizes \in SUBSET Nat /\ Sizes # {}
      <3> HIDE DEF Bad
      <3> QED
        BY <1>1, <2>1
    <2>3. PICK n \in Sizes : \A m \in Sizes : n <= m
      <3> HIDE DEF Sizes
      <3> QED
        BY <2>2, LeastElement
    <2>4. PICK S \in Bad : n = Cardinality(S)
      BY <2>3
    <2>5. PICK x \in S : TRUE
      OBVIOUS
    <2>6. S \in SUBSET E /\ IsFiniteSet(S)
      BY <1>1
    <2>7. /\ Cardinality(S \ {x}) \in Nat /\ Cardinality(S) \in Nat
          /\ Cardinality(S \ {x}) = Cardinality(S) - 1
      BY <2>6, OneLess
    <2>8. ~ (n <= Cardinality(S \ {x}))
      BY <2>4, <2>7
    <2>9. S \ {x} \notin Bad
      <3> HIDE DEF Bad
      <3> QED
        BY <2>3, <2>7, <2>8
    <2>10. CASE S \ {x} = {}
      <3>1. S = {x} /\ x \in Nat \X Nat
        BY <2>5, <2>6, <2>10
      <3>2. Before(x, x)
        BY <3>1, SortingOrder
      <3>3. HasLast(S)
        BY <3>1, <3>2
      <3> QED
        BY <3>3
    <2>11. CASE S \ {x} # {}
      <3>1. PICK e \in S \ {x} : \A d \in S \ {x} : Before(d, e)
        BY <2>6, <2>9, <2>11
      <3>2. S \subseteq Nat \X Nat
        BY <2>6
      <3>3. Before(x, e) \/ Before(e, x)
        BY <3>2, <2>5, SortingOrder
      <3>4. Before(x, x)
        BY <3>2, <2>5, SortingOrder
      <3>5. \A a, b, c \in S : Before(a, b) /\ Before(b, c) => Before(a, c)
        BY <3>2, SortingOrder
      <3>6. HasLast(S)
        <4>1. CASE Before(x, e)
          BY <3>1, <4>1
        <4>2. CASE Before(e, x)
          <5>1. \A d \in S : Before(d, x)
            BY <2>5, <3>1, <3>4, <3>5, <4>2
          <5> QED
            BY <2>5, <5>1
        <4> QED
          BY <3>3, <4>1, <4>2
      <3> QED
        BY <3>6
    <2> QED
      BY <2>10, <2>11
  <1> QED
    BY <1>2 DEF Last, Before

\* What the loop over the sorted edges has built from the first of them, s.
Start(E) == [parent |-> [v \in Nodes(E) |-> v], rank |-> [v \in Nodes(E) |-> 0],
             mst |-> {}]
Turn(E, f, s) ==
  IF s = {} THEN Start(E) ELSE Union(f[s \ {Last(s)}], Last(s))

\* The loop ends: there is a function that gives its result for every s.
LEMMA LoopEnds ==
  ASSUME NEW E \in SUBSET (Nat \X Nat), IsFiniteSet(E)
  PROVE  \E f : f = [s \in SUBSET E |-> Turn(E, f, s)]
  <1> DEFINE Small(k) == {s \in SUBSET E : Cardinality(s) <= k}
             Ends(k) == \E f : f = [s \in Small(k) |-> Turn(E, f, s)]
             Bad == {k \in Nat : ~ Ends(k)}
  <1>1. ASSUME NEW s \in SUBSET E
        PROVE  IsFiniteSet(s) /\ Cardinality(s) \in Nat /\ (Cardinality(s) = 0 <=> s = {})
    BY FS_Subset, FS_CardinalityType, FS_EmptySet
  <1>2. ASSUME NEW s \in SUBSET E, s # {}
        PROVE  /\ s \ {Last(s)} \in SUBSET E
               /\ Cardinality(s \ {Last(s)}) = Cardinality(s) - 1
    <2>1. Last(s) \in s
      BY <1>1, <1>2, LastIsEdge
    <2> QED
      BY <1>1, <2>1, OneLess
  <1>3. Bad = {}
    <2> SUFFICES ASSUME Bad # {} PROVE FALSE
      OBVIOUS
    <2>1. PICK k \in Bad : \A j \in Bad : k <= j
      <3>1. Bad \in SUBSET Nat
        OBVIOUS
      <3> HIDE DEF Bad
      <3> QED
        BY <3>1, LeastElement
    <2>2. k \in Nat /\ ~ Ends(k)
      OBVIOUS
    <2>3. CASE k = 0
      <3>1. Small(k) = {{}}
        BY <1>1, <2>3, FS_EmptySet
      <3> DEFINE f == [s \in Small(k) |-> Start(E)]
      <3>2. f = [s \in Small(k) |-> Turn(E, f, s)]
        BY <3>1 DEF Turn
      <3> QED
        BY <2>2, <3>2
    <2>4. CASE k # 0
      <3>1. k - 1 \in Nat /\ ~ (k <= k - 1)
        BY <2>2, <2>4
      <3>2. k - 1 \notin Bad
        <4> HIDE DEF Bad
        <4> QED
          BY <2>1, <3>1
      <3>3. PICK g : g = [s \in Small(k - 1) |-> Turn(E, g, s)]
        BY <3>1, <3>2
      <3> DEFINE f == [s \in Small(k) |-> Turn(E, g, s)]
      <3>4. ASSUME NEW s \in Small(k - 1) PROVE s \in Small(k) /\ f[s] = g[s]
        <4>1. Cardinality(s) \in Nat /\ Cardinality(s) <= k - 1
          BY <1>1
        <4>2. s \in Small(k)
          BY <2>2, <4>1
        <4>3. g[s] = Turn(E, g, s)
          <5> HIDE DEF Small
          <5> QED
            BY <3>3
        <4>4. f[s] = Turn(E, g, s)
          BY <4>2
        <4> QED
          BY <4>2, <4>3, <4>4
      <3>5. ASSUME NEW s \in Small(k) PROVE Turn(E, f, s) = Turn(E, g, s)
        <4>1. CASE s = {}
          BY <4>1 DEF Turn
        <4>2. CASE s # {}
          <5>1. s \ {Last(s)} \in Small(k - 1)
            <6>1. Cardinality(s) \in Nat /\ Cardinality(s) <= k
              BY <1>1
            <6> QED
              BY <1>2, <2>2, <4>2, <6>1
          <5>2. f[s \ {Last(s)}] = g[s \ {Last(s)}]
            <6> HIDE DEF f, Small
            <6> QED
              BY <3>4, <5>1
          <5> HIDE DEF f
          <5> QED
            BY <4>2, <5>2 DEF Turn
        <4> QED
          BY <4>1, <4>2
      <3>6. f = [s \in Small(k) |-> Turn(E, f, s)]
        <4> DEFINE h == [s \in Small(k) |-> Turn(E, f, s)]
        <4>1. DOMAIN f = DOMAIN h /\ \A s \in Small(k) : f[s] = h[s]
          BY <3>5
        <4>2. f = [s \in Small(k) |-> f[s]] /\ h = [s \in Small(k) |-> h[s]]
          OBVIOUS
        <4> HIDE DEF f, h, Small
        <4>3. f = h
          BY <4>1, <4>2
        <4> QED
          BY <4>3 DEF h
      <3> HIDE DEF f
      <3> QED
        BY <2>2, <3>6
    <2> QED
      BY <2>3, <2>4
  <1>4. Cardinality(E) \in Nat
    BY <1>1
  <1>5. PICK f : f = [s \in Small(Cardinality(E)) |-> Turn(E, f, s)]
    BY <1>3, <1>4
  <1>6. Small(Cardinality(E)) = SUBSET E
    BY FS_Subset
  <1> QED
    BY <1>5, <1>6

\* The loop over the edges E builds a union-find of them.
LEMMA LoopJoins ==
  ASSUME NEW E \in SUBSET (Nat \X Nat), IsFiniteSet(E),
         NEW f, f = [s \in SUBSET E |-> Turn(E, f, s)]
  PROVE  \E r : \E k \in Nat : Joined(f[E], r, k, E, Nodes(E))
  <1> DEFINE N == Nodes(E)
             Good(s) == \E r : \E k \in Nat : Joined(f[s], r, k, s, N)
             Bad == {s \in SUBSET E : ~ Good(s)}
             Sizes == {n \in Nat : \E s \in Bad : n = Cardinality(s)}
  <1>1. ASSUME NEW s \in SUBSET E PROVE IsFiniteSet(s) /\ Cardinality(s) \in Nat
    BY FS_Subset, FS_CardinalityType
  <1>2. \A e \in E : e[1] \in N /\ e[2] \in N
    BY DEF Nodes
  <1>3. \A s \in SUBSET E : f[s] = Turn(E, f, s)
    OBVIOUS
  <1>4. Good({})
    <2> DEFINE uf == Start(E)
               root == [v \in N |-> v]
    <2>1. f[{}] = uf
      BY <1>3 DEF Turn
    <2>2. /\ uf \in [parent : [N -> N], rank : [N -> 0 .. 0], mst : SUBSET {}]
          /\ uf.parent = root /\ uf.mst = {}
      BY DEF Start
    <2>3. \A v, w : w \in ConnectedTo({}, v) <=> w = v
      BY DEF ConnectedTo, Nodes
    <2>4. IsForest({})
      BY DEF IsForest
    <2>5. Rooted(uf.parent, uf.rank, root, 0, N)
      BY <2>2 DEF Rooted, Ranked, Leads
    <2>6. \A v, w \in N : root[v] = root[w] <=> w \in ConnectedTo({}, v)
      BY <2>3
    <2> HIDE DEF uf, root
    <2>7. Joined(uf, root, 0, {}, N)
      BY <2>2, <2>4, <2>5, <2>6 DEF Joined
    <2> QED
      BY <2>1, <2>7
  <1>5. Bad = {}
    <2> SUFFICES ASSUME Bad # {} PROVE FALSE
      OBVIOUS
    <2>1. Sizes \in SUBSET Nat /\ Sizes # {}
      BY <1>1
    <2>2. PICK n \in Sizes : \A m \in Sizes : n <= m
      <3> HIDE DEF Sizes
      <3> QED
        BY <2>1, LeastElement
    <2>3. PICK s \in Bad : n = Cardinality(s)
      BY <2>2
    <2>4. s \in SUBSET E /\ s # {} /\ ~ Good(s)
      <3> HIDE DEF Good
      <3> QED
        BY <1>4
    <2>5. Last(s) \in s
      BY <1>1, <2>4, LastIsEdge
    <2> DEFINE rest == s \ {Last(s)}
    <2>6. /\ Cardinality(rest) \in Nat /\ Cardinality(s) \in Nat
          /\ Cardinality(rest) = Cardinality(s) - 1
      BY <1>1, <2>4, <2>5, OneLess
    <2>7. ~ (n <= Cardinality(rest))
      BY <2>3, <2>6
    <2>8. rest \notin Bad
      <3> HIDE DEF Bad, rest
      <3> QED
        BY <2>2, <2>6, <2>7
    <2>9. PICK r : \E k \in Nat : Joined(f[rest], r, k, rest, N)
      BY <2>4, <2>8
    <2>10. PICK k \in Nat : Joined(f[rest], r, k, rest, N)
      BY <2>9
    <2>11. f[s] = Union(f[rest], Last(s))
      BY <1>3, <2>4 DEF Turn
    <2>12. rest \cup {Last(s)} = s
      BY <2>5
    <2>13. Good(s)
      <3>1. Last(s)[1] \in N /\ Last(s)[2] \in N
        BY <1>2, <2>4, <2>5
      <3> HIDE DEF rest, N
      <3> QED
        <4>1. \E r2 : \E k2 \in Nat :
                Joined(Union(f[rest], Last(s)), r2, k2, rest \cup {Last(s)}, N)
          BY <2>10, <3>1, UnionJoins
        <4> QED
          BY <2>11, <2>12, <4>1
    <2> QED
      BY <2>4, <2>13
  <1> QED
    BY <1>5

\* compute_mst() is right: for any finite set of links the tree it returns
\* consists of known links, has no cycle, and connects the same switches.
THEOREM TreeIsRight ==
  ASSUME NEW l \in SUBSET (Nat \X Nat), IsFiniteSet(l)
  PROVE  /\ ComputeMst(l) \subseteq Edges(l)
         /\ IsForest(ComputeMst(l))
         /\ SameParts(ComputeMst(l), Edges(l))
  <1> DEFINE E == Edges(l)
             f == CHOOSE iter : iter = [s \in SUBSET E |-> Turn(E, iter, s)]
  <1>1. E \in SUBSET (Nat \X Nat)
    BY DEF Edges
  <1>2. IsFiniteSet(E)
    <2> DEFINE edge == [x \in l |-> <<IF x[1] < x[2] THEN x[1] ELSE x[2],
                                      IF x[1] < x[2] THEN x[2] ELSE x[1]>>]
    <2>1. edge \in [l -> E] /\ \A e \in E : \E x \in l : edge[x] = e
      BY DEF Edges
    <2>2. edge \in Surjection(l, E)
      <3> HIDE DEF edge, E
      <3> QED
        BY <2>1 DEF Surjection
    <2> QED
      BY <2>2, FS_Surjection
  <1>3. f = [s \in SUBSET E |-> Turn(E, f, s)]
    <2> HIDE DEF E
    <2> QED
      BY <1>1, <1>2, LoopEnds
  <1>4. ComputeMst(l) = f[E].mst
    BY DEF ComputeMst, MapThenFoldSet, Turn, Start
  <1> HIDE DEF f, E
  <1>5. PICK r : \E k \in Nat : Joined(f[E], r, k, E, Nodes(E))
    BY <1>1, <1>2, <1>3, LoopJoins
  <1>6. /\ f[E].mst \subseteq E /\ IsForest(f[E].mst)
        /\ \A v, w \in Nodes(E) : w \in ConnectedTo(f[E].mst, v) <=> w \in ConnectedTo(E, v)
    BY <1>5 DEF Joined
  <1>7. Nodes(f[E].mst) \subseteq Nodes(E)
    BY <1>6 DEF Nodes
  <1>8. SameParts(f[E].mst, E)
    <2> SUFFICES ASSUME NEW s \in Nodes(E)
                 PROVE  ConnectedTo(f[E].mst, s) = ConnectedTo(E, s)
      BY <1>7 DEF SameParts
    <2>1. ConnectedTo(f[E].mst, s) \subseteq Nodes(E) /\ ConnectedTo(E, s) \subseteq Nodes(E)
      BY <1>7, PartIsClosed
    <2> QED
      BY <1>6, <2>1
  <1> QED
    BY <1>4, <1>6, <1>8 DEF E

-----------------------------------------------------------------------------
(* Bags of copies *)

\* What sending and receiving do to the copies on the wires.
LEMMA BagFacts ==
  ASSUME NEW B, NEW x, NEW S
  PROVE  /\ DOMAIN (B (-) SetToBag({x})) \subseteq DOMAIN B
         /\ DOMAIN (B (+) SetToBag(S)) = DOMAIN B \cup S
         /\ (\A y \in DOMAIN B : B[y] = 1) =>
              /\ DOMAIN (B (-) SetToBag({x})) = DOMAIN B \ {x}
              /\ \A y \in DOMAIN B \ {x} : (B (-) SetToBag({x}))[y] = 1
              /\ S \cap DOMAIN B = {} =>
                   \A y \in DOMAIN B \cup S : (B (+) SetToBag(S))[y] = 1
  <1>1. \A T : DOMAIN SetToBag(T) = T /\ \A y \in T : SetToBag(T)[y] = 1
    BY DEF SetToBag
  <1>2. /\ DOMAIN (B (+) SetToBag(S)) = DOMAIN B \cup S
        /\ \A y \in DOMAIN B \cup S :
             (B (+) SetToBag(S))[y] = (IF y \in DOMAIN B THEN B[y] ELSE 0)
                                        + (IF y \in S THEN 1 ELSE 0)
    BY <1>1 DEF (+)
  <1> DEFINE C == [y \in DOMAIN B |-> IF y \in {x} THEN B[y] - 1 ELSE B[y]]
  <1>3. B (-) SetToBag({x}) = [y \in {z \in DOMAIN C : C[z] > 0} |-> C[y]]
    BY <1>1 DEF (-)
  <1>4. DOMAIN (B (-) SetToBag({x})) \subseteq DOMAIN B
    BY <1>3
  <1>5. ASSUME \A y \in DOMAIN B : B[y] = 1
        PROVE  /\ DOMAIN (B (-) SetToBag({x})) = DOMAIN B \ {x}
               /\ \A y \in DOMAIN B \ {x} : (B (-) SetToBag({x}))[y] = 1
    <2>1. \A y \in DOMAIN B : C[y] = IF y = x THEN 0 ELSE 1
      BY <1>5
    <2> HIDE DEF C
    <2>2. DOMAIN C = DOMAIN B
      BY DEF C
    <2> QED
      BY <1>3, <2>1, <2>2
  <1>6. ASSUME \A y \in DOMAIN B : B[y] = 1, S \cap DOMAIN B = {}
        PROVE  \A y \in DOMAIN B \cup S : (B (+) SetToBag(S))[y] = 1
    BY <1>2, <1>6
  <1> QED
    BY <1>2, <1>4, <1>5, <1>6

\* Copies that are not on the wires yet are put there once.
LEMMA NewCopies ==
  ASSUME NEW B, NEW S, NEW C, C = B (+) SetToBag(S), S \cap DOMAIN B = {},
         \A y \in DOMAIN B : B[y] = 1
  PROVE  DOMAIN C = DOMAIN B \cup S /\ \A y \in DOMAIN B \cup S : C[y] = 1
  <1>1. DOMAIN SetToBag(S) = S /\ \A y \in S : SetToBag(S)[y] = 1
    BY DEF SetToBag
  <1> QED
    BY <1>1 DEF (+)

-----------------------------------------------------------------------------
(* The event queue *)

Frames == [src : Hosts, dst : Hosts \cup {Broadcast}]
Copies == [frame : Nat, at : Switches, port : Switches \cup Hosts]
Events == {TopologyEvent} \cup {PacketInEvent(c) : c \in Copies}

\* The two kinds of events.
LEMMA EventKinds ==
  /\ TopologyEvent \in Events /\ TopologyEvent.type = "topology"
  /\ \A c \in Copies : PacketInEvent(c) \in Events /\ PacketInEvent(c).copy = c
                         /\ PacketInEvent(c).type = "packet_in"
  /\ \A e \in Events : \/ e = TopologyEvent /\ e.type = "topology"
                       \/ /\ e.type = "packet_in"
                          /\ e.copy \in Copies
                          /\ e = PacketInEvent(e.copy)
  <1>1. TopologyEvent \in Events /\ TopologyEvent.type = "topology"
    BY DEF Events, TopologyEvent
  <1>2. \A c \in Copies : PacketInEvent(c) \in Events /\ PacketInEvent(c).copy = c
                            /\ PacketInEvent(c).type = "packet_in"
    BY DEF Events, PacketInEvent
  <1>3. ASSUME NEW e \in Events, e # TopologyEvent
        PROVE  e.type = "packet_in" /\ e.copy \in Copies /\ e = PacketInEvent(e.copy)
    <2>1. PICK c \in Copies : e = PacketInEvent(c)
      BY <1>3 DEF Events
    <2> QED
      BY <1>2, <2>1
  <1> QED
    BY <1>1, <1>2, <1>3

\* The copies in the packet-in events of q, and that each has one event only.
Queued(q) == {q[i].copy : i \in {j \in DOMAIN q : q[j].type = "packet_in"}}
QueuedOnce(q) ==
  \A i, j \in DOMAIN q :
    q[i].type = "packet_in" /\ q[j].type = "packet_in" /\ q[i].copy = q[j].copy
      => i = j

\* Whether q holds an event of topology discovery.
Expects(q) == TopologyEvent \in {q[i] : i \in DOMAIN q}

\* An event is put on the queue.
LEMMA QueueGrows ==
  ASSUME NEW q \in Seq(Events), NEW e \in Events
  PROVE  /\ Append(q, e) \in Seq(Events)
         /\ Queued(Append(q, e)) =
              Queued(q) \cup (IF e.type = "packet_in" THEN {e.copy} ELSE {})
         /\ QueuedOnce(q) /\ (e.type = "packet_in" => e.copy \notin Queued(q))
              => QueuedOnce(Append(q, e))
         /\ Expects(Append(q, e)) <=> Expects(q) \/ e = TopologyEvent
  <1> DEFINE r == Append(q, e)
             n == Len(q)
  <1>1. /\ n \in Nat /\ DOMAIN q = 1 .. n
        /\ r \in Seq(Events) /\ DOMAIN r = 1 .. n + 1
        /\ \A i \in 1 .. n : r[i] = q[i]
        /\ r[n + 1] = e
    OBVIOUS
  <1> HIDE DEF r, n
  <1>2. DOMAIN r = DOMAIN q \cup {n + 1} /\ n + 1 \notin DOMAIN q
    BY <1>1
  <1>3. Queued(r) = Queued(q) \cup (IF e.type = "packet_in" THEN {e.copy} ELSE {})
    <2>1. ASSUME NEW c PROVE c \in Queued(r) <=>
            c \in Queued(q) \/ (e.type = "packet_in" /\ c = e.copy)
      BY <1>1, <1>2 DEF Queued
    <2> QED
      BY <2>1
  <1>4. ASSUME QueuedOnce(q), e.type = "packet_in" => e.copy \notin Queued(q)
        PROVE  QueuedOnce(r)
    BY <1>1, <1>2, <1>4 DEF QueuedOnce, Queued
  <1>5. Expects(r) <=> Expects(q) \/ e = TopologyEvent
    BY <1>1, <1>2 DEF Expects
  <1> QED
    BY <1>1, <1>3, <1>4, <1>5 DEF r

\* The next event is taken off the queue.
LEMMA QueueShrinks ==
  ASSUME NEW q \in Seq(Events), q # <<>>
  PROVE  /\ Head(q) \in Events /\ Tail(q) \in Seq(Events)
         /\ Queued(Tail(q)) \subseteq Queued(q)
         /\ Head(q).type = "packet_in" => Head(q).copy \in Queued(q)
         /\ Expects(Tail(q)) => Expects(q)
         /\ Expects(q) /\ Head(q).type = "packet_in" => Expects(Tail(q))
         /\ QueuedOnce(q) =>
              /\ QueuedOnce(Tail(q))
              /\ Queued(Tail(q)) = IF Head(q).type = "packet_in"
                                   THEN Queued(q) \ {Head(q).copy} ELSE Queued(q)
  <1> DEFINE r == Tail(q)
             n == Len(q) - 1
             e == Head(q)
  <1>1. /\ n \in Nat /\ DOMAIN q = 1 .. n + 1
        /\ r \in Seq(Events) /\ DOMAIN r = 1 .. n
        /\ \A i \in 1 .. n : r[i] = q[i + 1]
        /\ q[1] = e /\ e \in Events
    OBVIOUS
  <1>2. \A j \in DOMAIN q : j = 1 \/ (j - 1 \in DOMAIN r /\ q[j] = r[j - 1])
    <2> SUFFICES ASSUME NEW j \in 1 .. n + 1, j # 1
                 PROVE  j - 1 \in 1 .. n /\ (j - 1) + 1 = j
      BY <1>1
    <2> QED
      BY <1>1
  <1>3. \A i \in DOMAIN r : i + 1 \in DOMAIN q /\ i + 1 # 1 /\ q[i + 1] = r[i]
    BY <1>1
  <1>4. 1 \in DOMAIN q
    BY <1>1
  <1>5. \A i, j \in DOMAIN r : i + 1 = j + 1 => i = j
    BY <1>1
  <1> HIDE DEF r, n, e
  <1>6. Queued(r) \subseteq Queued(q) /\ (e.type = "packet_in" => e.copy \in Queued(q))
    BY <1>1, <1>3, <1>4 DEF Queued
  <1>7. (Expects(r) => Expects(q)) /\ (Expects(q) /\ e.type = "packet_in" => Expects(r))
    <2>1. TopologyEvent.type # "packet_in"
      BY EventKinds
    <2> QED
      BY <1>1, <1>2, <1>3, <2>1 DEF Expects
  <1>8. ASSUME QueuedOnce(q)
        PROVE  /\ QueuedOnce(r)
               /\ Queued(r) = IF e.type = "packet_in" THEN Queued(q) \ {e.copy} ELSE Queued(q)
    <2>1. QueuedOnce(r)
      BY <1>3, <1>5, <1>8 DEF QueuedOnce
    <2>2. ASSUME NEW c, c \in Queued(q), e.type = "packet_in" => c # e.copy
          PROVE  c \in Queued(r)
      BY <1>1, <1>2, <2>2 DEF Queued
    <2>3. ASSUME e.type = "packet_in" PROVE e.copy \notin Queued(r)
      BY <1>1, <1>3, <1>4, <1>8, <2>3 DEF QueuedOnce, Queued
    <2> QED
      BY <1>6, <2>1, <2>2, <2>3
  <1> QED
    BY <1>1, <1>6, <1>7, <1>8 DEF r, e

-----------------------------------------------------------------------------
(* Types *)

\* The copies on the wires or waiting for the controller.
Pending == DOMAIN inFlight \cup Queued(events)

NetInv ==
  /\ app \in Apps /\ wires \in Topologies
  /\ up \subseteq wires /\ links \subseteq BothWays(up) /\ mst \subseteq wires
  /\ faults \in 0 .. MaxFaults

TrafficInv ==
  /\ frames \in Seq(Frames) /\ Len(frames) <= MaxFrames
  /\ events \in Seq(Events)
  /\ received \in [Hosts -> [1 .. MaxFrames -> Nat]]
  /\ \A c \in Pending :
       c \in Copies /\ c.frame \in DOMAIN frames /\ c.port \in Ports(c.at)

TableInv ==
  /\ DOMAIN learned = Switches /\ DOMAIN rules = Switches
  /\ \A s \in Switches :
       /\ DOMAIN learned[s] \subseteq Hosts
       /\ \A h \in DOMAIN learned[s] : learned[s][h] \in Ports(s)
       /\ \A r \in rules[s] : r.out \in Ports(s) \cup {FLOOD}

TypeInv == NetInv /\ TrafficInv /\ TableInv

\* TypeInv says what TypeOK does, and more.
LEMMA TypeInvTypes == TypeInv => TypeOK
  <1> SUFFICES ASSUME TypeInv PROVE TypeOK
    OBVIOUS
  <1>1. /\ up \subseteq wires /\ faults \in 0 .. MaxFaults
        /\ links \subseteq BothWays(up) /\ mst \subseteq wires
    BY DEF TypeInv, NetInv
  <1>2. \A s \in Switches :
          /\ DOMAIN learned[s] \subseteq Hosts
          /\ \A h \in DOMAIN learned[s] : learned[s][h] \in Ports(s)
          /\ \A r \in rules[s] : r.out \in Ports(s) \cup {FLOOD}
    BY DEF TypeInv, TableInv
  <1>3. \A i \in DOMAIN events :
          events[i].type = "packet_in" => events[i].copy.frame \in DOMAIN frames
    BY DEF TypeInv, TrafficInv, Pending, Queued
  <1>4. \A c \in BagToSet(inFlight) : c.port \in Ports(c.at)
    BY DEF TypeInv, TrafficInv, Pending, BagToSet
  <1> QED
    BY <1>1, <1>2, <1>3, <1>4 DEF TypeOK

\* What the wiring is: wires between switches, each named once.
LEMMA WiringFacts ==
  ASSUME NEW W \in Topologies
  PROVE  /\ W \in SUBSET (Switches \X Switches)
         /\ Directed(W)
         /\ \A s, t \in Switches : <<s, t>> \in BothWays(W) <=> Beside(W, s, t)
         /\ \A l \in BothWays(W) : l[1] \in Switches /\ l[2] \in Switches
         /\ IsFiniteSet(BothWays(W)) /\ BothWays(W) \in SUBSET (Nat \X Nat)
  <1>1. \A e \in W : e \in Switches \X Switches /\ e[1] < e[2]
    BY NetworkAssumption
  <1>2. Switches \subseteq Nat /\ IsFiniteSet(Switches)
    BY NetworkAssumption
  <1>3. Directed(W)
    <2>1. ASSUME NEW e \in W PROVE e = <<e[1], e[2]>> /\ <<e[2], e[1]>> \notin W
      <3>1. e \in Switches \X Switches
        BY <1>1
      <3>2. PICK a \in Switches, b \in Switches : e = <<a, b>>
        BY <3>1
      <3>3. a \in Nat /\ b \in Nat
        BY <1>2
      <3>4. a < b
        BY <1>1, <3>2
      <3>5. <<b, a>> \in W => b < a
        BY <1>1
      <3> QED
        BY <3>2, <3>3, <3>4, <3>5
    <2> QED
      BY <2>1 DEF Directed
  <1>4. BothWays(W) \in SUBSET (Switches \X Switches)
    BY <1>1 DEF BothWays
  <1>5. IsFiniteSet(Switches \X Switches)
    BY <1>2, FS_Product
  <1>6. IsFiniteSet(BothWays(W))
    BY <1>4, <1>5, FS_Subset
  <1>7. ASSUME NEW s \in Switches, NEW t \in Switches
        PROVE  <<s, t>> \in BothWays(W) <=> Beside(W, s, t)
    <2>1. \A e \in W : e = <<e[1], e[2]>>
      BY <1>3 DEF Directed
    <2> QED
      BY <2>1 DEF BothWays, Beside
  <1> QED
    BY <1>1, <1>2, <1>3, <1>4, <1>6, <1>7

\* The edges of known links are wires.
LEMMA EdgesOfWires ==
  ASSUME NEW W \in Topologies, NEW l \in SUBSET BothWays(W)
  PROVE  Edges(l) \subseteq W
  <1> SUFFICES ASSUME NEW k \in l
               PROVE  <<IF k[1] < k[2] THEN k[1] ELSE k[2],
                        IF k[1] < k[2] THEN k[2] ELSE k[1]>> \in W
    BY DEF Edges
  <1>1. \A e \in W : e[1] \in Nat /\ e[2] \in Nat /\ e[1] < e[2] /\ e = <<e[1], e[2]>>
    BY NetworkAssumption
  <1>2. PICK e \in W : k = e \/ k = <<e[2], e[1]>>
    BY DEF BothWays
  <1>3. CASE k = e
    BY <1>1, <1>3
  <1>4. CASE k = <<e[2], e[1]>>
    <2>1. k[1] = e[2] /\ k[2] = e[1] /\ ~ (e[2] < e[1])
      BY <1>1, <1>4
    <2> QED
      BY <1>1, <2>1
  <1> QED
    BY <1>2, <1>3, <1>4

\* The tree that compute_mst() makes of known links.
LEMMA TreeOfLinks ==
  ASSUME NetInv
  PROVE  /\ ComputeMst(links) \subseteq wires
         /\ IsForest(ComputeMst(links))
         /\ SameParts(ComputeMst(links), Edges(links))
  <1>1. links \subseteq BothWays(wires) /\ wires \in Topologies
    BY DEF NetInv, BothWays
  <1>2. links \in SUBSET (Nat \X Nat) /\ IsFiniteSet(links)
    BY <1>1, WiringFacts, FS_Subset
  <1>3. Edges(links) \subseteq wires
    BY <1>1, EdgesOfWires
  <1> QED
    BY <1>2, <1>3, TreeIsRight

-----------------------------------------------------------------------------
(* What the actions do *)

\* The ports of a switch: its neighbours', and its hosts'.
LEMMA PortFacts ==
  ASSUME NetInv, NEW s \in Switches
  PROVE  /\ Ports(s) \subseteq Switches \cup Hosts
         /\ \A t \in Switches : t \in Ports(s) <=> Beside(wires, s, t)
         /\ \A t \in Switches : t \in Ports(s) => s \in Ports(t)
         /\ \A h \in Hosts : h \in Ports(s) <=> Attached[h] = s
         /\ OpenPorts(s) \subseteq Ports(s)
         /\ FLOOD \notin Ports(s)
  <1>1. wires \in Topologies /\ mst \subseteq wires
    BY DEF NetInv
  <1>2. Hosts \cap Switches = {} /\ FLOOD \notin Hosts \cup Switches
    BY NetworkAssumption
  <1>3. \A t \in Switches : t \in Ports(s) <=> <<s, t>> \in BothWays(wires)
    BY <1>2 DEF Ports
  <1>4. \A t \in Switches : <<s, t>> \in BothWays(wires) <=> Beside(wires, s, t)
    BY <1>1, WiringFacts
  <1>5. \A t \in Switches : Beside(wires, s, t) => Beside(wires, t, s)
    BY DEF Beside
  <1>6. \A t \in Switches : Beside(wires, t, s) => s \in Ports(t)
    BY <1>1, <1>2, WiringFacts DEF Ports
  <1>7. \A h \in Hosts : h \in Ports(s) <=> Attached[h] = s
    BY <1>2 DEF Ports
  <1>8. Ports(s) \subseteq Switches \cup Hosts
    BY DEF Ports
  <1>9. TreePorts(s) \subseteq Ports(s)
    BY <1>1 DEF TreePorts, Ports, BothWays
  <1> QED
    BY <1>2, <1>3, <1>4, <1>5, <1>6, <1>7, <1>8, <1>9 DEF OpenPorts

\* The copies a switch makes of c when it sends it out of ports outs.
Sent(c, outs) ==
  {Copy(c.frame, t, c.at) :
     t \in {x \in (outs \ {c.port}) \cap Switches : <<c.at, x>> \in BothWays(up)}}

\* What Emit does, in these terms.
Emits(c, outs, rest) ==
  /\ inFlight' = rest (+) SetToBag(Sent(c, outs))
  /\ DOMAIN inFlight' = DOMAIN rest \cup Sent(c, outs)
  /\ received' \in [Hosts -> [1 .. MaxFrames -> Nat]]
  /\ \A h \in Hosts : \A i \in 1 .. MaxFrames :
       received'[h][i] = IF h \in outs \ {c.port} /\ i = c.frame
                         THEN received[h][i] + 1 ELSE received[h][i]
  /\ \A d \in Sent(c, outs) :
       /\ d \in Copies /\ d.frame = c.frame /\ d.port = c.at
       /\ d.at \in (outs \ {c.port}) \cap Switches
       /\ c.at \in Ports(d.at)
       /\ d = Copy(c.frame, d.at, c.at)

\* It does.
LEMMA EmitFacts ==
  ASSUME NetInv, NEW c \in Copies, NEW outs, NEW rest, Emit(c, outs, rest),
         received \in [Hosts -> [1 .. MaxFrames -> Nat]], c.frame \in 1 .. MaxFrames
  PROVE  Emits(c, outs, rest)
  <1>1. inFlight' = rest (+) SetToBag(Sent(c, outs))
    BY DEF Emit, Sent
  <1>2. received' = [h \in Hosts |->
          IF h \in outs \ {c.port} THEN [received[h] EXCEPT ![c.frame] = @ + 1]
          ELSE received[h]]
    BY DEF Emit
  <1>3. c.at \in Switches /\ c.frame \in Nat
    BY DEF Copies
  <1>4. ASSUME NEW d \in Sent(c, outs)
        PROVE  /\ d \in Copies /\ d.frame = c.frame /\ d.port = c.at
               /\ d.at \in (outs \ {c.port}) \cap Switches
               /\ c.at \in Ports(d.at)
               /\ d = Copy(c.frame, d.at, c.at)
    <2>1. PICK t \in (outs \ {c.port}) \cap Switches :
            d = Copy(c.frame, t, c.at) /\ <<c.at, t>> \in BothWays(up)
      BY DEF Sent
    <2>2. d \in Copies /\ d.frame = c.frame /\ d.port = c.at /\ d.at = t
      BY <1>3, <2>1 DEF Copies, Copy
    <2>3. <<c.at, t>> \in BothWays(wires)
      BY <2>1 DEF NetInv, BothWays
    <2>4. t \in Ports(c.at)
      BY <2>3 DEF Ports
    <2> QED
      BY <1>3, <2>1, <2>2, <2>4, PortFacts
  <1>5. ASSUME NEW h \in Hosts
        PROVE  /\ received'[h] \in [1 .. MaxFrames -> Nat]
               /\ \A i \in 1 .. MaxFrames :
                    received'[h][i] = IF h \in outs \ {c.port} /\ i = c.frame
                                      THEN received[h][i] + 1 ELSE received[h][i]
    <2> DEFINE R == received[h]
    <2>1. R \in [1 .. MaxFrames -> Nat]
      OBVIOUS
    <2>2. received'[h] = IF h \in outs \ {c.port} THEN [R EXCEPT ![c.frame] = @ + 1] ELSE R
      BY <1>2
    <2> HIDE DEF R
    <2>3. [R EXCEPT ![c.frame] = @ + 1] \in [1 .. MaxFrames -> Nat]
      BY <2>1
    <2>4. \A i \in 1 .. MaxFrames :
            [R EXCEPT ![c.frame] = @ + 1][i] = IF i = c.frame THEN R[i] + 1 ELSE R[i]
      BY <2>1
    <2>5. /\ received'[h] \in [1 .. MaxFrames -> Nat]
          /\ \A i \in 1 .. MaxFrames :
               received'[h][i] = IF h \in outs \ {c.port} /\ i = c.frame
                                 THEN R[i] + 1 ELSE R[i]
      BY <2>1, <2>2, <2>3, <2>4
    <2> QED
      BY <2>5 DEF R
  <1>6. received' \in [Hosts -> [1 .. MaxFrames -> Nat]]
    BY <1>2, <1>5
  <1> QED
    BY <1>1, <1>4, <1>5, <1>6, BagFacts DEF Emits

\* What a switch learns from c, and nothing else.
LEMMA LearnFacts ==
  ASSUME TableInv, NEW c \in Copies, learned' = Learn(c)
  PROVE  /\ DOMAIN learned' = Switches
         /\ \A s \in Switches : DOMAIN learned'[s] \subseteq
              DOMAIN learned[s] \cup (IF s = c.at THEN {frames[c.frame].src} ELSE {})
         /\ \A s \in Switches : \A a \in DOMAIN learned'[s] :
              \/ s = c.at /\ a = frames[c.frame].src /\ learned'[s][a] = c.port
              \/ a \in DOMAIN learned[s] /\ learned'[s][a] = learned[s][a]
  <1> DEFINE g == [a \in DOMAIN learned[c.at] \cup {frames[c.frame].src} |->
                     IF a = frames[c.frame].src THEN c.port ELSE learned[c.at][a]]
  <1>1. learned' = [learned EXCEPT ![c.at] = g]
    BY DEF Learn
  <1>2. c.at \in Switches /\ DOMAIN learned = Switches
    BY DEF Copies, TableInv
  <1>3. /\ DOMAIN g = DOMAIN learned[c.at] \cup {frames[c.frame].src}
        /\ \A a \in DOMAIN g : g[a] = IF a = frames[c.frame].src THEN c.port
                                      ELSE learned[c.at][a]
    OBVIOUS
  <1> HIDE DEF g
  <1>4. \A s \in Switches : learned'[s] = IF s = c.at THEN g ELSE learned[s]
    BY <1>1, <1>2
  <1> QED
    BY <1>1, <1>2, <1>3, <1>4

\* A rule is added to a switch's.
LEMMA RuleFacts ==
  ASSUME NEW s, NEW r, AddRule(s, r), DOMAIN rules = Switches
  PROVE  /\ DOMAIN rules' = Switches
         /\ \A t \in Switches : \A q \in rules'[t] : q \in rules[t] \/ (t = s /\ q = r)
  BY DEF AddRule

\* What the controllers do with a frame: where they send it, what they learn and
\* what rule they add.
Output(c, outs) ==
  \/ /\ app = "hub"
     /\ outs = Ports(c.at)
     /\ UNCHANGED learned
     /\ \E r : r.out = FLOOD /\ AddRule(c.at, r)
  \/ /\ learned' = Learn(c)
     /\ Knows(c)
     /\ outs = {OutPort(c)}
     /\ \E r : /\ r.out = OutPort(c) /\ r.dst = frames[c.frame].dst
               /\ AddRule(c.at, r)
  \/ /\ app # "hub"
     /\ learned' = Learn(c)
     /\ UNCHANGED rules
     /\ outs = IF app = "learning" THEN Ports(c.at) ELSE OpenPorts(c.at)

\* A packet-in event is handled.
LEMMA PacketInFacts ==
  ASSUME TypeInv, PacketIn
  PROVE  \E c \in Queued(events) : \E outs :
           /\ events # <<>> /\ Head(events).type = "packet_in" /\ c = Head(events).copy
           /\ events' = Tail(events)
           /\ UNCHANGED <<network, mst, frames>>
           /\ Emit(c, outs, inFlight)
           /\ Output(c, outs)
  <1>1. events # <<>> /\ Head(events).type = "packet_in" /\ events' = Tail(events)
        /\ UNCHANGED <<network, mst, frames>>
    BY DEF PacketIn, NextEvent
  <1>2. PICK c : c = Head(events).copy
                 /\ (HubPacketIn(c) \/ LearningPacketIn(c) \/ TreePacketIn(c))
    BY DEF PacketIn
  <1>3. c \in Queued(events)
    BY <1>1, <1>2, QueueShrinks DEF TypeInv, TrafficInv
  <1>4. \E outs : Emit(c, outs, inFlight) /\ Output(c, outs)
    <2>1. CASE HubPacketIn(c)
      <3>1. [in |-> ANY, src |-> ANY, dst |-> frames[c.frame].dst,
             out |-> FLOOD].out = FLOOD
        OBVIOUS
      <3> QED
        BY <2>1, <3>1 DEF HubPacketIn, Output
    <2>2. CASE LearningPacketIn(c) /\ Knows(c)
      <3> DEFINE r == [in |-> c.port, src |-> frames[c.frame].src,
                       dst |-> frames[c.frame].dst, out |-> OutPort(c)]
      <3>1. r.out = OutPort(c) /\ r.dst = frames[c.frame].dst
        OBVIOUS
      <3>2. AddRule(c.at, r) /\ learned' = Learn(c) /\ Emit(c, {OutPort(c)}, inFlight)
        BY <2>2 DEF LearningPacketIn
      <3> HIDE DEF r
      <3> QED
        BY <2>2, <3>1, <3>2 DEF Output
    <2>3. CASE LearningPacketIn(c) /\ ~ Knows(c)
      BY <2>3 DEF LearningPacketIn, Output
    <2>4. CASE TreePacketIn(c) /\ Knows(c)
      <3> DEFINE r == [in |-> ANY, src |-> ANY,
                       dst |-> frames[c.frame].dst, out |-> OutPort(c)]
      <3>1. r.out = OutPort(c) /\ r.dst = frames[c.frame].dst
        OBVIOUS
      <3>2. AddRule(c.at, r) /\ learned' = Learn(c) /\ Emit(c, {OutPort(c)}, inFlight)
        BY <2>4 DEF TreePacketIn
      <3> HIDE DEF r
      <3> QED
        BY <2>4, <3>1, <3>2 DEF Output
    <2>5. CASE TreePacketIn(c) /\ ~ Knows(c)
      BY <2>5 DEF TreePacketIn, ObservesLinks, Output
    <2> QED
      BY <1>2, <2>1, <2>2, <2>3, <2>4, <2>5
  <1> QED
    BY <1>1, <1>2, <1>3, <1>4

-----------------------------------------------------------------------------
(* Type correctness *)

\* The ports of a switch are laid with its wires.
LEMMA PortsStay ==
  ASSUME UNCHANGED wires, NEW s
  PROVE  Ports(s)' = Ports(s)
  BY DEF Ports, BothWays

\* The tables of the switches stay as they are.
LEMMA TablesStay ==
  ASSUME TableInv, UNCHANGED <<wires, learned, rules>>
  PROVE  TableInv'
  BY PortsStay DEF TableInv

\* A network without frames is well typed.
LEMMA InitTypes == Init => TypeInv
  <1> SUFFICES ASSUME Init PROVE TypeInv
    OBVIOUS
  <1>1. NetInv
    <2>1. /\ app \in Apps /\ wires \in Topologies /\ up = wires
          /\ faults = (IF wires \in Changing THEN MaxFaults ELSE 0)
          /\ links = (IF ObservesLinks THEN BothWays(wires) ELSE {})
          /\ mst = IF app = "tree" THEN ComputeMst(links) ELSE {}
      BY DEF Init
    <2>2. faults \in 0 .. MaxFaults
      BY <2>1, NetworkAssumption
    <2>3. links \subseteq BothWays(up)
      BY <2>1
    <2>4. {} \subseteq wires
      OBVIOUS
    <2>5. CASE app # "tree"
      BY <2>1, <2>2, <2>3, <2>4, <2>5 DEF NetInv
    <2>6. CASE app = "tree"
      <3> DEFINE W == BothWays(wires)
      <3>1. links = W
        BY <2>1, <2>6 DEF ObservesLinks
      <3>2. W \in SUBSET (Nat \X Nat) /\ IsFiniteSet(W)
        BY <2>1, WiringFacts
      <3>3. Edges(W) \subseteq wires
        BY <2>1, EdgesOfWires
      <3>4. ComputeMst(W) \subseteq wires
        BY <3>2, <3>3, TreeIsRight
      <3> QED
        BY <2>1, <2>2, <2>3, <2>6, <3>1, <3>4 DEF NetInv
    <2> QED
      BY <2>5, <2>6
  <1>2. /\ frames = <<>> /\ events = <<>> /\ inFlight = EmptyBag
        /\ received = [h \in Hosts |-> [i \in 1 .. MaxFrames |-> 0]]
    BY DEF Init
  <1>3. Pending = {}
    BY <1>2 DEF Pending, Queued, EmptyBag, SetToBag
  <1>4. Len(frames) <= MaxFrames
    BY <1>2, NetworkAssumption
  <1>5. TrafficInv
    BY <1>2, <1>3, <1>4 DEF TrafficInv
  <1>6. TableInv
    BY DEF Init, TableInv
  <1> QED
    BY <1>1, <1>5, <1>6 DEF TypeInv

\* A host sends a frame to its switch.
LEMMA HostSendsTypes ==
  ASSUME TypeInv, NEW h \in Hosts, NEW d \in Hosts \cup {Broadcast}, HostSends(h, d)
  PROVE  /\ TypeInv'
         /\ Copy(Len(frames) + 1, Attached[h], h) \in Copies
         /\ inFlight' = inFlight (+) SetToBag({Copy(Len(frames) + 1, Attached[h], h)})
         /\ Pending' = Pending \cup {Copy(Len(frames) + 1, Attached[h], h)}
         /\ DOMAIN frames' = DOMAIN frames \cup {Len(frames) + 1}
         /\ Len(frames) + 1 \notin DOMAIN frames
         /\ \A i \in DOMAIN frames : frames'[i] = frames[i]
         /\ frames'[Len(frames) + 1].src = h
  <1> DEFINE n == Len(frames) + 1
             x == Copy(n, Attached[h], h)
             f == [src |-> h, dst |-> d]
  <1>1. /\ Len(frames) < MaxFrames
        /\ frames' = Append(frames, f)
        /\ inFlight' = inFlight (+) SetToBag({x})
        /\ UNCHANGED <<app, wires, up, faults, links, mst, learned, rules, events, received>>
    BY DEF HostSends, network
  <1>2. frames \in Seq(Frames) /\ f \in Frames
    BY DEF TypeInv, TrafficInv, Frames
  <1>3. /\ frames' \in Seq(Frames) /\ Len(frames') = n
        /\ DOMAIN frames = 1 .. Len(frames) /\ DOMAIN frames' = 1 .. n
        /\ n \in Nat /\ n <= MaxFrames
        /\ \A i \in 1 .. Len(frames) : frames'[i] = frames[i]
        /\ frames'[n] = f
    BY <1>1, <1>2, NetworkAssumption
  <1>4. DOMAIN frames' = DOMAIN frames \cup {n} /\ n \notin DOMAIN frames
    BY <1>3
  <1>5. x \in Copies /\ x.frame = n /\ x.at = Attached[h] /\ x.port = h
    BY <1>3, NetworkAssumption DEF Copies, Copy
  <1>6. DOMAIN inFlight' = DOMAIN inFlight \cup {x}
    BY <1>1, BagFacts
  <1>7. Pending' = Pending \cup {x}
    BY <1>1, <1>6 DEF Pending, Queued
  <1>8. f.src = h
    OBVIOUS
  <1>9. NetInv'
    BY <1>1 DEF TypeInv, NetInv, BothWays
  <1>10. TableInv'
    BY <1>1, TablesStay DEF TypeInv
  <1>11. \A c \in Pending' :
           c \in Copies /\ c.frame \in DOMAIN frames' /\ c.port \in Ports(c.at)'
    <2>1. x.port \in Ports(x.at)
      BY <1>5 DEF Ports
    <2>2. \A c \in Pending : c \in Copies /\ c.frame \in DOMAIN frames /\ c.port \in Ports(c.at)
      BY DEF TypeInv, TrafficInv
    <2>3. \A s : Ports(s)' = Ports(s)
      BY <1>1, PortsStay
    <2> QED
      BY <1>4, <1>5, <1>7, <2>1, <2>2, <2>3
  <1>12. TrafficInv'
    BY <1>1, <1>3, <1>11 DEF TypeInv, TrafficInv
  <1> QED
    BY <1>1, <1>3, <1>4, <1>5, <1>7, <1>8, <1>9, <1>10, <1>12 DEF TypeInv

\* A switch sends a frame on, and nothing else changes for the frames.
LEMMA ForwardingTypes ==
  ASSUME TypeInv, NEW c \in Pending, NEW outs, NEW rest, Emit(c, outs, rest),
         DOMAIN rest \subseteq Pending, Queued(events') \subseteq Pending,
         events' \in Seq(Events), UNCHANGED <<wires, frames>>
  PROVE  TrafficInv'
  <1>1. /\ frames \in Seq(Frames) /\ Len(frames) <= MaxFrames
        /\ received \in [Hosts -> [1 .. MaxFrames -> Nat]]
        /\ \A d \in Pending :
             d \in Copies /\ d.frame \in DOMAIN frames /\ d.port \in Ports(d.at)
    BY DEF TypeInv, TrafficInv
  <1>2. c.frame \in 1 .. MaxFrames
    <2>1. c.frame \in 1 .. Len(frames) /\ Len(frames) \in Nat
      BY <1>1
    <2> QED
      BY <1>1, <2>1, NetworkAssumption
  <1>3. /\ DOMAIN inFlight' = DOMAIN rest \cup Sent(c, outs)
        /\ received' \in [Hosts -> [1 .. MaxFrames -> Nat]]
        /\ \A d \in Sent(c, outs) : /\ d \in Copies /\ d.frame = c.frame /\ d.port = c.at
                                    /\ c.at \in Ports(d.at)
    <2>1. NetInv /\ c \in Copies
      BY <1>1 DEF TypeInv
    <2>2. received \in [Hosts -> [1 .. MaxFrames -> Nat]]
      BY <1>1
    <2>3. Emits(c, outs, rest)
      BY <1>2, <2>1, <2>2, EmitFacts
    <2> QED
      BY <2>3 DEF Emits
  <1>4. Pending' \subseteq Pending \cup Sent(c, outs)
    <2>1. Pending' = DOMAIN inFlight' \cup Queued(events')
      BY DEF Pending, Queued
    <2> QED
      BY <1>3, <2>1
  <1>5. \A s : Ports(s)' = Ports(s)
    BY PortsStay
  <1>6. \A d \in Pending' :
          d \in Copies /\ d.frame \in DOMAIN frames' /\ d.port \in Ports(d.at)'
    BY <1>1, <1>3, <1>4, <1>5
  <1> QED
    BY <1>1, <1>3, <1>6 DEF TrafficInv

\* A switch has a rule for a frame that arrives.
LEMMA TableHitFacts ==
  ASSUME TypeInv, NEW c \in BagToSet(inFlight), TableHit(c)
  PROVE  /\ c \in Pending /\ c \in DOMAIN inFlight
         /\ UNCHANGED <<network, mst, learned, rules, events, frames>>
         /\ \E r \in rules[c.at] :
              /\ r.dst = frames[c.frame].dst
              /\ Emit(c, IF r.out = FLOOD THEN Ports(c.at) ELSE {r.out},
                      inFlight (-) SetToBag({c}))
  BY DEF TableHit, Matching, BagToSet, Pending

\* Sending it on keeps the types.
LEMMA TableHitTypes ==
  ASSUME TypeInv, NEW c \in BagToSet(inFlight), TableHit(c)
  PROVE  TypeInv'
  <1>1. PICK outs : Emit(c, outs, inFlight (-) SetToBag({c}))
    BY TableHitFacts
  <1>2. c \in Pending /\ UNCHANGED <<network, mst, learned, rules, events, frames>>
    BY TableHitFacts
  <1>3. DOMAIN (inFlight (-) SetToBag({c})) \subseteq Pending
    BY BagFacts DEF Pending
  <1>4. Queued(events') \subseteq Pending /\ events' \in Seq(Events)
    BY <1>2 DEF Pending, TypeInv, TrafficInv
  <1>5. TrafficInv'
    BY <1>1, <1>2, <1>3, <1>4, ForwardingTypes DEF network
  <1>6. NetInv'
    BY <1>2 DEF TypeInv, NetInv, BothWays, network
  <1>7. TableInv'
    BY <1>2, TablesStay DEF TypeInv, network
  <1> QED
    BY <1>5, <1>6, <1>7 DEF TypeInv

\* It has none: the controller is asked.
LEMMA TableMissTypes ==
  ASSUME TypeInv, NEW c \in BagToSet(inFlight), TableMiss(c)
  PROVE  /\ TypeInv' /\ Pending' \subseteq Pending
         /\ c \in DOMAIN inFlight /\ c \in Pending /\ c \in Copies
         /\ inFlight' = inFlight (-) SetToBag({c})
         /\ Queued(events') = Queued(events) \cup {c}
         /\ QueuedOnce(events) /\ c \notin Queued(events) => QueuedOnce(events')
         /\ Expects(events') <=> Expects(events)
         /\ UNCHANGED <<network, mst, learned, rules, frames, received>>
  <1>1. /\ inFlight' = inFlight (-) SetToBag({c})
        /\ events' = Append(events, PacketInEvent(c))
        /\ UNCHANGED <<network, mst, learned, rules, frames, received>>
    BY DEF TableMiss
  <1>2. c \in DOMAIN inFlight /\ c \in Pending
    BY DEF BagToSet, Pending
  <1>3. c \in Copies /\ events \in Seq(Events)
    BY <1>2 DEF TypeInv, TrafficInv
  <1>4. /\ PacketInEvent(c) \in Events /\ PacketInEvent(c).copy = c
        /\ PacketInEvent(c).type = "packet_in" /\ PacketInEvent(c) # TopologyEvent
    BY <1>3, EventKinds
  <1>5. /\ events' \in Seq(Events)
        /\ Queued(events') = Queued(events) \cup {c}
        /\ QueuedOnce(events) /\ c \notin Queued(events) => QueuedOnce(events')
        /\ Expects(events') <=> Expects(events)
    BY <1>1, <1>3, <1>4, QueueGrows
  <1>6. DOMAIN inFlight' \subseteq DOMAIN inFlight
    BY <1>1, BagFacts
  <1>7. Pending' \subseteq Pending
    <2>1. Pending' = DOMAIN inFlight' \cup Queued(events')
      BY DEF Pending, Queued
    <2> QED
      BY <1>2, <1>5, <1>6, <2>1 DEF Pending
  <1>8. TrafficInv'
    <2>1. \A s : Ports(s)' = Ports(s)
      BY <1>1, PortsStay DEF network
    <2> QED
      BY <1>1, <1>5, <1>7, <2>1 DEF TypeInv, TrafficInv
  <1>9. NetInv'
    BY <1>1 DEF TypeInv, NetInv, BothWays, network
  <1>10. TableInv'
    BY <1>1, TablesStay DEF TypeInv, network
  <1> QED
    BY <1>1, <1>2, <1>3, <1>5, <1>7, <1>8, <1>9, <1>10 DEF TypeInv

\* The controller handles a frame.
LEMMA PacketInTypes ==
  ASSUME TypeInv, PacketIn
  PROVE  TypeInv'
  <1>1. PICK c \in Queued(events) : \E o :
           /\ events # <<>> /\ Head(events).type = "packet_in" /\ c = Head(events).copy
           /\ events' = Tail(events)
           /\ UNCHANGED <<network, mst, frames>>
           /\ Emit(c, o, inFlight)
           /\ Output(c, o)
    BY PacketInFacts
  <1>2. PICK outs : Emit(c, outs, inFlight) /\ Output(c, outs)
    BY <1>1
  <1>3. c \in Pending /\ c \in Copies /\ c.frame \in DOMAIN frames /\ c.port \in Ports(c.at)
    BY DEF Pending, TypeInv, TrafficInv
  <1>4. events' \in Seq(Events) /\ Queued(events') \subseteq Pending
    BY <1>1, QueueShrinks DEF Pending, TypeInv, TrafficInv
  <1>5. TrafficInv'
    BY <1>1, <1>2, <1>3, <1>4, ForwardingTypes DEF network, Pending
  <1>6. NetInv'
    BY <1>1 DEF TypeInv, NetInv, BothWays, network
  <1>7. frames[c.frame].src \in Hosts /\ c.at \in Switches
    <2>1. frames[c.frame] \in Frames
      BY <1>3 DEF TypeInv, TrafficInv
    <2> QED
      BY <1>3, <2>1 DEF Frames, Copies
  <1>8. ASSUME learned' = Learn(c)
        PROVE  /\ DOMAIN learned' = Switches
               /\ \A s \in Switches :
                    /\ DOMAIN learned'[s] \subseteq Hosts
                    /\ \A h \in DOMAIN learned'[s] : learned'[s][h] \in Ports(s)
    <2>1. TableInv
      BY DEF TypeInv
    <2>2. /\ DOMAIN learned' = Switches
          /\ \A s \in Switches : DOMAIN learned'[s] \subseteq
               DOMAIN learned[s] \cup (IF s = c.at THEN {frames[c.frame].src} ELSE {})
          /\ \A s \in Switches : \A a \in DOMAIN learned'[s] :
               \/ s = c.at /\ a = frames[c.frame].src /\ learned'[s][a] = c.port
               \/ a \in DOMAIN learned[s] /\ learned'[s][a] = learned[s][a]
      BY <1>3, <1>8, <2>1, LearnFacts
    <2>3. \A s \in Switches : DOMAIN learned'[s] \subseteq Hosts
      BY <1>7, <2>1, <2>2 DEF TableInv
    <2> QED
      BY <1>3, <2>1, <2>2, <2>3 DEF TableInv
  <1>9. ASSUME NEW r, AddRule(c.at, r), r.out \in Ports(c.at) \cup {FLOOD}
        PROVE  /\ DOMAIN rules' = Switches
               /\ \A s \in Switches : \A q \in rules'[s] : q.out \in Ports(s) \cup {FLOOD}
    BY <1>9, RuleFacts DEF TypeInv, TableInv
  <1>10. \A s : Ports(s)' = Ports(s)
    BY <1>1, PortsStay DEF network
  <1>11. /\ DOMAIN learned' = Switches
         /\ \A s \in Switches :
              /\ DOMAIN learned'[s] \subseteq Hosts
              /\ \A h \in DOMAIN learned'[s] : learned'[s][h] \in Ports(s)
    BY <1>2, <1>8 DEF Output, TypeInv, TableInv
  <1>12. /\ DOMAIN rules' = Switches
         /\ \A s \in Switches : \A q \in rules'[s] : q.out \in Ports(s) \cup {FLOOD}
    <2>1. CASE UNCHANGED rules
      BY <2>1 DEF TypeInv, TableInv
    <2>2. CASE \E r : r.out = FLOOD /\ AddRule(c.at, r)
      BY <1>9, <2>2
    <2>3. CASE /\ Knows(c)
               /\ \E r : r.out = OutPort(c) /\ AddRule(c.at, r)
      <3>1. OutPort(c) \in Ports(c.at)
        BY <1>7, <1>11, <2>3 DEF Knows, OutPort
      <3> QED
        BY <1>9, <2>3, <3>1
    <2> QED
      BY <1>2, <2>1, <2>2, <2>3 DEF Output
  <1>13. TableInv'
    BY <1>10, <1>11, <1>12 DEF TableInv
  <1> QED
    BY <1>5, <1>6, <1>13 DEF TypeInv

\* Topology discovery and faults: only what is known of the links, and the
\* copies on a wire that is cut.
TopologyStep ==
  \/ \E l \in BothWays(up) : DiscoverLink(l)
  \/ \E l \in links : LoseLink(l)
  \/ \E w \in up : CutWire(w)

LinksMove ==
  /\ up' \subseteq up /\ faults' \in 0 .. MaxFaults
  /\ links' \subseteq BothWays(up')
  /\ DOMAIN inFlight' \subseteq DOMAIN inFlight
  /\ \A c \in DOMAIN inFlight' : inFlight'[c] = inFlight[c]
  /\ events' = Append(events, TopologyEvent) \/ (events' = events /\ links' = links)
  /\ UNCHANGED <<app, wires, mst, learned, rules, frames, received>>
  /\ faults > 0 \/ (ObservesLinks /\ links # BothWays(up))

\* They keep the types.
LEMMA TopologyStepTypes ==
  ASSUME TypeInv, TopologyStep
  PROVE  /\ TypeInv'
         /\ Pending' \subseteq Pending
         /\ DOMAIN inFlight' \subseteq DOMAIN inFlight
         /\ \A c \in DOMAIN inFlight' : inFlight'[c] = inFlight[c]
         /\ Queued(events') = Queued(events)
         /\ QueuedOnce(events) => QueuedOnce(events')
         /\ Expects(events) \/ links' # links => Expects(events')
         /\ UNCHANGED <<app, wires, mst, learned, rules, frames, received>>
         /\ faults > 0 \/ (ObservesLinks /\ links # BothWays(up))
  <1>1. LinksMove
    <2>1. links \subseteq BothWays(up) /\ faults \in 0 .. MaxFaults
      BY DEF TypeInv, NetInv
    <2>2. CASE \E l \in BothWays(up) : DiscoverLink(l)
      BY <2>1, <2>2 DEF LinksMove, DiscoverLink, BothWays
    <2>3. CASE \E l \in links : LoseLink(l)
      BY <2>1, <2>3, NetworkAssumption DEF LinksMove, LoseLink, BothWays
    <2>4. ASSUME NEW w \in up, CutWire(w)
          PROVE  LinksMove
      <3>1. /\ faults > 0 /\ faults' = faults - 1 /\ up' = up \ {w}
            /\ links' = links \ BothWays({w})
            /\ UNCHANGED <<app, wires, mst, learned, rules, frames, received>>
            /\ events' = (IF links' = links THEN events ELSE Append(events, TopologyEvent))
        BY <2>4 DEF CutWire
      <3>2. /\ DOMAIN inFlight' \subseteq DOMAIN inFlight
            /\ \A c \in DOMAIN inFlight' : inFlight'[c] = inFlight[c]
        BY <2>4 DEF CutWire
      <3>3. links' \subseteq BothWays(up')
        BY <2>1, <3>1 DEF BothWays
      <3>4. faults' \in 0 .. MaxFaults
        BY <2>1, <3>1, NetworkAssumption
      <3> QED
        BY <3>1, <3>2, <3>3, <3>4 DEF LinksMove
    <2> QED
      BY <2>2, <2>3, <2>4 DEF TopologyStep
  <1>2. events \in Seq(Events)
    BY DEF TypeInv, TrafficInv
  <1>3. /\ events' \in Seq(Events)
        /\ Queued(events') = Queued(events)
        /\ QueuedOnce(events) => QueuedOnce(events')
        /\ Expects(events) \/ links' # links => Expects(events')
    <2>1. CASE events' = events /\ links' = links
      BY <1>2, <2>1
    <2>2. CASE events' = Append(events, TopologyEvent)
      BY <1>2, <2>2, QueueGrows, EventKinds
    <2> QED
      BY <1>1, <2>1, <2>2 DEF LinksMove
  <1>4. Pending' \subseteq Pending
    <2>1. Pending' = DOMAIN inFlight' \cup Queued(events')
      BY DEF Pending, Queued
    <2> QED
      BY <1>1, <1>3, <2>1 DEF Pending, LinksMove
  <1>5. TrafficInv'
    <2>1. \A s : Ports(s)' = Ports(s)
      BY <1>1, PortsStay DEF LinksMove
    <2> QED
      BY <1>1, <1>3, <1>4, <2>1 DEF TypeInv, TrafficInv, LinksMove
  <1>6. NetInv'
    <2>1. up' \subseteq wires'
      BY <1>1 DEF TypeInv, NetInv, LinksMove
    <2>2. links' \subseteq BothWays(up)'
      BY <1>1 DEF BothWays, LinksMove
    <2> QED
      BY <1>1, <2>1, <2>2 DEF TypeInv, NetInv, LinksMove
  <1>7. TableInv'
    BY <1>1, TablesStay DEF TypeInv, LinksMove
  <1> QED
    BY <1>1, <1>3, <1>4, <1>5, <1>6, <1>7 DEF TypeInv, LinksMove

\* The tree is computed anew.
LEMMA TopologyChangeTypes ==
  ASSUME TypeInv, TopologyChange
  PROVE  /\ TypeInv'
         /\ Pending' \subseteq Pending
         /\ Queued(events') = Queued(events) \/ ~ QueuedOnce(events)
         /\ QueuedOnce(events) => QueuedOnce(events')
         /\ mst' = (IF app = "spr" THEN mst ELSE ComputeMst(links))
         /\ Expects(events)
         /\ UNCHANGED <<network, learned, rules, frames, inFlight, received>>
  <1>1. /\ events # <<>> /\ Head(events).type = "topology"
        /\ events' = Tail(events)
        /\ mst' = (IF app = "spr" THEN mst ELSE ComputeMst(links))
        /\ UNCHANGED <<network, learned, rules, frames, inFlight, received>>
    BY DEF TopologyChange, NextEvent
  <1>2. events \in Seq(Events)
    BY DEF TypeInv, TrafficInv
  <1>3. /\ events' \in Seq(Events) /\ Head(events) \in Events
        /\ Queued(events') \subseteq Queued(events)
        /\ QueuedOnce(events) => QueuedOnce(events') /\ Queued(events') = Queued(events)
    BY <1>1, <1>2, QueueShrinks
  <1>4. Expects(events)
    <2>1. events[1] = TopologyEvent /\ 1 \in DOMAIN events
      BY <1>1, <1>2, <1>3, EventKinds
    <2> QED
      BY <2>1 DEF Expects
  <1>5. Pending' \subseteq Pending
    <2>1. Pending' = DOMAIN inFlight' \cup Queued(events')
      BY DEF Pending, Queued
    <2> QED
      BY <1>1, <1>3, <2>1 DEF Pending
  <1>6. TrafficInv'
    <2>1. \A s : Ports(s)' = Ports(s)
      BY <1>1, PortsStay DEF network
    <2> QED
      BY <1>1, <1>3, <1>5, <2>1 DEF TypeInv, TrafficInv
  <1>7. NetInv'
    <2>1. mst' \subseteq wires
      BY <1>1, TreeOfLinks DEF TypeInv, NetInv
    <2> QED
      BY <1>1, <2>1 DEF TypeInv, NetInv, network, BothWays
  <1>8. TableInv'
    BY <1>1, TablesStay DEF TypeInv, network
  <1> QED
    BY <1>1, <1>3, <1>4, <1>5, <1>6, <1>7, <1>8 DEF TypeInv

\* The steps of Next, grouped.
LEMMA Steps ==
  ASSUME Next
  PROVE  \/ \E h \in Hosts : \E d \in Hosts \cup {Broadcast} : HostSends(h, d)
         \/ \E c \in BagToSet(inFlight) : TableHit(c)
         \/ \E c \in BagToSet(inFlight) : TableMiss(c)
         \/ TopologyStep
         \/ TopologyChange
         \/ PacketIn
  BY DEF Next, TopologyStep

\* Every step keeps the types.
LEMMA TypesStay ==
  ASSUME TypeInv, [Next]_vars
  PROVE  TypeInv'
  <1>1. ASSUME UNCHANGED vars PROVE TypeInv'
    <2>1. \A s : Ports(s)' = Ports(s)
      BY <1>1, PortsStay DEF vars
    <2>2. Pending' = Pending
      BY <1>1 DEF vars, Pending, Queued
    <2>3. TrafficInv'
      BY <1>1, <2>1, <2>2 DEF vars, TypeInv, TrafficInv
    <2>4. NetInv'
      BY <1>1 DEF vars, TypeInv, NetInv, BothWays
    <2>5. TableInv'
      BY <1>1, TablesStay DEF vars, TypeInv
    <2> QED
      BY <2>3, <2>4, <2>5 DEF TypeInv
  <1>2. ASSUME Next PROVE TypeInv'
    BY <1>2, Steps, HostSendsTypes, TableHitTypes, TableMissTypes, TopologyStepTypes,
       TopologyChangeTypes, PacketInTypes
  <1> QED
    BY <1>1, <1>2

\* Each variable keeps its type: the tree is made of wires, ports that are
\* learned and that rules send to are ports of the switch.
THEOREM TypeInvariant == Spec => []TypeInv
  BY InitTypes, TypesStay, PTL DEF Spec

\* The type invariant of the controllers' runs, in every network.
THEOREM TypeCorrect == Spec => []TypeOK
  BY TypeInvariant, TypeInvTypes, PTL

-----------------------------------------------------------------------------
(* The tree *)

\* The tree is a forest, and unless discovery has an event pending it is the
\* one of the links that are known.
TreeInv ==
  /\ IsForest(mst)
  /\ app = "tree" /\ ~ Expects(events) => mst = ComputeMst(links)

\* Before the first event it is.
LEMMA InitTree == Init => TreeInv
  <1> SUFFICES ASSUME Init PROVE TreeInv
    OBVIOUS
  <1>1. NetInv
    BY InitTypes DEF TypeInv
  <1>2. IsForest({})
    BY DEF IsForest
  <1>3. mst = IF app = "tree" THEN ComputeMst(links) ELSE {}
    BY DEF Init
  <1> QED
    BY <1>1, <1>2, <1>3, TreeOfLinks DEF TreeInv

\* Every step that changes the links leaves an event behind, and the handler of
\* the event reads the links of the moment.
LEMMA TreeStays ==
  ASSUME TypeInv, TreeInv, [Next]_vars
  PROVE  TreeInv'
  <1>1. IsForest(mst) /\ (app = "tree" /\ ~ Expects(events) => mst = ComputeMst(links))
    BY DEF TreeInv
  <1>2. ASSUME mst' = mst, app' = app, links' = links, Expects(events) => Expects(events')
        PROVE  TreeInv'
    BY <1>1, <1>2 DEF TreeInv
  <1>3. ASSUME UNCHANGED vars PROVE TreeInv'
    BY <1>2, <1>3 DEF vars
  <1>4. ASSUME NEW h \in Hosts, NEW d \in Hosts \cup {Broadcast}, HostSends(h, d)
        PROVE  TreeInv'
    BY <1>2, <1>4 DEF HostSends, network
  <1>5. ASSUME NEW c \in BagToSet(inFlight), TableHit(c) PROVE TreeInv'
    BY <1>2, <1>5 DEF TableHit, network
  <1>6. ASSUME NEW c \in BagToSet(inFlight), TableMiss(c) PROVE TreeInv'
    BY <1>2, <1>6, TableMissTypes DEF network
  <1>7. ASSUME TopologyStep PROVE TreeInv'
    <2>1. /\ Expects(events) \/ links' # links => Expects(events')
          /\ mst' = mst /\ app' = app
      BY <1>7, TopologyStepTypes
    <2> QED
      BY <1>1, <2>1 DEF TreeInv
  <1>8. ASSUME TopologyChange PROVE TreeInv'
    <2>1. /\ mst' = (IF app = "spr" THEN mst ELSE ComputeMst(links))
          /\ app' = app /\ links' = links
      BY <1>8, TopologyChangeTypes DEF network
    <2> QED
      BY <1>1, <2>1, TreeOfLinks DEF TreeInv, TypeInv
  <1>9. ASSUME PacketIn PROVE TreeInv'
    <2>1. /\ events # <<>> /\ Head(events).type = "packet_in" /\ events' = Tail(events)
          /\ UNCHANGED <<network, mst>>
      BY <1>9, PacketInFacts
    <2>2. events \in Seq(Events)
      BY DEF TypeInv, TrafficInv
    <2>3. Expects(events) => Expects(events')
      BY <2>1, <2>2, QueueShrinks
    <2> QED
      BY <1>2, <2>1, <2>3 DEF network
  <1> QED
    BY <1>3, <1>4, <1>5, <1>6, <1>7, <1>8, <1>9, Steps

\* Whatever links come and go, and whenever their events are handled, the tree
\* has no cycle; when no event is pending it connects what the links connect.
THEOREM TreeIsUpToDate == Spec => []TreeIsCurrent
  <1>1. Init => TypeInv /\ TreeInv
    BY InitTypes, InitTree
  <1>2. TypeInv /\ TreeInv /\ [Next]_vars => (TypeInv /\ TreeInv)'
    BY TypesStay, TreeStays
  <1>3. TypeInv /\ TreeInv => TreeIsCurrent
    <2> SUFFICES ASSUME TypeInv, TreeInv PROVE TreeIsCurrent
      OBVIOUS
    <2>1. Expects(events) <=> TopologyEvent \in {events[i] : i \in DOMAIN events}
      BY DEF Expects
    <2>2. SameParts(ComputeMst(links), Edges(links))
      BY TreeOfLinks DEF TypeInv
    <2> QED
      BY <2>1, <2>2 DEF TreeInv, TreeIsCurrent
  <1> QED
    BY <1>1, <1>2, <1>3, PTL DEF Spec

-----------------------------------------------------------------------------
(* The ways frames take *)

\* Links only come and go in wirings without a cycle.
CyclesStay == \A w \in Changing : IsForest(w)

\* The edges frames travel on: the wires when these form no cycle, else the tree.
Paths == IF IsForest(wires) THEN wires ELSE mst

\* Where the wires form a cycle the topology is known and nothing changes.
Still ==
  ~ IsForest(wires) =>
    /\ faults = 0 /\ up = wires
    /\ ObservesLinks /\ links = BothWays(wires)
    /\ ~ Expects(events)

PathsInv == TypeInv /\ TreeInv /\ Still

\* The paths are wires and form no cycle.
LEMMA PathsAreForest ==
  ASSUME PathsInv
  PROVE  Paths \subseteq wires /\ IsForest(Paths) /\ Directed(Paths)
  <1>1. mst \subseteq wires /\ IsForest(mst) /\ wires \in Topologies
    BY DEF PathsInv, TypeInv, NetInv, TreeInv
  <1>2. Paths \subseteq wires /\ IsForest(Paths)
    BY <1>1 DEF Paths
  <1>3. Directed(wires)
    BY <1>1, WiringFacts
  <1> QED
    BY <1>2, <1>3 DEF Directed

\* They are laid once and for all.
LEMMA PathsStay ==
  ASSUME PathsInv, [Next]_vars
  PROVE  Paths' = Paths /\ UNCHANGED <<app, wires>>
  <1>1. CASE UNCHANGED vars
    BY <1>1 DEF vars, Paths
  <1>2. ASSUME NEW h \in Hosts, NEW d \in Hosts \cup {Broadcast}, HostSends(h, d)
        PROVE  UNCHANGED <<app, wires, mst>>
    BY <1>2 DEF HostSends, network
  <1>3. ASSUME NEW c \in BagToSet(inFlight), TableHit(c)
        PROVE  UNCHANGED <<app, wires, mst>>
    BY <1>3 DEF TableHit, network
  <1>4. ASSUME NEW c \in BagToSet(inFlight), TableMiss(c)
        PROVE  UNCHANGED <<app, wires, mst>>
    BY <1>4 DEF TableMiss, network
  <1>5. CASE TopologyStep
    BY <1>5, TopologyStepTypes DEF PathsInv, Paths
  <1>6. CASE TopologyChange
    <2>1. Expects(events) /\ UNCHANGED <<app, wires>>
      BY <1>6, TopologyChangeTypes DEF PathsInv, network
    <2> QED
      BY <2>1 DEF PathsInv, Still, Paths
  <1>7. CASE PacketIn
    BY <1>7 DEF PacketIn, network, Paths
  <1> QED
    BY <1>1, <1>2, <1>3, <1>4, <1>5, <1>6, <1>7, Steps DEF Paths

\* At first nothing is pending.
LEMMA InitStill ==
  ASSUME CyclesStay, Init
  PROVE  Still
  <1>1. /\ app \in Apps /\ wires \in Topologies /\ up = wires
        /\ app \in {"hub", "learning"} => IsForest(wires)
        /\ faults = (IF wires \in Changing THEN MaxFaults ELSE 0)
        /\ links = (IF ObservesLinks THEN BothWays(wires) ELSE {})
        /\ events = <<>>
    BY DEF Init
  <1>2. ~ Expects(events)
    BY <1>1 DEF Expects
  <1> QED
    BY <1>1, <1>2, NetworkAssumption DEF Still, CyclesStay, ObservesLinks

\* Nor does anything ever change there.
LEMMA StillStays ==
  ASSUME PathsInv, [Next]_vars
  PROVE  Still'
  <1> SUFFICES ASSUME ~ IsForest(wires)
               PROVE  /\ UNCHANGED <<wires, faults, up, app, links>>
                      /\ Expects(events') => Expects(events)
    <2>1. wires' = wires
      BY PathsStay
    <2> QED
      BY <2>1 DEF PathsInv, Still, ObservesLinks, BothWays, Expects
  <1>1. /\ faults = 0 /\ ObservesLinks /\ links = BothWays(up) /\ ~ Expects(events)
    BY DEF PathsInv, Still
  <1>2. CASE UNCHANGED vars
    BY <1>2 DEF vars
  <1>3. ASSUME NEW h \in Hosts, NEW d \in Hosts \cup {Broadcast}, HostSends(h, d)
        PROVE  UNCHANGED <<wires, faults, up, app, links, events>>
    BY <1>3 DEF HostSends, network
  <1>4. ASSUME NEW c \in BagToSet(inFlight), TableHit(c)
        PROVE  UNCHANGED <<wires, faults, up, app, links, events>>
    BY <1>4 DEF TableHit, network
  <1>5. ASSUME NEW c \in BagToSet(inFlight), TableMiss(c)
        PROVE  /\ UNCHANGED <<wires, faults, up, app, links>>
               /\ Expects(events') <=> Expects(events)
    BY <1>5, TableMissTypes DEF PathsInv, network
  <1>6. ~ TopologyStep
    <2> SUFFICES ASSUME TopologyStep PROVE FALSE
      OBVIOUS
    <2> QED
      BY <1>1, TopologyStepTypes DEF PathsInv
  <1>7. ~ TopologyChange
    BY <1>1, TopologyChangeTypes DEF PathsInv
  <1>8. ASSUME PacketIn
        PROVE  /\ UNCHANGED <<wires, faults, up, app, links>>
               /\ Expects(events') => Expects(events)
    <2>1. events # <<>> /\ events' = Tail(events) /\ UNCHANGED network
      BY <1>8 DEF PacketIn, NextEvent
    <2>2. events \in Seq(Events)
      BY DEF PathsInv, TypeInv, TrafficInv
    <2>3. Expects(Tail(events)) => Expects(events)
      BY <2>1, <2>2, QueueShrinks
    <2> QED
      BY <2>1, <2>3 DEF network
  <1> QED
    BY <1>2, <1>3, <1>4, <1>5, <1>6, <1>7, <1>8, Steps

\* What leads to a host from switch s.
LEMMA TowardFacts ==
  ASSUME PathsInv, NEW s \in Switches, NEW h \in Hosts, NEW x \in Toward(s, h)
  PROVE  /\ x \in Switches => Beside(Paths, s, x)
         /\ Attached[h] = s => x = h
         /\ Attached[h] # s => x \in Switches /\ Attached[h] \in Side(Paths, s, x)
  <1>1. Toward(s, h) = IF Attached[h] = s THEN {h} ELSE NextHops(Paths, s, Attached[h])
    BY DEF Toward, Paths
  <1>2. Directed(Paths) /\ Paths \subseteq wires
    BY PathsAreForest
  <1>3. h \notin Switches
    BY NetworkAssumption
  <1>4. ASSUME Attached[h] # s
        PROVE  Beside(Paths, s, x) /\ Attached[h] \in Side(Paths, s, x)
    BY <1>1, <1>2, <1>4, NextHopIsBeside
  <1>5. Beside(Paths, s, x) => x \in Switches
    <2>1. wires \subseteq Switches \X Switches
      BY WiringFacts DEF PathsInv, TypeInv, NetInv
    <2> QED
      BY <1>2, <2>1 DEF Beside
  <1> QED
    BY <1>1, <1>3, <1>4, <1>5

\* A frame that came the way to its sender is sent on: back there is still the
\* way to its sender.
LEMMA OneHop ==
  ASSUME PathsInv, NEW s \in Switches, NEW t \in Switches, NEW h \in Hosts,
         NEW p \in Toward(s, h), t # p, Beside(Paths, s, t)
  PROVE  s \in Toward(t, h)
  <1>1. Directed(Paths) /\ IsForest(Paths)
    BY PathsAreForest
  <1>2. Toward(t, h) = IF Attached[h] = t THEN {h} ELSE NextHops(Paths, t, Attached[h])
    BY DEF Toward, Paths
  <1>3. Beside(Paths, t, s)
    BY DEF Beside
  <1>4. t \notin Side(Paths, t, s) /\ s \in Side(Paths, t, s)
    BY <1>1, <1>3, NoWayBack
  <1>5. Attached[h] \in Side(Paths, t, s)
    <2>1. CASE Attached[h] = s
      BY <1>4, <2>1
    <2>2. CASE Attached[h] # s
      <3>1. p \in Switches /\ Beside(Paths, s, p) /\ Attached[h] \in Side(Paths, s, p)
        BY <2>2, TowardFacts
      <3>2. Side(Paths, s, p) \subseteq Side(Paths, t, s)
        BY <1>1, <3>1, SidesApart
      <3> QED
        BY <3>1, <3>2
    <2> QED
      BY <2>1, <2>2
  <1> QED
    BY <1>1, <1>2, <1>3, <1>4, <1>5, NextHopIsBeside

-----------------------------------------------------------------------------
(* What is learned leads to the host *)

\* Every copy came the way to its sender, and what a switch has learned and its
\* rules say is the way to the host; only the hub floods.
ArrivedInv ==
  \A c \in Pending : c.port \in Toward(c.at, frames[c.frame].src)
LearnedInv ==
  \A s \in Switches : \A h \in DOMAIN learned[s] : learned[s][h] \in Toward(s, h)
RulesInv ==
  \A s \in Switches : \A r \in rules[s] :
    IF r.out = FLOOD THEN app = "hub"
    ELSE r.dst \in Hosts /\ r.out \in Toward(s, r.dst)

WayInv == PathsInv /\ ArrivedInv /\ LearnedInv /\ RulesInv

\* The ports by which a switch may send: its hosts', and along the paths.
Allowed(s, outs) ==
  outs \subseteq Ports(s) /\ \A t \in outs \cap Switches : Beside(Paths, s, t)

\* Frames without a known destination are only sent there.
LEMMA FloodingAllowed ==
  ASSUME PathsInv, NEW s \in Switches
  PROVE  /\ ~ ObservesLinks => Allowed(s, Ports(s))
         /\ ObservesLinks => Allowed(s, OpenPorts(s))
  <1>1. NetInv
    BY DEF PathsInv, TypeInv
  <1>2. OpenPorts(s) \subseteq Ports(s) /\ \A t \in Switches : t \in Ports(s) <=> Beside(wires, s, t)
    BY <1>1, PortFacts
  <1>3. CASE IsForest(wires)
    BY <1>2, <1>3 DEF Allowed, Paths
  <1>4. CASE ~ IsForest(wires)
    <2>1. ObservesLinks /\ links = BothWays(wires) /\ Paths = mst
      BY <1>4 DEF PathsInv, Still, Paths
    <2>2. ASSUME NEW t \in OpenPorts(s) \cap Switches PROVE Beside(mst, s, t)
      <3>1. <<s, t>> \in BothWays(wires)
        BY <1>1, <1>2, <2>2, WiringFacts DEF NetInv
      <3>2. t \in TreePorts(s)
        BY <2>1, <2>2, <3>1 DEF OpenPorts, LinkPorts
      <3>3. mst \subseteq wires /\ wires \in Topologies
        BY <1>1 DEF NetInv
      <3>4. \A e \in mst : e = <<e[1], e[2]>>
        BY <3>3, WiringFacts DEF Directed
      <3> QED
        BY <3>2, <3>4 DEF TreePorts, BothWays, Beside
    <2> QED
      BY <1>2, <2>1, <2>2 DEF Allowed
  <1> QED
    BY <1>3, <1>4

\* A port that leads to a host is a port of the switch along the paths.
LEMMA TowardAllowed ==
  ASSUME PathsInv, NEW s \in Switches, NEW h \in Hosts, NEW x \in Toward(s, h)
  PROVE  Allowed(s, {x})
  <1>1. NetInv
    BY DEF PathsInv, TypeInv
  <1>2. CASE Attached[h] = s
    <2>1. x = h /\ h \notin Switches
      BY <1>2, TowardFacts, NetworkAssumption
    <2> QED
      BY <1>1, <1>2, <2>1, PortFacts DEF Allowed
  <1>3. CASE Attached[h] # s
    <2>1. x \in Switches /\ Beside(Paths, s, x)
      BY <1>3, TowardFacts
    <2>2. Beside(wires, s, x)
      BY <2>1, PathsAreForest DEF Beside
    <2> QED
      BY <1>1, <2>1, <2>2, PortFacts DEF Allowed
  <1> QED
    BY <1>2, <1>3

\* A rule that matches sends where it may.
LEMMA TableHitForwards ==
  ASSUME WayInv, NEW c \in BagToSet(inFlight), TableHit(c)
  PROVE  \E outs : /\ Allowed(c.at, outs)
                   /\ Emit(c, outs, inFlight (-) SetToBag({c}))
  <1>1. PICK r \in rules[c.at] :
          /\ r.dst = frames[c.frame].dst
          /\ Emit(c, IF r.out = FLOOD THEN Ports(c.at) ELSE {r.out},
                  inFlight (-) SetToBag({c}))
    BY TableHitFacts DEF WayInv, PathsInv
  <1>2. c.at \in Switches
    <2>1. c \in Pending
      BY DEF Pending, BagToSet
    <2>2. c \in Copies
      BY <2>1 DEF WayInv, PathsInv, TypeInv, TrafficInv
    <2> QED
      BY <2>2 DEF Copies
  <1>3. CASE r.out = FLOOD
    <2>1. ~ ObservesLinks
      BY <1>2, <1>3 DEF WayInv, RulesInv, ObservesLinks
    <2>2. Allowed(c.at, Ports(c.at))
      BY <1>2, <2>1, FloodingAllowed DEF WayInv
    <2> QED
      BY <1>1, <1>3, <2>2
  <1>4. CASE r.out # FLOOD
    <2>1. r.dst \in Hosts /\ r.out \in Toward(c.at, r.dst)
      BY <1>2, <1>4 DEF WayInv, RulesInv
    <2>2. Allowed(c.at, {r.out})
      BY <1>2, <2>1, TowardAllowed DEF WayInv
    <2> QED
      BY <1>1, <1>4, <2>2
  <1> QED
    BY <1>3, <1>4

\* What a switch learns is the way to the sender.
LEMMA LearnLeads ==
  ASSUME WayInv, NEW c \in Pending, learned' = Learn(c)
  PROVE  \A s \in Switches : \A h \in DOMAIN learned'[s] :
           h \in Hosts /\ learned'[s][h] \in Toward(s, h)
  <1>1. TableInv /\ c \in Copies /\ frames[c.frame] \in Frames
    BY DEF WayInv, PathsInv, TypeInv, TrafficInv
  <1>2. \A s \in Switches : \A a \in DOMAIN learned'[s] :
          \/ s = c.at /\ a = frames[c.frame].src /\ learned'[s][a] = c.port
          \/ a \in DOMAIN learned[s] /\ learned'[s][a] = learned[s][a]
    BY <1>1, LearnFacts
  <1>3. frames[c.frame].src \in Hosts
    BY <1>1 DEF Frames
  <1>4. c.port \in Toward(c.at, frames[c.frame].src)
    BY DEF WayInv, ArrivedInv
  <1>5. \A s \in Switches : \A h \in DOMAIN learned[s] :
          h \in Hosts /\ learned[s][h] \in Toward(s, h)
    BY <1>1 DEF WayInv, LearnedInv, TableInv
  <1> QED
    BY <1>2, <1>3, <1>4, <1>5

\* The controller sends where it may, and what it learns and adds leads to the
\* hosts.
LEMMA OutputLeads ==
  ASSUME WayInv, NEW c \in Pending, NEW outs, Output(c, outs)
  PROVE  /\ Allowed(c.at, outs)
         /\ \A s \in Switches : \A h \in DOMAIN learned'[s] : learned'[s][h] \in Toward(s, h)
         /\ \A s \in Switches : \A r \in rules'[s] :
              IF r.out = FLOOD THEN app = "hub"
              ELSE r.dst \in Hosts /\ r.out \in Toward(s, r.dst)
  <1>1. PathsInv /\ TableInv /\ c.at \in Switches /\ LearnedInv /\ RulesInv
    BY DEF WayInv, PathsInv, TypeInv, TrafficInv, Copies
  <1>2. DOMAIN rules = Switches
    BY <1>1 DEF TableInv
  <1>3. CASE /\ app = "hub" /\ outs = Ports(c.at) /\ UNCHANGED learned
             /\ \E r : r.out = FLOOD /\ AddRule(c.at, r)
    <2>1. Allowed(c.at, outs)
      BY <1>1, <1>3, FloodingAllowed DEF ObservesLinks
    <2>2. PICK r : r.out = FLOOD /\ AddRule(c.at, r)
      BY <1>3
    <2>3. \A s \in Switches : \A q \in rules'[s] : q \in rules[s] \/ q = r
      BY <1>2, <2>2, RuleFacts
    <2> QED
      BY <1>1, <1>3, <2>1, <2>2, <2>3 DEF LearnedInv, RulesInv
  <1>4. CASE /\ learned' = Learn(c) /\ Knows(c) /\ outs = {OutPort(c)}
             /\ \E r : /\ r.out = OutPort(c) /\ r.dst = frames[c.frame].dst
                       /\ AddRule(c.at, r)
    <2> DEFINE d == frames[c.frame].dst
    <2>1. \A s \in Switches : \A h \in DOMAIN learned'[s] :
            h \in Hosts /\ learned'[s][h] \in Toward(s, h)
      BY <1>4, LearnLeads
    <2>2. d \in Hosts /\ OutPort(c) \in Toward(c.at, d)
      BY <1>1, <1>4, <2>1 DEF Knows, OutPort
    <2>3. Allowed(c.at, outs)
      BY <1>1, <1>4, <2>2, TowardAllowed
    <2>4. PICK r : r.out = OutPort(c) /\ r.dst = d /\ AddRule(c.at, r)
      BY <1>4
    <2>5. \A s \in Switches : \A q \in rules'[s] : q \in rules[s] \/ (s = c.at /\ q = r)
      BY <1>2, <2>4, RuleFacts
    <2>6. r.out # FLOOD
      <3>1. r.out \in Ports(c.at)
        BY <1>4, <2>3, <2>4 DEF Allowed
      <3> QED
        BY <1>1, <3>1, PortFacts DEF PathsInv, TypeInv
    <2> QED
      BY <1>1, <2>1, <2>2, <2>3, <2>4, <2>5, <2>6 DEF RulesInv
  <1>5. CASE /\ app # "hub" /\ learned' = Learn(c) /\ UNCHANGED rules
             /\ outs = IF app = "learning" THEN Ports(c.at) ELSE OpenPorts(c.at)
    <2>1. Allowed(c.at, outs)
      <3>1. CASE app = "learning"
        BY <1>1, <1>5, <3>1, FloodingAllowed DEF ObservesLinks
      <3>2. CASE app # "learning"
        BY <1>1, <1>5, <3>2, FloodingAllowed, NetworkAssumption
           DEF ObservesLinks, PathsInv, TypeInv, NetInv
      <3> QED
        BY <3>1, <3>2
    <2> QED
      BY <1>1, <1>5, <2>1, LearnLeads DEF RulesInv
  <1> QED
    BY <1>3, <1>4, <1>5 DEF Output

\* What happens to the copies of the frames, apart from the arrival of new
\* frames: some may get lost, or one is sent on.
Lost == /\ Pending' \subseteq Pending
        /\ UNCHANGED <<learned, rules, frames, received>>
SentOn(c, outs) ==
  /\ c \in Pending /\ Allowed(c.at, outs)
  /\ Pending' \subseteq Pending \cup Sent(c, outs)
  /\ \E rest : Emits(c, outs, rest)
  /\ UNCHANGED frames

\* Emit's requirements hold of every pending copy.
LEMMA PendingFacts ==
  ASSUME TypeInv, NEW c \in Pending
  PROVE  /\ NetInv /\ c \in Copies /\ c.at \in Switches /\ c.frame \in DOMAIN frames
         /\ c.frame \in 1 .. MaxFrames
         /\ received \in [Hosts -> [1 .. MaxFrames -> Nat]]
         /\ frames[c.frame].src \in Hosts
         /\ c.port \in Ports(c.at)
  <1>1. /\ frames \in Seq(Frames) /\ Len(frames) <= MaxFrames
        /\ received \in [Hosts -> [1 .. MaxFrames -> Nat]]
        /\ c \in Copies /\ c.frame \in DOMAIN frames /\ c.port \in Ports(c.at)
    BY DEF TypeInv, TrafficInv
  <1>2. c.frame \in 1 .. Len(frames) /\ Len(frames) \in Nat
    BY <1>1
  <1>3. c.frame \in 1 .. MaxFrames
    BY <1>1, <1>2, NetworkAssumption
  <1>4. frames[c.frame] \in Frames
    BY <1>1
  <1> QED
    BY <1>1, <1>3, <1>4 DEF TypeInv, Frames, Copies

\* A switch sends a frame on.
LEMMA TableHitSends ==
  ASSUME WayInv, NEW c \in BagToSet(inFlight), TableHit(c)
  PROVE  \E outs : /\ SentOn(c, outs)
                   /\ Emits(c, outs, inFlight (-) SetToBag({c}))
                   /\ c \in DOMAIN inFlight
                   /\ UNCHANGED <<learned, rules, events>>
  <1>1. PICK outs : Allowed(c.at, outs) /\ Emit(c, outs, inFlight (-) SetToBag({c}))
    BY TableHitForwards
  <1> DEFINE rest == inFlight (-) SetToBag({c})
  <1>2. TypeInv /\ c \in Pending /\ c \in DOMAIN inFlight
    BY DEF WayInv, PathsInv, BagToSet, Pending
  <1>3. UNCHANGED <<network, mst, learned, rules, events, frames>>
    BY <1>2, TableHitFacts
  <1>4. DOMAIN rest \subseteq DOMAIN inFlight
    BY BagFacts
  <1>5. Emit(c, outs, rest)
    BY <1>1
  <1> HIDE DEF rest
  <1>6. Emits(c, outs, rest)
    BY <1>2, <1>5, PendingFacts, EmitFacts
  <1>7. Pending' = DOMAIN inFlight' \cup Queued(events)
    BY <1>3 DEF Pending, Queued
  <1>8. Pending' \subseteq Pending \cup Sent(c, outs)
    BY <1>4, <1>6, <1>7 DEF Emits, Pending
  <1>9. SentOn(c, outs)
    BY <1>1, <1>2, <1>3, <1>6, <1>8 DEF SentOn
  <1> QED
    BY <1>2, <1>3, <1>6, <1>9 DEF rest

\* The controller does.
LEMMA PacketInSends ==
  ASSUME WayInv, PacketIn
  PROVE  \E c \in Queued(events) : \E outs :
           /\ SentOn(c, outs)
           /\ Emits(c, outs, inFlight)
           /\ events # <<>> /\ Head(events).type = "packet_in" /\ c = Head(events).copy
           /\ events' = Tail(events)
           /\ \A s \in Switches : \A h \in DOMAIN learned'[s] : learned'[s][h] \in Toward(s, h)
           /\ \A s \in Switches : \A r \in rules'[s] :
                IF r.out = FLOOD THEN app = "hub"
                ELSE r.dst \in Hosts /\ r.out \in Toward(s, r.dst)
  <1>1. TypeInv
    BY DEF WayInv, PathsInv
  <1>2. PICK c \in Queued(events) : \E o :
           /\ events # <<>> /\ Head(events).type = "packet_in" /\ c = Head(events).copy
           /\ events' = Tail(events)
           /\ UNCHANGED <<network, mst, frames>>
           /\ Emit(c, o, inFlight)
           /\ Output(c, o)
    BY <1>1, PacketInFacts
  <1>3. PICK outs : Emit(c, outs, inFlight) /\ Output(c, outs)
    BY <1>2
  <1>4. c \in Pending
    BY DEF Pending
  <1>5. Emits(c, outs, inFlight)
    BY <1>1, <1>3, <1>4, PendingFacts, EmitFacts
  <1>6. Queued(events') \subseteq Queued(events)
    BY <1>1, <1>2, QueueShrinks DEF TypeInv, TrafficInv
  <1>7. Pending' = DOMAIN inFlight' \cup Queued(events')
    BY DEF Pending, Queued
  <1>8. Pending' \subseteq Pending \cup Sent(c, outs)
    BY <1>5, <1>6, <1>7 DEF Emits, Pending
  <1>9. /\ Allowed(c.at, outs)
        /\ \A s \in Switches : \A h \in DOMAIN learned'[s] : learned'[s][h] \in Toward(s, h)
        /\ \A s \in Switches : \A r \in rules'[s] :
             IF r.out = FLOOD THEN app = "hub"
             ELSE r.dst \in Hosts /\ r.out \in Toward(s, r.dst)
    BY <1>3, <1>4, OutputLeads
  <1>10. SentOn(c, outs)
    BY <1>2, <1>4, <1>5, <1>8, <1>9 DEF SentOn
  <1> QED
    BY <1>2, <1>5, <1>9, <1>10

\* The copies that are sent on come the way to the sender as well.
LEMMA SentOnArrives ==
  ASSUME WayInv, NEW c, NEW outs, SentOn(c, outs)
  PROVE  \A d \in Pending' : d.port \in Toward(d.at, frames[d.frame].src)
  <1>1. c \in Pending /\ Allowed(c.at, outs) /\ Pending' \subseteq Pending \cup Sent(c, outs)
    BY DEF SentOn
  <1>2. /\ c.at \in Switches /\ frames[c.frame].src \in Hosts
        /\ c.port \in Toward(c.at, frames[c.frame].src)
    BY <1>1, PendingFacts DEF WayInv, PathsInv, ArrivedInv
  <1>3. \A d \in Sent(c, outs) :
          /\ d.frame = c.frame /\ d.port = c.at
          /\ d.at \in (outs \ {c.port}) \cap Switches
    BY DEF SentOn, Emits
  <1>4. ASSUME NEW d \in Sent(c, outs)
        PROVE  d.port \in Toward(d.at, frames[d.frame].src)
    <2>1. Beside(Paths, c.at, d.at) /\ d.at # c.port /\ d.at \in Switches
      BY <1>1, <1>3 DEF Allowed
    <2>2. PathsInv
      BY DEF WayInv
    <2>3. c.at \in Toward(d.at, frames[c.frame].src)
      BY <1>2, <2>1, <2>2, OneHop
    <2> QED
      BY <1>3, <2>3
  <1> QED
    BY <1>1, <1>4 DEF WayInv, ArrivedInv

\* The ways to the hosts do not change.
LEMMA TowardStays ==
  ASSUME Paths' = Paths, NEW s, NEW h
  PROVE  Toward(s, h)' = Toward(s, h)
  BY DEF Toward, Paths

\* At first there is nothing to lead anywhere.
LEMMA InitWays ==
  ASSUME CyclesStay, Init
  PROVE  WayInv
  <1>1. PathsInv
    BY InitTypes, InitTree, InitStill DEF PathsInv
  <1>2. /\ events = <<>> /\ inFlight = EmptyBag
        /\ learned = [s \in Switches |-> <<>>] /\ rules = [s \in Switches |-> {}]
    BY DEF Init
  <1>3. Pending = {}
    BY <1>2 DEF Pending, Queued, EmptyBag, SetToBag
  <1>4. ArrivedInv
    BY <1>3 DEF ArrivedInv
  <1>5. LearnedInv /\ RulesInv
    BY <1>2 DEF LearnedInv, RulesInv
  <1> QED
    BY <1>1, <1>4, <1>5 DEF WayInv

\* Every step keeps the ways.
LEMMA WaysStay ==
  ASSUME WayInv, [Next]_vars
  PROVE  WayInv'
  <1>1. PathsInv /\ ArrivedInv /\ LearnedInv /\ RulesInv
    BY DEF WayInv
  <1>2. PathsInv' /\ Paths' = Paths /\ app' = app
    BY <1>1, TypesStay, TreeStays, StillStays, PathsStay DEF PathsInv
  <1>3. \A s, h : Toward(s, h)' = Toward(s, h)
    BY <1>2, TowardStays
  <1>4. ASSUME /\ \A c \in Pending' : c.port \in Toward(c.at, frames'[c.frame].src)
               /\ \A s \in Switches : \A h \in DOMAIN learned'[s] :
                    learned'[s][h] \in Toward(s, h)
               /\ \A s \in Switches : \A r \in rules'[s] :
                    IF r.out = FLOOD THEN app = "hub"
                    ELSE r.dst \in Hosts /\ r.out \in Toward(s, r.dst)
        PROVE  WayInv'
    <2>1. ArrivedInv'
      BY <1>3, <1>4 DEF ArrivedInv
    <2>2. LearnedInv'
      BY <1>3, <1>4 DEF LearnedInv
    <2>3. RulesInv'
      BY <1>2, <1>3, <1>4 DEF RulesInv
    <2> QED
      BY <1>2, <2>1, <2>2, <2>3 DEF WayInv
  <1>5. ASSUME Lost PROVE WayInv'
    BY <1>1, <1>4, <1>5 DEF Lost, ArrivedInv, LearnedInv, RulesInv
  <1>6. CASE UNCHANGED vars
    BY <1>5, <1>6 DEF vars, Lost, Pending, Queued
  <1>7. ASSUME NEW h \in Hosts, NEW d \in Hosts \cup {Broadcast}, HostSends(h, d)
        PROVE  WayInv'
    <2> DEFINE n == Len(frames) + 1
               x == Copy(n, Attached[h], h)
    <2>1. TypeInv /\ UNCHANGED <<learned, rules>>
      BY <1>1, <1>7 DEF PathsInv, HostSends
    <2>2. /\ Pending' = Pending \cup {x} /\ n \notin DOMAIN frames
          /\ \A i \in DOMAIN frames : frames'[i] = frames[i]
          /\ frames'[n].src = h
      BY <1>7, <2>1, HostSendsTypes
    <2>3. x.frame = n /\ x.at = Attached[h] /\ x.port = h
      BY DEF Copy
    <2>4. \A c \in Pending : c.frame \in DOMAIN frames
      BY <2>1, PendingFacts
    <2>5. h \in Toward(Attached[h], h)
      BY DEF Toward
    <2> HIDE DEF n, x
    <2>6. \A c \in Pending' : c.port \in Toward(c.at, frames'[c.frame].src)
      BY <1>1, <2>2, <2>3, <2>4, <2>5 DEF ArrivedInv
    <2> QED
      BY <1>1, <1>4, <2>1, <2>6 DEF LearnedInv, RulesInv
  <1>8. ASSUME NEW c \in BagToSet(inFlight), TableHit(c)
        PROVE  WayInv'
    <2>1. PICK outs : SentOn(c, outs) /\ UNCHANGED <<learned, rules>>
      BY <1>8, TableHitSends
    <2>2. \A d \in Pending' : d.port \in Toward(d.at, frames'[d.frame].src)
      BY <2>1, SentOnArrives DEF SentOn
    <2> QED
      BY <1>1, <1>4, <2>1, <2>2 DEF LearnedInv, RulesInv
  <1>9. ASSUME NEW c \in BagToSet(inFlight), TableMiss(c)
        PROVE  WayInv'
    <2>1. Lost
      BY <1>1, <1>9, TableMissTypes DEF PathsInv, Lost
    <2> QED
      BY <1>5, <2>1
  <1>10. CASE TopologyStep
    <2>1. Lost
      BY <1>1, <1>10, TopologyStepTypes DEF PathsInv, Lost
    <2> QED
      BY <1>5, <2>1
  <1>11. CASE TopologyChange
    <2>1. Lost
      BY <1>1, <1>11, TopologyChangeTypes DEF PathsInv, Lost
    <2> QED
      BY <1>5, <2>1
  <1>12. CASE PacketIn
    <2>1. PICK c \in Queued(events) : \E o :
            /\ SentOn(c, o)
            /\ \A s \in Switches : \A h \in DOMAIN learned'[s] : learned'[s][h] \in Toward(s, h)
            /\ \A s \in Switches : \A r \in rules'[s] :
                 IF r.out = FLOOD THEN app = "hub"
                 ELSE r.dst \in Hosts /\ r.out \in Toward(s, r.dst)
      BY <1>12, PacketInSends
    <2>2. \A d \in Pending' : d.port \in Toward(d.at, frames'[d.frame].src)
      BY <2>1, SentOnArrives DEF SentOn
    <2> QED
      BY <1>4, <2>1, <2>2
  <1> QED
    BY <1>6, <1>7, <1>8, <1>9, <1>10, <1>11, <1>12, Steps

\* Following what was learned, or the rules, leads to the host, whatever the
\* controller handled in between, if links only come and go in wirings without
\* a cycle.
THEOREM RulesLeadHome ==
  ASSUME CyclesStay
  PROVE  Spec => []RulesLeadToHost
  <1>1. Init => WayInv
    BY InitWays
  <1>2. WayInv /\ [Next]_vars => WayInv'
    BY WaysStay
  <1>3. WayInv => RulesLeadToHost
    BY DEF WayInv, LearnedInv, RulesInv, RulesLeadToHost
  <1> QED
    BY <1>1, <1>2, <1>3, PTL DEF Spec

-----------------------------------------------------------------------------
(* No frame multiplies *)

\* A copy is in one place.
Single ==
  /\ \A c \in DOMAIN inFlight : inFlight[c] = 1
  /\ QueuedOnce(events)
  /\ DOMAIN inFlight \cap Queued(events) = {}

\* The switches that copy c can still get to.
Region(c) ==
  IF c.port \in Hosts THEN ConnectedTo(Paths, c.at) ELSE Side(Paths, c.port, c.at)

\* Two copies of a frame get to different switches,
Apart ==
  \A c, d \in Pending :
    c # d /\ c.frame = d.frame => Region(c) \cap Region(d) = {}

\* and none gets to the switch of a host that has received the frame, nor was
\* that host its sender.
Reached ==
  \A h \in Hosts : \A i \in 1 .. MaxFrames :
    received[h][i] # 0 =>
      /\ received[h][i] = 1
      /\ i \in DOMAIN frames /\ frames[i].src # h
      /\ \A c \in Pending : c.frame = i => Attached[h] \notin Region(c)

OnceInv == WayInv /\ Single /\ Apart /\ Reached

\* The regions do not change.
LEMMA RegionStays ==
  ASSUME Paths' = Paths, NEW c
  PROVE  Region(c)' = Region(c)
  BY DEF Region

\* A copy's region.
LEMMA RegionFacts ==
  ASSUME WayInv, NEW c \in Pending
  PROVE  /\ c.at \in Switches /\ c.at \in Region(c)
         /\ \A t \in Switches : t # c.port /\ Beside(Paths, c.at, t) =>
              Side(Paths, c.at, t) \subseteq Region(c)
  <1>1. TypeInv /\ PathsInv /\ c.port \in Toward(c.at, frames[c.frame].src)
    BY DEF WayInv, PathsInv, ArrivedInv
  <1>2. c.at \in Switches /\ frames[c.frame].src \in Hosts /\ c.port \in Ports(c.at) /\ NetInv
    BY <1>1, PendingFacts
  <1>3. IsForest(Paths) /\ Directed(Paths)
    BY <1>1, PathsAreForest
  <1>4. CASE c.port \in Hosts
    <2>1. Region(c) = ConnectedTo(Paths, c.at)
      BY <1>4 DEF Region
    <2>2. c.at \in ConnectedTo(Paths, c.at)
      BY PartIsClosed
    <2>3. ASSUME NEW t, Beside(Paths, c.at, t)
          PROVE  Side(Paths, c.at, t) \subseteq ConnectedTo(Paths, c.at)
      <3>1. Closed(Paths, ConnectedTo(Paths, c.at))
        BY PartIsClosed
      <3>2. t \in ConnectedTo(Paths, c.at)
        BY <2>2, <2>3, <3>1 DEF Closed, Beside
      <3>3. ConnectedTo(Paths, t) = ConnectedTo(Paths, c.at)
        BY <3>2, SamePart
      <3>4. Side(Paths, c.at, t) \subseteq ConnectedTo(Paths, t)
        BY ConnectedMore DEF Side
      <3> QED
        BY <3>3, <3>4
    <2> QED
      BY <1>2, <2>1, <2>2, <2>3
  <1>5. CASE c.port \notin Hosts
    <2>1. Region(c) = Side(Paths, c.port, c.at)
      BY <1>5 DEF Region
    <2>2. c.port \in Switches
      BY <1>2, <1>5, PortFacts
    <2>3. Beside(Paths, c.at, c.port)
      BY <1>1, <1>2, <2>2, TowardFacts
    <2>4. Beside(Paths, c.port, c.at)
      BY <2>3 DEF Beside
    <2>5. c.at \in Side(Paths, c.port, c.at)
      BY <1>3, <2>4, NoWayBack
    <2>6. ASSUME NEW t, t # c.port, Beside(Paths, c.at, t)
          PROVE  Side(Paths, c.at, t) \subseteq Side(Paths, c.port, c.at)
      BY <1>3, <2>3, <2>6, SidesApart
    <2> QED
      BY <1>2, <2>1, <2>5, <2>6
  <1> QED
    BY <1>4, <1>5

\* Where the copies that are sent on get to: parts of the region, apart from one
\* another and from the switch itself.
LEMMA SentRegions ==
  ASSUME WayInv, NEW c, NEW outs, SentOn(c, outs)
  PROVE  /\ c \in Pending /\ c.at \in Region(c)
         /\ \A d \in Sent(c, outs) :
              /\ d.frame = c.frame
              /\ Region(d) \subseteq Region(c)
              /\ d.at \in Region(d) /\ c.at \notin Region(d)
              /\ d # c
         /\ \A d, e \in Sent(c, outs) : d # e => Region(d) \cap Region(e) = {}
  <1>1. c \in Pending /\ Allowed(c.at, outs) /\ PathsInv
    BY DEF SentOn, WayInv
  <1>2. \A d \in Sent(c, outs) :
          /\ d.frame = c.frame /\ d.port = c.at
          /\ d.at \in (outs \ {c.port}) \cap Switches
          /\ d = Copy(c.frame, d.at, c.at)
    BY DEF SentOn, Emits
  <1>3. IsForest(Paths) /\ Directed(Paths)
    BY <1>1, PathsAreForest
  <1>4. /\ c.at \in Switches /\ c.at \in Region(c)
        /\ \A t \in Switches : t # c.port /\ Beside(Paths, c.at, t) =>
             Side(Paths, c.at, t) \subseteq Region(c)
    BY <1>1, RegionFacts
  <1>5. ASSUME NEW d \in Sent(c, outs)
        PROVE  /\ d.at \in Switches /\ d.at # c.port /\ Beside(Paths, c.at, d.at)
               /\ Region(d) = Side(Paths, c.at, d.at)
               /\ d.at \in Region(d) /\ c.at \notin Region(d)
               /\ d # c
    <2>1. d.at \in Switches /\ d.at # c.port /\ Beside(Paths, c.at, d.at) /\ d.port = c.at
      BY <1>1, <1>2 DEF Allowed
    <2>2. c.at \notin Hosts
      BY <1>4, NetworkAssumption
    <2>3. Region(d) = Side(Paths, c.at, d.at)
      BY <2>1, <2>2 DEF Region
    <2>4. d.at \in Region(d) /\ c.at \notin Region(d)
      BY <1>3, <2>1, <2>3, NoWayBack
    <2> QED
      BY <2>1, <2>3, <2>4
  <1>6. \A d \in Sent(c, outs) : Region(d) \subseteq Region(c)
    BY <1>4, <1>5
  <1>7. ASSUME NEW d \in Sent(c, outs), NEW e \in Sent(c, outs), d # e
        PROVE  Region(d) \cap Region(e) = {}
    <2>1. d.at # e.at
      BY <1>2, <1>7
    <2> QED
      BY <1>3, <1>5, <2>1, SidesApart
  <1> QED
    BY <1>1, <1>2, <1>4, <1>5, <1>6, <1>7

\* A copy that is sent on is taken from where it was, and those that are made
\* of it are new.
LEMMA SentOnceMore ==
  ASSUME OnceInv, NEW c, NEW outs, SentOn(c, outs)
  PROVE  Sent(c, outs) \cap Pending = {}
  <1>1. WayInv /\ Apart
    BY DEF OnceInv
  <1>2. ASSUME NEW d \in Sent(c, outs), d \in Pending PROVE FALSE
    <2>1. /\ c \in Pending /\ d.frame = c.frame /\ d # c
          /\ Region(d) \subseteq Region(c) /\ d.at \in Region(d)
      BY <1>1, SentRegions
    <2>2. Region(c) \cap Region(d) = {}
      BY <1>1, <1>2, <2>1 DEF Apart
    <2> QED
      BY <2>1, <2>2
  <1> QED
    BY <1>2

\* Sending a frame on keeps its copies apart, and each host gets it once.
LEMMA SentOnApart ==
  ASSUME OnceInv, NEW c, NEW outs, SentOn(c, outs), Paths' = Paths,
         Pending' = (Pending \ {c}) \cup Sent(c, outs)
  PROVE  Apart' /\ Reached'
  <1>1. WayInv /\ Apart /\ Reached /\ TypeInv /\ NetInv
    BY DEF OnceInv, WayInv, PathsInv, TypeInv
  <1>2. /\ c \in Pending /\ c.at \in Region(c)
        /\ \A d \in Sent(c, outs) :
             /\ d.frame = c.frame
             /\ Region(d) \subseteq Region(c)
             /\ d.at \in Region(d) /\ c.at \notin Region(d)
             /\ d # c
        /\ \A d, e \in Sent(c, outs) : d # e => Region(d) \cap Region(e) = {}
    BY <1>1, SentRegions
  <1>3. \A d : Region(d)' = Region(d)
    BY RegionStays
  <1>4. \A d \in Pending : d # c /\ d.frame = c.frame => Region(d) \cap Region(c) = {}
    BY <1>1, <1>2 DEF Apart
  <1>5. ASSUME NEW d \in Pending', NEW e \in Pending', d # e, d.frame = e.frame
        PROVE  Region(d) \cap Region(e) = {}
    <2>1. CASE d \in Sent(c, outs) /\ e \in Sent(c, outs)
      BY <1>2, <1>5, <2>1
    <2>2. CASE d \in Sent(c, outs) /\ e \in Pending \ {c}
      BY <1>2, <1>4, <1>5, <2>2
    <2>3. CASE e \in Sent(c, outs) /\ d \in Pending \ {c}
      BY <1>2, <1>4, <1>5, <2>3
    <2>4. CASE d \in Pending /\ e \in Pending
      BY <1>1, <1>5, <2>4 DEF Apart
    <2> QED
      BY <2>1, <2>2, <2>3, <2>4
  <1>6. Apart'
    BY <1>3, <1>5 DEF Apart
  <1>7. /\ c.at \in Switches /\ c.frame \in DOMAIN frames /\ frames[c.frame].src \in Hosts
        /\ c.port \in Toward(c.at, frames[c.frame].src)
    BY <1>1, <1>2, PendingFacts DEF WayInv, ArrivedInv
  <1>8. \A h \in Hosts : \A i \in 1 .. MaxFrames :
          received'[h][i] = IF h \in outs \ {c.port} /\ i = c.frame
                            THEN received[h][i] + 1 ELSE received[h][i]
    BY DEF SentOn, Emits
  <1>9. ASSUME NEW h \in Hosts, NEW i \in 1 .. MaxFrames, received'[h][i] # 0
        PROVE  /\ received'[h][i] = 1
               /\ i \in DOMAIN frames /\ frames[i].src # h
               /\ \A d \in Pending' : d.frame = i => Attached[h] \notin Region(d)
    <2>1. CASE h \in outs \ {c.port} /\ i = c.frame
      <3>1. Attached[h] = c.at
        BY <1>1, <1>7, <2>1, PortFacts DEF SentOn, Allowed
      <3>2. received[h][i] = 0
        BY <1>1, <1>2, <2>1, <3>1 DEF Reached
      <3>3. frames[i].src # h
        <4>1. frames[i].src = h => c.port = h
          BY <1>1, <1>7, <2>1, <3>1, TowardFacts DEF WayInv
        <4> QED
          BY <2>1, <4>1
      <3>4. \A d \in Pending' : d.frame = i => Attached[h] \notin Region(d)
        BY <1>2, <1>4, <2>1, <3>1
      <3> QED
        BY <1>7, <1>8, <2>1, <3>2, <3>3, <3>4
    <2>2. CASE ~ (h \in outs \ {c.port} /\ i = c.frame)
      <3>1. received'[h][i] = received[h][i]
        BY <1>8, <2>2
      <3>2. /\ received[h][i] = 1 /\ i \in DOMAIN frames /\ frames[i].src # h
            /\ \A d \in Pending : d.frame = i => Attached[h] \notin Region(d)
        BY <1>1, <1>9, <3>1 DEF Reached
      <3> QED
        BY <1>2, <3>1, <3>2
    <2> QED
      BY <2>1, <2>2
  <1>10. frames' = frames
    BY DEF SentOn
  <1>11. Reached'
    BY <1>3, <1>9, <1>10 DEF Reached
  <1> QED
    BY <1>6, <1>11

\* At first there are no frames.
LEMMA InitOnce ==
  ASSUME CyclesStay, Init
  PROVE  OnceInv
  <1>1. /\ events = <<>> /\ inFlight = EmptyBag
        /\ received = [h \in Hosts |-> [i \in 1 .. MaxFrames |-> 0]]
    BY DEF Init
  <1>2. DOMAIN inFlight = {} /\ Queued(events) = {} /\ QueuedOnce(events)
    BY <1>1 DEF Queued, QueuedOnce, EmptyBag, SetToBag
  <1>3. Pending = {}
    BY <1>2 DEF Pending
  <1>4. Single /\ Apart
    BY <1>2, <1>3 DEF Single, Apart
  <1>5. Reached
    BY <1>1 DEF Reached
  <1> QED
    BY <1>4, <1>5, InitWays DEF OnceInv

\* Copies may get lost.
LEMMA LosingKeepsOnce ==
  ASSUME OnceInv, Lost, Paths' = Paths
  PROVE  Apart' /\ Reached'
  <1>1. \A d : Region(d)' = Region(d)
    BY RegionStays
  <1> QED
    BY <1>1 DEF OnceInv, Lost, Apart, Reached

\* A host sends a frame that has no copies yet.
LEMMA SendingKeepsOnce ==
  ASSUME OnceInv, NEW h \in Hosts, NEW d \in Hosts \cup {Broadcast}, HostSends(h, d),
         Paths' = Paths
  PROVE  Single' /\ Apart' /\ Reached'
  <1> DEFINE n == Len(frames) + 1
             x == Copy(n, Attached[h], h)
  <1>1. TypeInv /\ Single /\ Apart /\ Reached
    BY DEF OnceInv, WayInv, PathsInv
  <1>2. UNCHANGED <<events, received>>
    BY DEF HostSends
  <1>3. /\ inFlight' = inFlight (+) SetToBag({x})
        /\ Pending' = Pending \cup {x} /\ n \notin DOMAIN frames
        /\ DOMAIN frames' = DOMAIN frames \cup {n}
        /\ \A i \in DOMAIN frames : frames'[i] = frames[i]
    BY <1>1, HostSendsTypes
  <1>4. x.frame = n
    BY DEF Copy
  <1>5. \A c \in Pending : c.frame \in DOMAIN frames
    BY <1>1, PendingFacts
  <1>6. \A c : Region(c)' = Region(c)
    BY RegionStays
  <1> HIDE DEF n, x
  <1>7. x \notin Pending
    BY <1>3, <1>4, <1>5
  <1>8. {x} \cap DOMAIN inFlight = {} /\ \A y \in DOMAIN inFlight : inFlight[y] = 1
    BY <1>1, <1>7 DEF Pending, Single
  <1>9. /\ DOMAIN inFlight' = DOMAIN inFlight \cup {x}
        /\ \A y \in DOMAIN inFlight \cup {x} : inFlight'[y] = 1
    <2>1. PICK S : S = {x}
      OBVIOUS
    <2>2. inFlight' = inFlight (+) SetToBag(S) /\ S \cap DOMAIN inFlight = {}
      BY <1>3, <1>8, <2>1
    <2>3. /\ DOMAIN inFlight' = DOMAIN inFlight \cup S
          /\ \A y \in DOMAIN inFlight \cup S : inFlight'[y] = 1
      BY <1>8, <2>2, NewCopies
    <2> QED
      BY <2>1, <2>3
  <1>10. Single'
    BY <1>1, <1>2, <1>7, <1>9 DEF Single, Pending, Queued, QueuedOnce
  <1>11. Apart'
    BY <1>1, <1>3, <1>4, <1>5, <1>6 DEF Apart
  <1>12. Reached'
    BY <1>1, <1>2, <1>3, <1>4, <1>5, <1>6 DEF Reached
  <1> QED
    BY <1>10, <1>11, <1>12

\* Every step keeps the copies apart.
LEMMA OnceStays ==
  ASSUME OnceInv, [Next]_vars
  PROVE  OnceInv'
  <1>1. WayInv /\ Single /\ Apart /\ Reached /\ TypeInv /\ PathsInv
    BY DEF OnceInv, WayInv, PathsInv
  <1>2. WayInv' /\ Paths' = Paths
    BY <1>1, WaysStay, PathsStay
  <1>3. ASSUME Single', Apart', Reached' PROVE OnceInv'
    BY <1>2, <1>3 DEF OnceInv
  <1>4. ASSUME Lost, Single' PROVE OnceInv'
    BY <1>2, <1>3, <1>4, LosingKeepsOnce
  <1>5. /\ \A c \in DOMAIN inFlight : inFlight[c] = 1
        /\ QueuedOnce(events)
        /\ DOMAIN inFlight \cap Queued(events) = {}
    BY <1>1 DEF Single
  <1>6. ASSUME /\ \A c \in DOMAIN inFlight' : inFlight'[c] = 1
               /\ QueuedOnce(events')
               /\ DOMAIN inFlight' \cap Queued(events') = {}
        PROVE  Single'
    BY <1>6 DEF Single, QueuedOnce, Queued
  <1>7. Pending' = DOMAIN inFlight' \cup Queued(events')
    BY DEF Pending, Queued
  <1>8. CASE UNCHANGED vars
    BY <1>4, <1>5, <1>6, <1>7, <1>8 DEF vars, Lost, Pending
  <1>9. ASSUME NEW h \in Hosts, NEW d \in Hosts \cup {Broadcast}, HostSends(h, d)
        PROVE  OnceInv'
    BY <1>2, <1>3, <1>9, SendingKeepsOnce
  <1>10. ASSUME NEW c \in BagToSet(inFlight), TableHit(c)
         PROVE  OnceInv'
    <2> DEFINE rest == inFlight (-) SetToBag({c})
    <2>1. PICK outs : /\ SentOn(c, outs) /\ Emits(c, outs, rest)
                      /\ c \in DOMAIN inFlight /\ UNCHANGED events
      BY <1>1, <1>10, TableHitSends
    <2>2. DOMAIN rest = DOMAIN inFlight \ {c} /\ \A y \in DOMAIN inFlight \ {c} : rest[y] = 1
      BY <1>5, BagFacts
    <2> HIDE DEF rest
    <2>3. Sent(c, outs) \cap Pending = {}
      BY <2>1, SentOnceMore
    <2>4. inFlight' = rest (+) SetToBag(Sent(c, outs))
      BY <2>1 DEF Emits
    <2>5. Sent(c, outs) \cap DOMAIN rest = {} /\ \A y \in DOMAIN rest : rest[y] = 1
      BY <2>2, <2>3 DEF Pending
    <2>6. /\ DOMAIN inFlight' = DOMAIN rest \cup Sent(c, outs)
          /\ \A y \in DOMAIN rest \cup Sent(c, outs) : inFlight'[y] = 1
      BY <2>4, <2>5, NewCopies
    <2>7. Single'
      <3>1. DOMAIN inFlight' \cap Queued(events') = {}
        BY <1>5, <2>1, <2>2, <2>3, <2>6 DEF Pending
      <3> QED
        BY <1>5, <1>6, <2>1, <2>6, <3>1
    <2>8. Pending' = (Pending \ {c}) \cup Sent(c, outs)
      <3>1. c \notin Queued(events)
        BY <1>5, <2>1
      <3> QED
        BY <1>7, <2>1, <2>2, <2>6, <3>1 DEF Pending
    <2> QED
      BY <1>2, <1>3, <2>1, <2>7, <2>8, SentOnApart
  <1>11. ASSUME NEW c \in BagToSet(inFlight), TableMiss(c)
         PROVE  OnceInv'
    <2>1. /\ Pending' \subseteq Pending /\ c \in DOMAIN inFlight
          /\ inFlight' = inFlight (-) SetToBag({c})
          /\ Queued(events') = Queued(events) \cup {c}
          /\ QueuedOnce(events) /\ c \notin Queued(events) => QueuedOnce(events')
          /\ UNCHANGED <<learned, rules, frames, received>>
      BY <1>1, <1>11, TableMissTypes
    <2>2. /\ DOMAIN inFlight' = DOMAIN inFlight \ {c}
          /\ \A y \in DOMAIN inFlight \ {c} : inFlight'[y] = 1
      BY <1>5, <2>1, BagFacts
    <2>3. Single'
      BY <1>5, <1>6, <2>1, <2>2
    <2> QED
      BY <1>4, <2>1, <2>3 DEF Lost
  <1>12. CASE TopologyStep
    <2>1. /\ Pending' \subseteq Pending
          /\ DOMAIN inFlight' \subseteq DOMAIN inFlight
          /\ \A c \in DOMAIN inFlight' : inFlight'[c] = inFlight[c]
          /\ Queued(events') = Queued(events)
          /\ QueuedOnce(events) => QueuedOnce(events')
          /\ UNCHANGED <<learned, rules, frames, received>>
      BY <1>1, <1>12, TopologyStepTypes
    <2>2. Single'
      BY <1>5, <1>6, <2>1
    <2> QED
      BY <1>4, <2>1, <2>2 DEF Lost
  <1>13. CASE TopologyChange
    <2>1. /\ Pending' \subseteq Pending
          /\ Queued(events') = Queued(events)
          /\ QueuedOnce(events')
          /\ UNCHANGED <<learned, rules, frames, inFlight, received>>
      BY <1>1, <1>5, <1>13, TopologyChangeTypes
    <2>2. Single'
      BY <1>5, <1>6, <2>1
    <2> QED
      BY <1>4, <2>1, <2>2 DEF Lost
  <1>14. CASE PacketIn
    <2>1. PICK c \in Queued(events) : \E o :
            /\ SentOn(c, o) /\ Emits(c, o, inFlight)
            /\ events # <<>> /\ Head(events).type = "packet_in" /\ c = Head(events).copy
            /\ events' = Tail(events)
      BY <1>1, <1>14, PacketInSends
    <2>2. PICK outs : SentOn(c, outs) /\ Emits(c, outs, inFlight)
      BY <2>1
    <2>3. QueuedOnce(events') /\ Queued(events') = Queued(events) \ {c}
      BY <1>1, <1>5, <2>1, QueueShrinks DEF TypeInv, TrafficInv
    <2>4. Sent(c, outs) \cap Pending = {}
      BY <2>2, SentOnceMore
    <2>5. inFlight' = inFlight (+) SetToBag(Sent(c, outs))
      BY <2>2 DEF Emits
    <2>6. Sent(c, outs) \cap DOMAIN inFlight = {}
      BY <2>4 DEF Pending
    <2>7. /\ DOMAIN inFlight' = DOMAIN inFlight \cup Sent(c, outs)
          /\ \A y \in DOMAIN inFlight \cup Sent(c, outs) : inFlight'[y] = 1
      BY <1>5, <2>5, <2>6, NewCopies
    <2>8. Single'
      <3>1. DOMAIN inFlight' \cap Queued(events') = {}
        BY <1>5, <2>3, <2>4, <2>7 DEF Pending
      <3> QED
        BY <1>6, <2>3, <2>7, <3>1
    <2>9. Pending' = (Pending \ {c}) \cup Sent(c, outs)
      <3>1. c \notin DOMAIN inFlight
        BY <1>5
      <3> QED
        BY <1>7, <2>3, <2>7, <3>1 DEF Pending
    <2> QED
      BY <1>2, <1>3, <2>2, <2>8, <2>9, SentOnApart
  <1> QED
    BY <1>8, <1>9, <1>10, <1>11, <1>12, <1>13, <1>14, Steps

\* A host gets each frame at most once and never its own, whatever is flooded,
\* learned and switched meanwhile, if links only come and go in wirings without
\* a cycle.
THEOREM FramesArriveOnce ==
  ASSUME CyclesStay
  PROVE  Spec => []AtMostOnce
  <1>1. Init => OnceInv
    BY InitOnce
  <1>2. OnceInv /\ [Next]_vars => OnceInv'
    BY OnceStays
  <1>3. OnceInv => AtMostOnce
    <2> SUFFICES ASSUME OnceInv, NEW i \in DOMAIN frames, NEW h \in Hosts
                 PROVE  received[h][i] <= IF frames[i].src = h THEN 0 ELSE 1
      BY DEF AtMostOnce
    <2>1. frames \in Seq(Frames) /\ Len(frames) <= MaxFrames
      BY DEF OnceInv, WayInv, PathsInv, TypeInv, TrafficInv
    <2>2. i \in 1 .. Len(frames) /\ Len(frames) \in Nat
      BY <2>1
    <2>3. i \in 1 .. MaxFrames
      BY <2>1, <2>2, NetworkAssumption
    <2>4. received[h][i] = 0 \/ (received[h][i] = 1 /\ frames[i].src # h)
      BY <2>3 DEF OnceInv, Reached
    <2> QED
      BY <2>4
  <1> QED
    BY <1>1, <1>2, <1>3, PTL DEF Spec
=============================================================================

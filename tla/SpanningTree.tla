--------------------------- MODULE SpanningTree ---------------------------
(***************************************************************************)
(* compute_mst() of the spanning-tree controller (p2_spanning_tree.py):    *)
(* Kruskal's algorithm with union-find over the links that topology        *)
(* discovery has reported, and the graph notions that say what its result  *)
(* is for.  A link is a pair <<src, dst>> of datapath identifiers; a tree  *)
(* edge is a pair with its smaller end first.                              *)
(***************************************************************************)
EXTENDS Naturals, FiniteSets, Sequences, Folds

-----------------------------------------------------------------------------
(* Union-find.  parent maps each switch of adj to its parent. *)

Root(parent, u) ==
  LET root[v \in DOMAIN parent] == IF parent[v] = v THEN v ELSE root[parent[v]]
  IN root[u]

\* The path halving find(u) leaves behind: every second switch on the way to
\* the root now hangs under its grandparent.
Halve(parent, u) ==
  LET passed[v \in DOMAIN parent] ==
        IF parent[v] = v THEN {} ELSE {v} \cup passed[parent[parent[v]]]
  IN [v \in DOMAIN parent |->
        IF v \in passed[u] THEN parent[parent[v]] ELSE parent[v]]

\* Mutant: the roots are hung under each other without comparing them.
UnionAlways(uf, e) ==
  LET parent == Halve(Halve(uf.parent, e[1]), e[2])
      u == Root(parent, e[1])
      v == Root(parent, e[2])
  IN [uf EXCEPT !.parent = [parent EXCEPT ![v] = u], !.mst = @ \cup {e}]

\* union(u, v), and the edge added to the tree when it joined two parts.
Union(uf, e) ==
  LET parent == Halve(Halve(uf.parent, e[1]), e[2])
      u == Root(parent, e[1])
      v == Root(parent, e[2])
  IN IF u = v
     THEN [uf EXCEPT !.parent = parent]
     ELSE [parent |-> IF uf.rank[u] < uf.rank[v]
                      THEN [parent EXCEPT ![u] = v]
                      ELSE [parent EXCEPT ![v] = u],
           rank |-> IF uf.rank[u] = uf.rank[v]
                    THEN [uf.rank EXCEPT ![u] = @ + 1]
                    ELSE uf.rank,
           mst |-> uf.mst \cup {e}]

\* The edges of adj: get_topology_data() enters a link in both directions,
\* whichever of the two was reported.
Edges(links) ==
  {<<IF l[1] < l[2] THEN l[1] ELSE l[2], IF l[1] < l[2] THEN l[2] ELSE l[1]>> :
     l \in links}

Nodes(edges) == UNION {{e[1], e[2]} : e \in edges}

\* The edge that comes last in the order of edges.sort().
Last(edges) ==
  CHOOSE e \in edges :
    \A d \in edges : d[1] < e[1] \/ (d[1] = e[1] /\ d[2] <= e[2])

\* Union over the sorted edges: the last edge is added to what the others gave.
ComputeMst(links) ==
  LET edges == Edges(links)
      start == [parent |-> [v \in Nodes(edges) |-> v],
                rank |-> [v \in Nodes(edges) |-> 0],
                mst |-> {}]
  IN MapThenFoldSet(LAMBDA e, uf : Union(uf, e), start, LAMBDA e : e, Last,
                    edges).mst

-----------------------------------------------------------------------------
(* What a forest is, independently of the algorithm. *)

\* The switches that edges connect with s: those in every set that holds s and
\* that no edge leaves.
ConnectedTo(edges, s) ==
  {v \in Nodes(edges) \cup {s} :
     \A S \in SUBSET (Nodes(edges) \cup {s}) :
       s \in S /\ (\A e \in edges : e[1] \in S <=> e[2] \in S) => v \in S}

\* No edge closes a cycle: without it, its ends are no longer connected.
IsForest(edges) == \A e \in edges : e[2] \notin ConnectedTo(edges \ {e}, e[1])

\* The same switches are connected.
SameParts(edges, others) ==
  \A s \in Nodes(edges) \cup Nodes(others) :
    ConnectedTo(edges, s) = ConnectedTo(others, s)

\* In a forest, the neighbour of s on the way to d, if there is one.
NextHops(edges, s, d) ==
  {n \in Nodes(edges) :
     \/ /\ <<s, n>> \in edges
        /\ d \in ConnectedTo(edges \ {<<s, n>>}, n)
     \/ /\ <<n, s>> \in edges
        /\ d \in ConnectedTo(edges \ {<<n, s>>}, n)}
=============================================================================

--------------------------- MODULE GraphSearchProofs ---------------------------
(***************************************************************************)
(* The search over the graph, proved for any graph, start and depth: the   *)
(* recursive query finds what paths of bounded length define.              *)
(***************************************************************************)
EXTENDS GraphSearch, ListLemmas

-----------------------------------------------------------------------------
(* Paths.                                                                  *)

\* A path of len steps from the start to n.
Steps(edges, nodes, start, n, len) ==
  \E p \in [0..len -> nodes] : p[0] = start /\ p[len] = n /\ Path(edges, p)

IsGraph(edges, nodes) == \A e \in edges : e.from \in nodes /\ e.to \in nodes

\* A path has an edge for each of its steps.
LEMMA PathSteps ==
  ASSUME NEW edges, NEW len \in Nat, NEW p, DOMAIN p = 0..len
  PROVE  Path(edges, p) <=>
           \A i \in 1..len : \E e \in edges : e.from = p[i - 1] /\ e.to = p[i]
<1>1. Cardinality(0..len) = len + 1
  BY FS_Interval
<1>2. Cardinality(DOMAIN p) - 1 = len
  BY <1>1
<1> QED
  BY <1>2 DEF Path

\* Without a step one stays at the start.
LEMMA NoSteps ==
  ASSUME NEW edges, NEW nodes, NEW start \in nodes, NEW n
  PROVE  Steps(edges, nodes, start, n, 0) <=> n = start
<1>1. ASSUME n = start
      PROVE  Steps(edges, nodes, start, n, 0)
  <2> DEFINE p == [i \in 0..0 |-> start]
  <2>1. p \in [0..0 -> nodes] /\ DOMAIN p = 0..0 /\ p[0] = start
    OBVIOUS
  <2> HIDE DEF p
  <2>2. Path(edges, p)
    <3>1. 0 \in Nat /\ \A i \in 1..0 : FALSE
      OBVIOUS
    <3> QED
      BY <2>1, <3>1, PathSteps
  <2> QED
    BY <1>1, <2>1, <2>2 DEF Steps
<1> QED
  BY <1>1 DEF Steps

\* One step more is one edge more.
LEMMA OneStepMore ==
  ASSUME NEW edges, NEW nodes, IsGraph(edges, nodes), NEW start, NEW n, NEW len \in Nat
  PROVE  Steps(edges, nodes, start, n, len + 1) <=>
           \E e \in edges : Steps(edges, nodes, start, e.from, len) /\ e.to = n
<1>1. ASSUME Steps(edges, nodes, start, n, len + 1)
      PROVE  \E e \in edges : Steps(edges, nodes, start, e.from, len) /\ e.to = n
  <2>1. PICK p \in [0..(len + 1) -> nodes] : p[0] = start /\ p[len + 1] = n /\ Path(edges, p)
    BY <1>1 DEF Steps
  <2>2. \A i \in 1..(len + 1) : \E e \in edges : e.from = p[i - 1] /\ e.to = p[i]
    <3>1. DOMAIN p = 0..(len + 1) /\ len + 1 \in Nat
      OBVIOUS
    <3> QED
      BY <2>1, <3>1, PathSteps
  <2>3. PICK e \in edges : e.from = p[len] /\ e.to = n
    BY <2>1, <2>2
  <2> DEFINE q == [i \in 0..len |-> p[i]]
  <2>4. q \in [0..len -> nodes] /\ DOMAIN q = 0..len /\ q[0] = start /\ q[len] = e.from
    BY <2>1, <2>3
  <2>5. ASSUME NEW i \in 1..len
        PROVE  \E f \in edges : f.from = q[i - 1] /\ f.to = q[i]
    <3>1. i \in 1..(len + 1) /\ q[i - 1] = p[i - 1] /\ q[i] = p[i]
      OBVIOUS
    <3> QED
      BY <2>2, <3>1
  <2> HIDE DEF q
  <2>6. Path(edges, q)
    BY <2>4, <2>5, PathSteps
  <2> QED
    BY <2>3, <2>4, <2>6 DEF Steps
<1>2. ASSUME NEW e \in edges, Steps(edges, nodes, start, e.from, len), e.to = n
      PROVE  Steps(edges, nodes, start, n, len + 1)
  <2>1. PICK q \in [0..len -> nodes] : q[0] = start /\ q[len] = e.from /\ Path(edges, q)
    BY <1>2 DEF Steps
  <2>2. \A i \in 1..len : \E f \in edges : f.from = q[i - 1] /\ f.to = q[i]
    <3>1. DOMAIN q = 0..len
      OBVIOUS
    <3> QED
      BY <2>1, <3>1, PathSteps
  <2> DEFINE p == [i \in 0..(len + 1) |-> IF i = len + 1 THEN n ELSE q[i]]
  <2>3. n \in nodes
    BY <1>2 DEF IsGraph
  <2>4. /\ p \in [0..(len + 1) -> nodes] /\ DOMAIN p = 0..(len + 1)
        /\ p[0] = start /\ p[len + 1] = n /\ len + 1 \in Nat
    BY <2>1, <2>3
  <2>5. ASSUME NEW i \in 1..(len + 1)
        PROVE  \E f \in edges : f.from = p[i - 1] /\ f.to = p[i]
    <3>1. CASE i = len + 1
      <4>1. p[i - 1] = e.from /\ p[i] = e.to
        BY <1>2, <2>1, <3>1
      <4> QED
        BY <4>1
    <3>2. CASE i # len + 1
      <4>1. i \in 1..len /\ p[i - 1] = q[i - 1] /\ p[i] = q[i]
        BY <3>2
      <4> QED
        BY <2>2, <4>1
    <3> QED
      BY <3>1, <3>2
  <2> HIDE DEF p
  <2>6. Path(edges, p)
    BY <2>4, <2>5, PathSteps
  <2> QED
    BY <2>4, <2>6 DEF Steps
<1> QED
  BY <1>1, <1>2

-----------------------------------------------------------------------------
(* The recursive query.                                                    *)

\* What one pass of the recursion makes of the walks that it has.
Advanced(edges, start, maxDepth, types, at) ==
  [k \in 1..maxDepth |->
     {e \in OfTypes(edges, types) :
        IF k = 1 THEN e.from = start ELSE \E g \in at[k - 1] : e.from = g.to}]

\* The relationships that begin k - 1 steps away from the start.
Beginning(edges, nodes, start, maxDepth, types) ==
  [k \in 1..maxDepth |->
     {e \in OfTypes(edges, types) :
        Steps(OfTypes(edges, types), nodes, start, e.from, k - 1)}]

\* They are what the recursion leaves as it is.
LEMMA BeginningIsFixed ==
  ASSUME NEW edges, NEW nodes, IsGraph(edges, nodes), NEW start \in nodes,
         NEW maxDepth \in Nat, NEW types
  PROVE  LET at == Beginning(edges, nodes, start, maxDepth, types)
         IN  at = Advanced(edges, start, maxDepth, types, at)
<1> DEFINE typed == OfTypes(edges, types)
           at == Beginning(edges, nodes, start, maxDepth, types)
           next == Advanced(edges, start, maxDepth, types, at)
<1>1. IsGraph(typed, nodes)
  BY DEF IsGraph, OfTypes
<1> SUFFICES ASSUME NEW k \in 1..maxDepth
             PROVE  at[k] = next[k]
  BY DEF Beginning, Advanced
<1>2. at[k] = {e \in typed : Steps(typed, nodes, start, e.from, k - 1)}
  BY DEF Beginning
<1>3. next[k] = {e \in typed : IF k = 1 THEN e.from = start
                               ELSE \E g \in at[k - 1] : e.from = g.to}
  BY DEF Advanced
<1>4. CASE k = 1
  <2>1. \A e \in typed : Steps(typed, nodes, start, e.from, k - 1) <=> e.from = start
    BY <1>4, NoSteps
  <2> QED
    BY <1>2, <1>3, <1>4, <2>1
<1>5. CASE k # 1
  <2>1. k - 1 \in 1..maxDepth /\ k - 2 \in Nat /\ (k - 1) - 1 = k - 2 /\ (k - 2) + 1 = k - 1
    BY <1>5
  <2>2. at[k - 1] = {g \in typed : Steps(typed, nodes, start, g.from, k - 2)}
    BY <2>1 DEF Beginning
  <2>3. ASSUME NEW e \in typed
        PROVE  Steps(typed, nodes, start, e.from, k - 1) <=> \E g \in at[k - 1] : e.from = g.to
    <3>1. Steps(typed, nodes, start, e.from, k - 1) <=>
            \E g \in typed : Steps(typed, nodes, start, g.from, k - 2) /\ g.to = e.from
      BY <1>1, <2>1, OneStepMore
    <3> QED
      BY <2>2, <3>1
  <2> QED
    BY <1>2, <1>3, <1>5, <2>3
<1> QED
  BY <1>4, <1>5

\* Nothing else is.
LEMMA OneIsFixed ==
  ASSUME NEW edges, NEW start, NEW maxDepth \in Nat, NEW types, NEW f, NEW g,
         f = Advanced(edges, start, maxDepth, types, f),
         g = Advanced(edges, start, maxDepth, types, g)
  PROVE  f = g
<1> DEFINE Agree == {n \in Nat : n \in 1..maxDepth => f[n] = g[n]}
<1>1. 0 \in Agree
  OBVIOUS
<1>2. ASSUME NEW n \in Nat, n \in Agree
      PROVE  n + 1 \in Agree
  <2> SUFFICES ASSUME n + 1 \in 1..maxDepth
               PROVE  f[n + 1] = g[n + 1]
    OBVIOUS
  <2>1. /\ f[n + 1] = {e \in OfTypes(edges, types) :
                         IF n + 1 = 1 THEN e.from = start
                         ELSE \E x \in f[(n + 1) - 1] : e.from = x.to}
        /\ g[n + 1] = {e \in OfTypes(edges, types) :
                         IF n + 1 = 1 THEN e.from = start
                         ELSE \E x \in g[(n + 1) - 1] : e.from = x.to}
    BY DEF Advanced
  <2>2. n + 1 # 1 => f[(n + 1) - 1] = g[(n + 1) - 1]
    BY <1>2
  <2> QED
    BY <2>1, <2>2
<1> HIDE DEF Agree
<1>3. Nat \subseteq Agree
  BY <1>1, <1>2, EveryNumber
<1>4. \A k \in 1..maxDepth : f[k] = g[k]
  BY <1>3 DEF Agree
<1> QED
  BY <1>4 DEF Advanced

\* So the recursive query finds at depth k the relationships that begin k - 1
\* steps away.
LEMMA WalkBegins ==
  ASSUME NEW edges, NEW nodes, IsGraph(edges, nodes), NEW start \in nodes,
         NEW maxDepth \in Nat, NEW types
  PROVE  Walk(edges, start, maxDepth, types) = Beginning(edges, nodes, start, maxDepth, types)
<1> DEFINE at == Beginning(edges, nodes, start, maxDepth, types)
           walk == Walk(edges, start, maxDepth, types)
<1>1. at = Advanced(edges, start, maxDepth, types, at)
  BY BeginningIsFixed
<1>2. walk = CHOOSE f : f = Advanced(edges, start, maxDepth, types, f)
  BY DEF Walk, Advanced
<1> HIDE DEF at, walk
<1>3. walk = Advanced(edges, start, maxDepth, types, walk)
  BY <1>1, <1>2
<1>4. walk = at
  BY <1>1, <1>3, OneIsFixed
<1> QED
  BY <1>4 DEF walk, at

-----------------------------------------------------------------------------
(* The traversal and the search.                                           *)

\* The depths at which a relationship is found.
LEMMA FoundAt ==
  ASSUME NEW edges, NEW nodes, IsGraph(edges, nodes), NEW start \in nodes,
         NEW maxDepth \in Nat, NEW types, NEW e, NEW k \in 1..maxDepth
  PROVE  e \in Walk(edges, start, maxDepth, types)[k] <=>
           /\ e \in OfTypes(edges, types)
           /\ Steps(OfTypes(edges, types), nodes, start, e.from, k - 1)
<1>1. Walk(edges, start, maxDepth, types)[k] =
        Beginning(edges, nodes, start, maxDepth, types)[k]
  BY WalkBegins
<1> QED
  BY <1>1 DEF Beginning

\* A node is within k steps if it is some number of steps away that is at most k.
LEMMA WithinSteps ==
  ASSUME NEW edges, NEW nodes, NEW start, NEW n, NEW k
  PROVE  Within(edges, nodes, start, n, k) <=>
           \E len \in 0..k : Steps(edges, nodes, start, n, len)
BY DEF Within, Steps

\* The rows have every relationship that is found, at the least of its depths.
LEMMA RowsAreLeast ==
  ASSUME NEW edges, NEW nodes, IsGraph(edges, nodes), NEW start \in nodes,
         NEW maxDepth \in Nat, NEW types, NEW e, NEW d
  PROVE  [edge |-> e, depth |-> d] \in Rows(edges, start, maxDepth, types) <=>
           /\ e \in OfTypes(edges, types) /\ d \in 1..maxDepth
           /\ Steps(OfTypes(edges, types), nodes, start, e.from, d - 1)
           /\ \A k \in 1..maxDepth :
                Steps(OfTypes(edges, types), nodes, start, e.from, k - 1) => d <= k
<1> DEFINE typed == OfTypes(edges, types)
           at == Walk(edges, start, maxDepth, types)
           Depths(f) == {k \in 1..maxDepth : f \in at[k]}
           Least(f) == CHOOSE k \in Depths(f) : \A j \in Depths(f) : k <= j
<1>1. Rows(edges, start, maxDepth, types) =
        {[edge |-> f, depth |-> Least(f)] : f \in {f \in edges : Depths(f) # {}}}
  BY DEF Rows
<1>2. typed \subseteq edges
  BY DEF OfTypes
<1>3. \A f : Depths(f) = {k \in 1..maxDepth : f \in typed /\ Steps(typed, nodes, start, f.from, k - 1)}
  BY FoundAt
<1> HIDE DEF Depths, typed
<1>4. ASSUME NEW f, Depths(f) # {}
      PROVE  Least(f) \in Depths(f) /\ \A j \in Depths(f) : Least(f) <= j
  <2>1. Depths(f) \subseteq Nat
    BY <1>3
  <2>2. \E k \in Depths(f) : \A j \in Depths(f) : k <= j
    BY <1>4, <2>1, LeastNumber
  <2> QED
    BY <2>2
<1> HIDE DEF Least
<1>5. [edge |-> e, depth |-> d] \in Rows(edges, start, maxDepth, types) <=>
        e \in edges /\ Depths(e) # {} /\ d = Least(e)
  <2>1. ASSUME NEW f, [edge |-> e, depth |-> d] = [edge |-> f, depth |-> Least(f)]
        PROVE  e = f /\ d = Least(f)
    BY <2>1
  <2> QED
    BY <1>1, <2>1
<1>6. ASSUME e \in edges, Depths(e) # {}, d = Least(e)
      PROVE  /\ e \in typed /\ d \in 1..maxDepth
             /\ Steps(typed, nodes, start, e.from, d - 1)
             /\ \A k \in 1..maxDepth : Steps(typed, nodes, start, e.from, k - 1) => d <= k
  BY <1>3, <1>4, <1>6
<1>7. ASSUME e \in typed, d \in 1..maxDepth, Steps(typed, nodes, start, e.from, d - 1),
             \A k \in 1..maxDepth : Steps(typed, nodes, start, e.from, k - 1) => d <= k
      PROVE  e \in edges /\ Depths(e) # {} /\ d = Least(e)
  <2>1. d \in Depths(e) /\ \A j \in Depths(e) : d <= j
    BY <1>3, <1>7
  <2>2. Least(e) \in Depths(e) /\ Least(e) <= d
    BY <1>4, <2>1
  <2>3. Least(e) \in Nat /\ d \in Nat
    BY <1>3, <2>1, <2>2
  <2> QED
    BY <1>2, <1>7, <2>1, <2>2, <2>3
<1> QED
  BY <1>5, <1>6, <1>7 DEF typed

\* A traversal returns every relationship that begins less than maxDepth steps
\* away, with that distance plus one as its depth, and nothing else: for every
\* graph, start, depth and filter.
THEOREM TraversalTheorem ==
  ASSUME NEW edges, NEW nodes, IsGraph(edges, nodes), NEW start \in nodes,
         NEW maxDepth \in Nat, NEW types
  PROVE  TraversalIsExact(edges, nodes, start, maxDepth, types)
<1> DEFINE typed == OfTypes(edges, types)
           rows == Rows(edges, start, maxDepth, types)
           exact == {[edge |-> e, depth |-> k] : e \in typed, k \in 1..maxDepth}
                      \cap {r \in [edge : edges, depth : 1..maxDepth] :
                              /\ Within(typed, nodes, start, r.edge.from, r.depth - 1)
                              /\ r.depth > 1 => ~Within(typed, nodes, start, r.edge.from, r.depth - 2)}
<1>1. typed \subseteq edges
  BY DEF OfTypes
<1>2. ASSUME NEW r, r \in rows \/ r \in exact
      PROVE  \E e \in edges, d \in 1..maxDepth : r = [edge |-> e, depth |-> d]
  <2>1. CASE r \in rows
    <3>1. PICK e, d : r = [edge |-> e, depth |-> d]
      BY <2>1 DEF Rows
    <3>2. e \in typed /\ d \in 1..maxDepth
      BY <2>1, <3>1, RowsAreLeast
    <3> QED
      BY <1>1, <3>1, <3>2
  <2>2. CASE r \in exact
    BY <2>2
  <2> QED
    BY <1>2, <2>1, <2>2
<1>3. ASSUME NEW e \in edges, NEW d \in 1..maxDepth
      PROVE  [edge |-> e, depth |-> d] \in rows <=> [edge |-> e, depth |-> d] \in exact
  <2>1. [edge |-> e, depth |-> d] \in exact <=>
          /\ e \in typed
          /\ Within(typed, nodes, start, e.from, d - 1)
          /\ d > 1 => ~Within(typed, nodes, start, e.from, d - 2)
    <3> DEFINE row == [edge |-> e, depth |-> d]
    <3> HIDE DEF typed
    <3>1. row \in {[edge |-> f, depth |-> k] : f \in typed, k \in 1..maxDepth} <=> e \in typed
      <4>1. ASSUME NEW f \in typed, NEW k \in 1..maxDepth, row = [edge |-> f, depth |-> k]
            PROVE  e \in typed
        <5>1. row.edge = e /\ row.edge = f
          BY <4>1
        <5> QED
          BY <5>1
      <4>2. ASSUME e \in typed
            PROVE  \E f \in typed, k \in 1..maxDepth : row = [edge |-> f, depth |-> k]
        BY <4>2
      <4>3. \A x : x \in {[edge |-> f, depth |-> k] : f \in typed, k \in 1..maxDepth} <=>
                   \E f \in typed, k \in 1..maxDepth : x = [edge |-> f, depth |-> k]
        OBVIOUS
      <4> HIDE DEF row
      <4> QED
        BY <4>1, <4>2, <4>3
    <3>2. row \in [edge : edges, depth : 1..maxDepth] /\ row.edge = e /\ row.depth = d
      OBVIOUS
    <3> HIDE DEF row
    <3>3. row \in exact <=>
            /\ e \in typed
            /\ Within(typed, nodes, start, row.edge.from, row.depth - 1)
            /\ row.depth > 1 => ~Within(typed, nodes, start, row.edge.from, row.depth - 2)
      BY <3>1, <3>2
    <3> QED
      BY <3>2, <3>3 DEF row
  <2>2. [edge |-> e, depth |-> d] \in rows <=>
           /\ e \in typed
           /\ Steps(typed, nodes, start, e.from, d - 1)
           /\ \A k \in 1..maxDepth : Steps(typed, nodes, start, e.from, k - 1) => d <= k
    BY RowsAreLeast
  <2> DEFINE Away(len) == Steps(typed, nodes, start, e.from, len)
  <2>3. /\ Within(typed, nodes, start, e.from, d - 1) <=> \E len \in 0..(d - 1) : Away(len)
        /\ Within(typed, nodes, start, e.from, d - 2) <=> \E len \in 0..(d - 2) : Away(len)
    BY WithinSteps
  <2> HIDE DEF Away
  <2>4. ASSUME Away(d - 1), \A k \in 1..maxDepth : Away(k - 1) => d <= k
        PROVE  /\ \E len \in 0..(d - 1) : Away(len)
               /\ d > 1 => ~ \E len \in 0..(d - 2) : Away(len)
    <3>1. ASSUME NEW len \in 0..(d - 2)
          PROVE  ~ Away(len)
      <4>1. len + 1 \in 1..maxDepth /\ (len + 1) - 1 = len /\ ~ (d <= len + 1)
        OBVIOUS
      <4> QED
        BY <2>4, <4>1
    <3> QED
      BY <2>4, <3>1
  <2>5. ASSUME NEW len \in 0..(d - 1), Away(len),
               d > 1 => ~ \E l \in 0..(d - 2) : Away(l)
        PROVE  Away(d - 1) /\ \A k \in 1..maxDepth : Away(k - 1) => d <= k
    <3>1. len = d - 1
      BY <2>5
    <3>2. ASSUME NEW k \in 1..maxDepth, Away(k - 1), ~ (d <= k)
          PROVE  FALSE
      <4>1. d > 1 /\ k - 1 \in 0..(d - 2)
        BY <3>2
      <4> QED
        BY <2>5, <3>2, <4>1
    <3> QED
      BY <2>5, <3>1, <3>2
  <2> QED
    BY <2>1, <2>2, <2>3, <2>4, <2>5 DEF Away
<1> HIDE DEF rows, exact
<1>4. rows = exact
  BY <1>2, <1>3
<1> QED
  BY <1>4 DEF TraversalIsExact, rows, exact

\* A search within the limit returns the entities at most maxDepth steps away from a
\* name with a document, and the relationships that begin less steps away: for every
\* graph, names, depth, filter and limit.
THEOREM SearchTheorem ==
  ASSUME NEW edges, NEW nodes, IsGraph(edges, nodes), NEW documents, NEW names,
         names \subseteq nodes, NEW maxDepth \in Nat \ {0}, NEW types, NEW limit \in Nat
  PROVE  SearchIsExact(edges, nodes, documents, names, maxDepth, types, limit)
<1> DEFINE typed == OfTypes(edges, types)
           found == {n \in names : documents[n] # {}}
           rows(s) == Rows(edges, s, maxDepth, types)
           ends(s) == {r.edge.from : r \in rows(s)} \cup {r.edge.to : r \in rows(s)}
           reached == found \cup UNION {ends(s) : s \in found}
           begun == UNION {{r.edge : r \in rows(s)} : s \in found}
           near == {n \in nodes : \E s \in found : Within(typed, nodes, s, n, maxDepth)}
           leaving == {e \in typed : \E s \in found : Within(typed, nodes, s, e.from, maxDepth - 1)}
<1>1. Search(edges, documents, names, maxDepth, types, limit) =
        IF maxDepth > limit THEN {}
        ELSE {[entities |-> [n \in reached |-> documents[n]], relationships |-> begun]}
  BY DEF Search, Traverse
<1>11. SearchIsExact(edges, nodes, documents, names, maxDepth, types, limit) <=>
         /\ Search(edges, documents, names, maxDepth, types, limit) = {} <=> maxDepth > limit
         /\ \A result \in Search(edges, documents, names, maxDepth, types, limit) :
              /\ result.entities = [n \in near |-> documents[n]]
              /\ result.relationships = leaving
  BY DEF SearchIsExact
<1>2. IsGraph(typed, nodes)
  BY DEF IsGraph, OfTypes
<1>3. ASSUME NEW s \in found, NEW r \in rows(s)
      PROVE  /\ r.edge \in typed /\ r.depth \in 1..maxDepth
             /\ Steps(typed, nodes, s, r.edge.from, r.depth - 1)
  <2>1. PICK e, d : r = [edge |-> e, depth |-> d]
    BY DEF Rows
  <2>2. e \in typed /\ d \in 1..maxDepth /\ Steps(typed, nodes, s, e.from, d - 1)
    BY <2>1, RowsAreLeast
  <2> QED
    BY <2>1, <2>2
<1>4. ASSUME NEW s \in found, NEW n \in ends(s)
      PROVE  n \in nodes /\ Within(typed, nodes, s, n, maxDepth)
  <2>1. PICK r \in rows(s) : n = r.edge.from \/ n = r.edge.to
    OBVIOUS
  <2>2. /\ r.edge \in typed /\ r.depth \in 1..maxDepth
        /\ Steps(typed, nodes, s, r.edge.from, r.depth - 1)
    BY <1>3
  <2>3. n \in nodes
    BY <1>2, <2>1, <2>2 DEF IsGraph
  <2>4. CASE n = r.edge.from
    <3>1. r.depth - 1 \in 0..maxDepth
      BY <2>2
    <3> QED
      BY <2>2, <2>3, <2>4, <3>1, WithinSteps
  <2>5. CASE n = r.edge.to
    <3>1. r.depth - 1 \in Nat /\ (r.depth - 1) + 1 = r.depth /\ r.depth \in 0..maxDepth
      BY <2>2
    <3>2. Steps(typed, nodes, s, n, (r.depth - 1) + 1)
      BY <1>2, <2>2, <2>5, <3>1, OneStepMore
    <3> QED
      BY <2>3, <3>1, <3>2, WithinSteps
  <2> QED
    BY <2>1, <2>4, <2>5
<1>5. ASSUME NEW s \in found, NEW n, Within(typed, nodes, s, n, maxDepth)
      PROVE  n \in found \/ n \in ends(s)
  <2>1. PICK len \in 0..maxDepth : Steps(typed, nodes, s, n, len)
    BY <1>5, WithinSteps
  <2>2. CASE len = 0
    BY <2>1, <2>2, NoSteps
  <2>3. CASE len # 0
    <3>1. len - 1 \in Nat /\ (len - 1) + 1 = len /\ len \in 1..maxDepth
      BY <2>3
    <3>2. PICK e \in typed : Steps(typed, nodes, s, e.from, len - 1) /\ e.to = n
      <4> DEFINE k == len - 1
      <4>1. k \in Nat /\ Steps(typed, nodes, s, n, k + 1) /\ s \in nodes
        BY <2>1, <3>1
      <4> HIDE DEF k, typed
      <4>2. \E e \in typed : Steps(typed, nodes, s, e.from, k) /\ e.to = n
        BY <1>2, <4>1, OneStepMore
      <4> QED
        BY <4>2 DEF k
    <3> DEFINE Depths == {k \in 1..maxDepth : Steps(typed, nodes, s, e.from, k - 1)}
    <3>3. Depths \subseteq Nat /\ len \in Depths
      BY <3>1, <3>2
    <3>4. PICK d \in Depths : \A k \in Depths : d <= k
      BY <3>3, LeastNumber
    <3>5. [edge |-> e, depth |-> d] \in rows(s)
      BY <3>2, <3>4, RowsAreLeast
    <3> QED
      BY <3>2, <3>5
  <2> QED
    BY <2>2, <2>3
<1>6. ASSUME NEW s \in found
      PROVE  s \in nodes /\ Within(typed, nodes, s, s, maxDepth)
  <2>1. s \in nodes /\ 0 \in 0..maxDepth
    OBVIOUS
  <2>2. Steps(typed, nodes, s, s, 0)
    BY <2>1, NoSteps
  <2> QED
    BY <2>1, <2>2, WithinSteps
<1>8. ASSUME NEW s \in found, NEW e \in typed
      PROVE  (\E r \in rows(s) : r.edge = e) <=> Within(typed, nodes, s, e.from, maxDepth - 1)
  <2>1. ASSUME NEW r \in rows(s), r.edge = e
        PROVE  Within(typed, nodes, s, e.from, maxDepth - 1)
    <3>1. r.depth \in 1..maxDepth /\ Steps(typed, nodes, s, e.from, r.depth - 1)
      BY <1>3, <2>1
    <3>2. r.depth - 1 \in 0..(maxDepth - 1)
      BY <3>1
    <3> QED
      BY <3>1, <3>2, WithinSteps
  <2>2. ASSUME Within(typed, nodes, s, e.from, maxDepth - 1)
        PROVE  \E r \in rows(s) : r.edge = e
    <3>1. PICK len \in 0..(maxDepth - 1) : Steps(typed, nodes, s, e.from, len)
      BY <2>2, WithinSteps
    <3> DEFINE Depths == {k \in 1..maxDepth : Steps(typed, nodes, s, e.from, k - 1)}
    <3>2. Depths \subseteq Nat /\ len + 1 \in Depths
      <4>1. len + 1 \in 1..maxDepth /\ (len + 1) - 1 = len
        OBVIOUS
      <4> QED
        BY <3>1, <4>1
    <3>3. PICK d \in Depths : \A k \in Depths : d <= k
      BY <3>2, LeastNumber
    <3>4. [edge |-> e, depth |-> d] \in rows(s)
      BY <3>3, RowsAreLeast
    <3> QED
      BY <3>4
  <2> QED
    BY <2>1, <2>2
<1> HIDE DEF ends, found, typed
<1>7. reached = near
  BY <1>4, <1>5, <1>6
<1> HIDE DEF rows
<1>9. begun = leaving
  BY <1>3, <1>8
<1> HIDE DEF reached, near, begun, leaving
<1> DEFINE search == Search(edges, documents, names, maxDepth, types, limit)
           result == [entities |-> [n \in near |-> documents[n]], relationships |-> leaving]
<1>10. search = IF maxDepth > limit THEN {} ELSE {result}
  BY <1>1, <1>7, <1>9
<1>12. result.entities = [n \in near |-> documents[n]] /\ result.relationships = leaving
  OBVIOUS
<1> HIDE DEF search, result
<1>13. (search = {} <=> maxDepth > limit) /\ \A r \in search : r = result
  BY <1>10
<1> QED
  BY <1>11, <1>12, <1>13 DEF search

===============================================================================

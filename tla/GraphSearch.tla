------------------------------ MODULE GraphSearch ------------------------------
(***************************************************************************)
(* The search over the relationships between entities: the recursive query *)
(* of db/repositories/graph.ts, PostgresGraphStore.traverse, and graphSearch  *)
(* of services/search.ts.                                                  *)
(*                                                                         *)
(* A relationship is a record [from, to, type].  The rows of the recursive *)
(* query are a bag, with one row for every walk; the outer query groups    *)
(* them, so that sets of relationships per depth are enough.               *)
(***************************************************************************)
EXTENDS Naturals, FiniteSets

\* An empty list of types is no filter.
OfTypes(edges, types) == {e \in edges : types = {} \/ e.type \in types}

\* Mutant: the filter is missing from the recursive branch.
WalkUnfiltered(edges, start, maxDepth, types) ==
  LET at[k \in 1..maxDepth] ==
        IF k = 1 THEN {e \in OfTypes(edges, types) : e.from = start}
        ELSE {e \in edges : \E g \in at[k - 1] : e.from = g.to}
  IN  at

\* The relationships that a walk of k steps from the start ends with; there
\* is no check for cycles, the depth alone ends the recursion.
Walk(edges, start, maxDepth, types) ==
  LET at[k \in 1..maxDepth] ==
        {e \in OfTypes(edges, types) :
           IF k = 1 THEN e.from = start ELSE \E g \in at[k - 1] : e.from = g.to}
  IN  at

\* GROUP BY relationship, MIN(depth).
Rows(edges, start, maxDepth, types) ==
  LET at == Walk(edges, start, maxDepth, types)
      Depths(e) == {k \in 1..maxDepth : e \in at[k]}
  IN  {[edge |-> e, depth |-> CHOOSE k \in Depths(e) : \A j \in Depths(e) : k <= j] :
         e \in {f \in edges : Depths(f) # {}}}

\* PostgresGraphStore.traverse; without a row not even the start is there.
Traverse(edges, start, maxDepth, types) ==
  LET rows == Rows(edges, start, maxDepth, types) IN
  [entities      |-> {r.edge.from : r \in rows} \cup {r.edge.to : r \in rows},
   relationships |-> {r.edge : r \in rows},
   depth |-> IF rows = {} THEN 0 ELSE CHOOSE k \in {r.depth : r \in rows} : \A r \in rows : r.depth <= k]

\* graphSearch: a depth above the limit is refused.  The names that belong to
\* entities with a document are each traversed, and the results put together with
\* the starts; an entity comes with its documents (findDocumentsByEntity).
Search(edges, documents, names, maxDepth, types, limit) ==
  LET found == {n \in names : documents[n] # {}}
      Of(n) == Traverse(edges, n, maxDepth, types)
      reached == found \cup UNION {Of(n).entities : n \in found} IN
  IF maxDepth > limit THEN {}
  ELSE {[entities      |-> [n \in reached |-> documents[n]],
         relationships |-> UNION {Of(n).relationships : n \in found}]}

-------------------------------------------------------------------------------
(***************************************************************************)
(* The reference: distances, by paths.                                     *)
(***************************************************************************)
Path(edges, p) == \A i \in 1..(Cardinality(DOMAIN p) - 1) :
                    \E e \in edges : e.from = p[i - 1] /\ e.to = p[i]

Within(edges, nodes, start, n, k) ==
  \E len \in 0..k : \E p \in [0..len -> nodes] :
    p[0] = start /\ p[len] = n /\ Path(edges, p)

\* A traversal returns every relationship that begins less than maxDepth
\* steps away, with that distance plus one as its depth, and nothing else.
TraversalIsExact(edges, nodes, start, maxDepth, types) ==
  Rows(edges, start, maxDepth, types) =
    {[edge |-> e, depth |-> k] : e \in OfTypes(edges, types), k \in 1..maxDepth}
      \cap {r \in [edge : edges, depth : 1..maxDepth] :
              /\ Within(OfTypes(edges, types), nodes, start, r.edge.from, r.depth - 1)
              /\ r.depth > 1 => ~Within(OfTypes(edges, types), nodes, start, r.edge.from, r.depth - 2)}

\* A search within the limit returns the entities at most maxDepth steps away from
\* a name with a document, with the documents of each, and the relationships that
\* begin less than maxDepth steps away; a name without a document finds nothing.
SearchIsExact(edges, nodes, documents, names, maxDepth, types, limit) ==
  LET Near(n, k) == \E s \in {m \in names : documents[m] # {}} :
                       Within(OfTypes(edges, types), nodes, s, n, k)
      found == Search(edges, documents, names, maxDepth, types, limit) IN
  /\ found = {} <=> maxDepth > limit
  /\ \A result \in found :
       /\ result.entities = [n \in {m \in nodes : Near(m, maxDepth)} |-> documents[n]]
       /\ result.relationships = {e \in OfTypes(edges, types) : Near(e.from, maxDepth - 1)}
=============================================================================

------------------------------ MODULE ListLemmas ------------------------------
(***************************************************************************)
(* What the proofs about the algorithms need of numbers and lists:         *)
(* induction, folds and sorting, each stated with sets and functions, so   *)
(* that it can be cited for any formula.                                   *)
(***************************************************************************)
EXTENDS Naturals, Sequences, SequencesExt, FiniteSetsExt, FiniteSetTheorems, WellFoundedInduction,
        TLAPS

-----------------------------------------------------------------------------
(* Induction over the natural numbers, for sets of numbers: the form in    *)
(* which a formula is stated by the set of the numbers that satisfy it.    *)

\* A set of numbers has a least one.
LEMMA LeastNumber ==
  ASSUME NEW T, T \subseteq Nat, T # {}
  PROVE  \E n \in T : \A m \in T : n <= m
<1>1. IsWellFoundedOn(OpToRel(<, Nat), Nat)
  BY NatLessThanWellFounded
<1>2. PICK x \in T : \A y \in T : ~ (<<y, x>> \in OpToRel(<, Nat))
  BY <1>1, WFMin
<1>3. \A y \in T : ~ (y < x)
  BY <1>2 DEF OpToRel
<1> QED
  BY <1>3

\* A set that has zero, and with a number the next, has every number.
LEMMA EveryNumber ==
  ASSUME NEW T, 0 \in T, \A n \in Nat : n \in T => n + 1 \in T
  PROVE  Nat \subseteq T
<1> SUFFICES ASSUME Nat \ T # {}
             PROVE  FALSE
  OBVIOUS
<1>1. PICK n \in Nat \ T : \A m \in Nat \ T : n <= m
  BY LeastNumber
<1>2. n # 0 /\ n - 1 \in Nat /\ n - 1 \in T
  BY <1>1
<1> QED
  BY <1>1, <1>2

-----------------------------------------------------------------------------
(* Folds from the left.                                                    *)

\* The maximum of a set of numbers with its largest element at hand.
LEMMA Largest ==
  ASSUME NEW n \in Nat, NEW s \in SUBSET (1..n), n \in s
  PROVE  Max(s) = n
<1>1. n \in s /\ \A y \in s : n >= y
  OBVIOUS
<1>2. \A x \in s : (\A y \in s : x >= y) => x = n
  OBVIOUS
<1> QED
  BY <1>1, <1>2 DEF Max

\* There is always one.
LEMMA LargestExists ==
  ASSUME NEW n \in Nat, NEW s \in SUBSET (1..n), s # {}
  PROVE  Max(s) \in s /\ \A x \in s : x <= Max(s)
<1> DEFINE T == {n - x : x \in s}
<1>1. PICK d \in T : \A m \in T : d <= m
  <2>1. T # {}
    OBVIOUS
  <2>2. \A x \in s : n - x \in Nat
    OBVIOUS
  <2>3. T \subseteq Nat
    BY <2>2
  <2> HIDE DEF T
  <2> QED
    BY <2>1, <2>3, LeastNumber
<1>2. PICK y \in s : d = n - y
  BY <1>1
<1>3. \A x \in s : y >= x
  <2> SUFFICES ASSUME NEW x \in s
               PROVE  y >= x
    OBVIOUS
  <2>1. n - y <= n - x
    BY <1>1, <1>2
  <2> QED
    BY <2>1
<1> QED
  BY <1>3 DEF Max

\* One step of a fold on sets of positions, from what f makes of the smaller set.
Folded(n, base, step, f) ==
  \A s \in SUBSET (1..n) :
    f[s] = IF s = {} THEN base ELSE step[<<f[s \ {Max(s)}], Max(s)>>]

Foldable(n, V, base, step) == \E f \in [SUBSET (1..n) -> V] : Folded(n, base, step, f)

\* A fold by a step from states and positions to states exists.
LEMMA FoldExists ==
  ASSUME NEW n \in Nat, NEW V, NEW base \in V, NEW step \in [V \X (1..n) -> V]
  PROVE  Foldable(n, V, base, step)
<1> DEFINE T == {m \in Nat : m <= n => Foldable(m, V, base, step)}
<1>1. 0 \in T
  <2> DEFINE f == [s \in SUBSET (1..0) |-> base]
  <2>1. \A s \in SUBSET (1..0) : s = {}
    <3>1. 1..0 = {}
      OBVIOUS
    <3> QED
      BY <3>1
  <2>2. f \in [SUBSET (1..0) -> V] /\ Folded(0, base, step, f)
    BY <2>1 DEF Folded
  <2> QED
    BY <2>2 DEF Foldable
<1>2. ASSUME NEW m \in Nat, m \in T
      PROVE  m + 1 \in T
  <2> SUFFICES ASSUME m + 1 <= n
               PROVE  Foldable(m + 1, V, base, step)
    OBVIOUS
  <2>1. PICK f \in [SUBSET (1..m) -> V] : Folded(m, base, step, f)
    <3>1. m <= n
      OBVIOUS
    <3>2. Foldable(m, V, base, step)
      BY <1>2, <3>1
    <3> QED
      BY <3>2 DEF Foldable
  <2> DEFINE g == [s \in SUBSET (1..(m + 1)) |->
                     IF m + 1 \in s THEN step[<<f[s \ {m + 1}], m + 1>>] ELSE f[s]]
  <2>2. \A s \in SUBSET (1..(m + 1)) :
          /\ s \ {m + 1} \in SUBSET (1..m)
          /\ m + 1 \notin s => s \in SUBSET (1..m)
    OBVIOUS
  <2>3. g \in [SUBSET (1..(m + 1)) -> V]
    BY <2>2
  <2>4. ASSUME NEW s \in SUBSET (1..(m + 1))
        PROVE  g[s] = IF s = {} THEN base ELSE step[<<g[s \ {Max(s)}], Max(s)>>]
    <3>1. CASE m + 1 \in s
      <4>1. Max(s) = m + 1
        BY <3>1, Largest
      <4>2. g[s \ {m + 1}] = f[s \ {m + 1}]
        BY <2>2
      <4> QED
        BY <3>1, <4>1, <4>2
    <3>2. CASE m + 1 \notin s
      <4>1. s \in SUBSET (1..m) /\ s \ {Max(s)} \in SUBSET (1..m)
        BY <2>2, <3>2
      <4>2. g[s] = f[s] /\ g[s \ {Max(s)}] = f[s \ {Max(s)}]
        BY <3>2, <4>1
      <4> QED
        BY <2>1, <4>1, <4>2 DEF Folded
    <3> QED
      BY <3>1, <3>2
  <2> QED
    BY <2>3, <2>4 DEF Foldable, Folded
<1>3. n \in T
  <2> HIDE DEF T
  <2> QED
    BY <1>1, <1>2, EveryNumber
<1> QED
  BY <1>3

\* A run of a fold: the states that it goes through, position by position.
Running(n, base, step, run) ==
  run[0] = base /\ \A k \in 1..n : run[k] = step[<<run[k - 1], k>>]

\* What is known of the fold that has been chosen.
Folding(n, V, base, step, g) ==
  /\ g[{}] = base
  /\ \A s \in SUBSET (1..n) :
       s # {} /\ g[s \ {Max(s)}] \in V => g[s] = step[<<g[s \ {Max(s)}], Max(s)>>]

Ends(n, V, base, step, end) ==
  \E run \in [0..n -> V] : Running(n, base, step, run) /\ run[n] = end

\* However a fold has been chosen, it is the end of a run.
LEMMA FoldRuns ==
  ASSUME NEW n \in Nat, NEW V, NEW base \in V, NEW step \in [V \X (1..n) -> V],
         NEW g, Folding(n, V, base, step, g)
  PROVE  Ends(n, V, base, step, g[1..n])
<1> DEFINE run == [k \in 0..n |-> g[1..k]]
           T == {m \in Nat : m <= n => g[1..m] \in V}
<1>1. g[1..0] = base
  <2>1. 1..0 = {}
    OBVIOUS
  <2> QED
    BY <2>1 DEF Folding
<1>2. ASSUME NEW k \in 1..n, g[1..(k - 1)] \in V
      PROVE  g[1..k] = step[<<g[1..(k - 1)], k>>]
  <2>1. Max(1..k) = k
    BY Largest
  <2>2. (1..k) \ {k} = 1..(k - 1) /\ 1..k # {} /\ 1..k \in SUBSET (1..n)
    OBVIOUS
  <2> QED
    BY <1>2, <2>1, <2>2 DEF Folding
<1>3. ASSUME NEW m \in Nat, m \in T
      PROVE  m + 1 \in T
  <2> SUFFICES ASSUME m + 1 <= n
               PROVE  g[1..(m + 1)] \in V
    OBVIOUS
  <2>1. m + 1 \in 1..n /\ (m + 1) - 1 = m /\ g[1..m] \in V
    BY <1>3
  <2>2. g[1..(m + 1)] = step[<<g[1..m], m + 1>>]
    BY <1>2, <2>1
  <2> QED
    BY <2>1, <2>2
<1>4. 0 \in T
  BY <1>1
<1>5. \A k \in 0..n : g[1..k] \in V
  <2>1. Nat \subseteq T
    BY <1>3, <1>4, EveryNumber
  <2> QED
    BY <2>1
<1>6. run \in [0..n -> V] /\ run[0] = base /\ run[n] = g[1..n]
  BY <1>1, <1>5
<1>7. ASSUME NEW k \in 1..n
      PROVE  run[k] = step[<<run[k - 1], k>>]
  <2>1. k - 1 \in 0..n /\ k \in 0..n
    OBVIOUS
  <2> QED
    BY <1>2, <1>5, <2>1
<1> QED
  BY <1>6, <1>7 DEF Running, Ends

-----------------------------------------------------------------------------
(* Sorting.                                                                *)

\* A strict order of all elements of a set, as a set of pairs.
Orders(R, S) ==
  /\ \A x, y \in S : <<x, y>> \in R => <<y, x>> \notin R
  /\ \A x, y \in S : x = y \/ <<x, y>> \in R \/ <<y, x>> \in R
  /\ \A x, y, z \in S : <<x, y>> \in R /\ <<y, z>> \in R => <<x, z>> \in R

Below(R, S, x) == {y \in S : <<y, x>> \in R}
ByRank(R, S) ==
  [k \in 1..Cardinality(S) |-> CHOOSE x \in S : Cardinality(Below(R, S, x)) = k - 1]

\* What comes later in the order has the higher rank.
LEMMA RanksDiffer ==
  ASSUME NEW S, IsFiniteSet(S), NEW R, Orders(R, S), NEW x \in S, NEW y \in S, <<x, y>> \in R
  PROVE  Cardinality(Below(R, S, x)) < Cardinality(Below(R, S, y))
<1>1. Below(R, S, x) \in SUBSET Below(R, S, y)
  BY DEF Below, Orders
<1>2. x \in Below(R, S, y) /\ x \notin Below(R, S, x)
  BY DEF Below, Orders
<1>3. IsFiniteSet(Below(R, S, y))
  BY FS_Subset DEF Below
<1>4. /\ IsFiniteSet(Below(R, S, x))
      /\ Cardinality(Below(R, S, x)) <= Cardinality(Below(R, S, y))
      /\ Cardinality(Below(R, S, x)) # Cardinality(Below(R, S, y))
  BY <1>1, <1>2, <1>3, FS_Subset
<1> QED
  BY <1>3, <1>4, FS_CardinalityType

\* Every rank is that of one element, so the elements stand in their order.
LEMMA RanksSort ==
  ASSUME NEW S, IsFiniteSet(S), NEW R, Orders(R, S)
  PROVE  LET order == ByRank(R, S) IN
         /\ order \in [1..Cardinality(S) -> S]
         /\ \A x \in S : \E k \in 1..Cardinality(S) : order[k] = x
         /\ \A i, j \in 1..Cardinality(S) : i < j => <<order[i], order[j]>> \in R
<1> DEFINE n == Cardinality(S)
           rank == [x \in S |-> Cardinality(Below(R, S, x)) + 1]
           order == ByRank(R, S)
<1>1. n \in Nat
  BY FS_CardinalityType
<1>2. \A x \in S : rank[x] \in 1..n
  <2> SUFFICES ASSUME NEW x \in S
               PROVE  rank[x] \in 1..n
    OBVIOUS
  <2>1. Below(R, S, x) \in SUBSET S /\ x \notin Below(R, S, x)
    BY DEF Below, Orders
  <2>2. /\ IsFiniteSet(Below(R, S, x))
        /\ Cardinality(Below(R, S, x)) <= n /\ Cardinality(Below(R, S, x)) # n
    BY <2>1, FS_Subset
  <2>3. Cardinality(Below(R, S, x)) \in Nat
    BY <2>2, FS_CardinalityType
  <2> QED
    BY <1>1, <2>2, <2>3
<1>3. \A x, y \in S : <<x, y>> \in R => rank[x] < rank[y]
  <2> SUFFICES ASSUME NEW x \in S, NEW y \in S, <<x, y>> \in R
               PROVE  rank[x] < rank[y]
    OBVIOUS
  <2>1. Cardinality(Below(R, S, x)) < Cardinality(Below(R, S, y))
    BY RanksDiffer
  <2>2. Cardinality(Below(R, S, x)) \in Nat /\ Cardinality(Below(R, S, y)) \in Nat
    BY FS_Subset, FS_CardinalityType DEF Below
  <2> QED
    BY <2>1, <2>2
<1>4. \A k \in 1..n : \E x \in S : rank[x] = k
  <2>1. rank \in [S -> 1..n]
    BY <1>2
  <2>2. \A x, y \in S : rank[x] = rank[y] => x = y
    <3> SUFFICES ASSUME NEW x \in S, NEW y \in S, rank[x] = rank[y], x # y
                 PROVE  FALSE
      OBVIOUS
    <3>1. rank[x] < rank[y] \/ rank[y] < rank[x]
      BY <1>3 DEF Orders
    <3> HIDE DEF rank
    <3>2. rank[x] \in Int /\ rank[y] \in Int
      BY <2>1
    <3> QED
      BY <3>1, <3>2
  <2> HIDE DEF rank
  <2>3. rank \in Injection(S, 1..n)
    BY <2>1, <2>2 DEF Injection, IsInjective
  <2>4. IsFiniteSet(1..n) /\ Cardinality(1..n) = n
    BY <1>1, FS_Interval
  <2>5. rank \in Surjection(S, 1..n)
    BY <2>3, <2>4, FS_Injection
  <2> QED
    BY <2>5 DEF Surjection
<1>5. \A k \in 1..n : order[k] \in S /\ rank[order[k]] = k
  <2> SUFFICES ASSUME NEW k \in 1..n
               PROVE  order[k] \in S /\ rank[order[k]] = k
    OBVIOUS
  <2>1. \A x \in S : rank[x] = k <=> Cardinality(Below(R, S, x)) = k - 1
    <3> SUFFICES ASSUME NEW x \in S
                 PROVE  rank[x] = k <=> Cardinality(Below(R, S, x)) = k - 1
      OBVIOUS
    <3>1. Cardinality(Below(R, S, x)) \in Nat
      BY FS_Subset, FS_CardinalityType DEF Below
    <3> QED
      BY <1>1, <3>1
  <2>2. PICK x \in S : rank[x] = k
    BY <1>4
  <2>3. order[k] = CHOOSE y \in S : Cardinality(Below(R, S, y)) = k - 1
    BY DEF ByRank
  <2>4. order[k] \in S /\ Cardinality(Below(R, S, order[k])) = k - 1
    <3> HIDE DEF order
    <3> QED
      BY <2>1, <2>2, <2>3
  <2> QED
    BY <2>1, <2>4
<1>6. order \in [1..n -> S]
  BY <1>5 DEF ByRank
<1>7. \A i, j \in 1..n : i < j => <<order[i], order[j]>> \in R
  <2> SUFFICES ASSUME NEW i \in 1..n, NEW j \in 1..n, i < j, <<order[i], order[j]>> \notin R
               PROVE  FALSE
    OBVIOUS
  <2>1. order[i] \in S /\ order[j] \in S /\ rank[order[i]] = i /\ rank[order[j]] = j
    BY <1>5
  <2> HIDE DEF order, rank
  <2>2. order[i] = order[j] \/ <<order[j], order[i]>> \in R
    BY <2>1 DEF Orders
  <2>3. i = j \/ j < i
    BY <1>3, <2>1, <2>2
  <2> QED
    BY <1>1, <2>3
<1>8. \A x \in S : \E k \in 1..n : order[k] = x
  <2> SUFFICES ASSUME NEW x \in S
               PROVE  \E k \in 1..n : order[k] = x
    OBVIOUS
  <2> DEFINE k == rank[x]
  <2>1. k \in 1..n
    BY <1>2
  <2>2. order[k] \in S /\ rank[order[k]] = rank[x]
    BY <1>5, <2>1
  <2> HIDE DEF order
  <2>3. \A y \in S : rank[y] \in Int
    BY <1>1, <1>2
  <2> HIDE DEF rank, k
  <2>4. ~ (<<order[k], x>> \in R) /\ ~ (<<x, order[k]>> \in R)
    <3>1. rank[x] \in Int /\ rank[order[k]] \in Int /\ rank[order[k]] = rank[x]
      BY <2>2, <2>3
    <3> QED
      BY <1>3, <2>2, <3>1
  <2> QED
    BY <2>1, <2>2, <2>4 DEF Orders
<1> QED
  BY <1>6, <1>7, <1>8

-----------------------------------------------------------------------------
(* Folds over sequences, by their last elements.                           *)

\* Sequences are made from the empty one by appending.
LEMMA LastAppended ==
  ASSUME NEW X, NEW seq \in Seq(X), seq # <<>>
  PROVE  /\ Front(seq) \in Seq(X) /\ Last(seq) \in X
         /\ Len(Front(seq)) + 1 = Len(seq) /\ seq = Append(Front(seq), Last(seq))
<1> DEFINE n == Len(seq)
           front == SubSeq(seq, 1, n - 1)
<1>1. n \in Nat \ {0} /\ seq[n] \in X
  OBVIOUS
<1>2. front \in Seq(X) /\ Len(front) = n - 1 /\ \A i \in 1..(n - 1) : front[i] = seq[i]
  BY <1>1
<1> HIDE DEF front
<1>3. seq = Append(front, seq[n])
  BY <1>1, <1>2
<1> QED
  BY <1>1, <1>2, <1>3 DEF Front, Last, front

\* Hence what holds of the empty one, and with a sequence of every longer one,
\* holds of all.
LEMMA EverySequence ==
  ASSUME NEW X, NEW P, <<>> \in P, \A s \in Seq(X), x \in X : s \in P => Append(s, x) \in P
  PROVE  Seq(X) \subseteq P
<1> DEFINE T == {m \in Nat : \A s \in Seq(X) : Len(s) = m => s \in P}
<1>1. 0 \in T
  OBVIOUS
<1>2. ASSUME NEW m \in Nat, m \in T
      PROVE  m + 1 \in T
  <2> SUFFICES ASSUME NEW s \in Seq(X), Len(s) = m + 1
               PROVE  s \in P
    OBVIOUS
  <2>1. s # <<>>
    OBVIOUS
  <2>2. /\ Front(s) \in Seq(X) /\ Last(s) \in X
        /\ Len(Front(s)) + 1 = Len(s) /\ s = Append(Front(s), Last(s))
    BY <2>1, LastAppended
  <2>3. Len(Front(s)) = m
    BY <2>2
  <2> QED
    BY <1>2, <2>2, <2>3
<1>3. Nat \subseteq T
  <2> HIDE DEF T
  <2> QED
    BY <1>1, <1>2, EveryNumber
<1> QED
  BY <1>3

\* What a fold of a sequence ends with, step by step from states and elements.
FoldEnd(V, base, step, seq, end) ==
  Ends(Len(seq), V, base, [p \in V \X (1..Len(seq)) |-> step[<<p[1], seq[p[2]]>>]], end)

\* A step makes a state of a state and an element.
IsFold(V, X, base, step) == base \in V /\ step \in [V \X X -> V]

\* FoldLeft chooses a table of the states by the sets of positions folded.  There
\* is one with values in V, and any other has the same rules.
FoldTable(V, X, base, step, seq, f) ==
  \A s \in SUBSET DOMAIN seq :
    /\ f[s] \in V
    /\ s = {} => f[s] = base
    /\ s # {} =>
         LET rest == s \ {Max(s)} IN
         /\ rest \in SUBSET DOMAIN seq /\ Max(s) \in DOMAIN seq /\ seq[Max(s)] \in X /\ f[rest] \in V
         /\ f[s] = step[<<f[rest], seq[Max(s)]>>]

FoldRules(V, X, base, step, seq, g) ==
  /\ g[{}] = base
  /\ \A s \in SUBSET DOMAIN seq :
       s # {} /\ g[s \ {Max(s)}] \in V => g[s] = step[<<g[s \ {Max(s)}], seq[Max(s)]>>]

LEMMA TableExists ==
  ASSUME NEW V, NEW X, NEW base, NEW step, IsFold(V, X, base, step), NEW seq \in Seq(X)
  PROVE  \E f \in [SUBSET DOMAIN seq -> V] : FoldTable(V, X, base, step, seq, f)
<1> DEFINE n == Len(seq)
           rel == [p \in V \X (1..n) |-> step[<<p[1], seq[p[2]]>>]]
<1>1. n \in Nat /\ DOMAIN seq = 1..n /\ \A k \in 1..n : seq[k] \in X
  OBVIOUS
<1> HIDE DEF n
<1>2. rel \in [V \X (1..n) -> V]
  BY <1>1 DEF IsFold
<1>3. \A s \in SUBSET (1..n) : s # {} => Max(s) \in 1..n /\ s \ {Max(s)} \in SUBSET (1..n)
  BY <1>1, LargestExists
<1>4. PICK f \in [SUBSET (1..n) -> V] : Folded(n, base, rel, f)
  <2>1. base \in V
    BY DEF IsFold
  <2> HIDE DEF rel
  <2> QED
    BY <1>1, <1>2, <2>1, FoldExists DEF Foldable
<1>5. ASSUME NEW s \in SUBSET (1..n), s # {}
      PROVE  f[s] = step[<<f[s \ {Max(s)}], seq[Max(s)]>>]
  <2>1. f[s] = rel[<<f[s \ {Max(s)}], Max(s)>>]
    <3> HIDE DEF rel
    <3> QED
      BY <1>4, <1>5 DEF Folded
  <2>2. f[s \ {Max(s)}] \in V /\ Max(s) \in 1..n
    BY <1>3, <1>5
  <2> QED
    BY <2>1, <2>2
<1>6. f[{}] = base
  <2> HIDE DEF rel
  <2> QED
    BY <1>4 DEF Folded
<1> QED
  BY <1>1, <1>3, <1>5, <1>6 DEF FoldTable

LEMMA RulesEnd ==
  ASSUME NEW V, NEW X, NEW base, NEW step, IsFold(V, X, base, step), NEW seq \in Seq(X),
         NEW g, FoldRules(V, X, base, step, seq, g)
  PROVE  FoldEnd(V, base, step, seq, g[DOMAIN seq])
<1> DEFINE n == Len(seq)
           rel == [p \in V \X (1..n) |-> step[<<p[1], seq[p[2]]>>]]
<1>1. n \in Nat /\ DOMAIN seq = 1..n /\ \A k \in 1..n : seq[k] \in X
  OBVIOUS
<1> HIDE DEF n
<1>2. rel \in [V \X (1..n) -> V]
  BY <1>1 DEF IsFold
<1>3. \A s \in SUBSET (1..n) : s # {} => Max(s) \in 1..n
  BY <1>1, LargestExists
<1>4. Folding(n, V, base, rel, g)
  <2>1. ASSUME NEW s \in SUBSET (1..n), s # {}, g[s \ {Max(s)}] \in V
        PROVE  g[s] = rel[<<g[s \ {Max(s)}], Max(s)>>]
    <3>1. g[s] = step[<<g[s \ {Max(s)}], seq[Max(s)]>>] /\ Max(s) \in 1..n
      BY <1>1, <1>3, <2>1 DEF FoldRules
    <3> QED
      BY <2>1, <3>1
  <2> HIDE DEF rel
  <2> QED
    BY <2>1 DEF Folding, FoldRules
<1>5. Ends(n, V, base, rel, g[1..n])
  <2>1. base \in V
    BY DEF IsFold
  <2> HIDE DEF rel
  <2> QED
    BY <1>1, <1>2, <1>4, <2>1, FoldRuns
<1> QED
  BY <1>1, <1>5 DEF FoldEnd, n, rel

\* Without elements there is no step.
LEMMA FoldEmpty ==
  ASSUME NEW V, NEW base, NEW step, NEW end, FoldEnd(V, base, step, <<>>, end)
  PROVE  end = base
BY DEF FoldEnd, Ends, Running

\* With one more element there is one more step.
LEMMA FoldAppended ==
  ASSUME NEW V, NEW X, NEW base, NEW step, IsFold(V, X, base, step),
         NEW seq \in Seq(X), NEW x \in X, NEW end, NEW next,
         FoldEnd(V, base, step, seq, end), FoldEnd(V, base, step, Append(seq, x), next)
  PROVE  end \in V /\ next = step[<<end, x>>]
<1> DEFINE n == Len(seq)
           more == Append(seq, x)
           S(s) == [p \in V \X (1..Len(s)) |-> step[<<p[1], s[p[2]]>>]]
<1>1. n \in Nat /\ Len(more) = n + 1 /\ more[n + 1] = x /\ \A k \in 1..n : more[k] = seq[k]
  OBVIOUS
<1>2. PICK f \in [0..n -> V] : Running(n, base, S(seq), f) /\ f[n] = end
  BY DEF FoldEnd, Ends
<1>3. PICK g \in [0..(n + 1) -> V] : Running(n + 1, base, S(more), g) /\ g[n + 1] = next
  BY <1>1 DEF FoldEnd, Ends
<1> HIDE DEF n, more
<1>4. ASSUME NEW k \in 1..n
      PROVE  f[k] = step[<<f[k - 1], seq[k]>>]
  <2>1. f[k] = S(seq)[<<f[k - 1], k>>]
    <3> HIDE DEF S
    <3> QED
      BY <1>2 DEF Running
  <2>2. f[k - 1] \in V /\ k \in 1..Len(seq)
    BY <1>1 DEF n
  <2> QED
    BY <2>1, <2>2
<1>5. ASSUME NEW k \in 1..(n + 1)
      PROVE  g[k] = step[<<g[k - 1], more[k]>>]
  <2>1. g[k] = S(more)[<<g[k - 1], k>>]
    <3> HIDE DEF S
    <3> QED
      BY <1>3 DEF Running
  <2>2. g[k - 1] \in V /\ k \in 1..Len(more)
    BY <1>1
  <2> QED
    BY <2>1, <2>2
<1>6. f[0] = base /\ g[0] = base
  BY <1>2, <1>3 DEF Running
<1> DEFINE T == {m \in Nat : m <= n => f[m] = g[m]}
<1>7. ASSUME NEW m \in Nat, m \in T
      PROVE  m + 1 \in T
  <2> SUFFICES ASSUME m + 1 <= n
               PROVE  f[m + 1] = g[m + 1]
    OBVIOUS
  <2>0. n \in Nat
    BY <1>1
  <2>1. m + 1 \in 1..n /\ m + 1 \in 1..(n + 1) /\ (m + 1) - 1 = m /\ f[m] = g[m]
    <3>1. m + 1 \in 1..n /\ m + 1 \in 1..(n + 1) /\ (m + 1) - 1 = m /\ m <= n
      BY <2>0
    <3> QED
      BY <1>7, <3>1
  <2>2. more[m + 1] = seq[m + 1]
    BY <1>1, <2>1
  <2> QED
    BY <1>4, <1>5, <2>1, <2>2
<1>8. f[n] = g[n]
  <2>1. 0 \in T
    BY <1>6
  <2>2. Nat \subseteq T
    <3> HIDE DEF T
    <3> QED
      BY <1>7, <2>1, EveryNumber
  <2> QED
    BY <1>1, <2>2
<1>9. g[n + 1] = step[<<g[n], x>>]
  <2>1. n + 1 \in 1..(n + 1) /\ (n + 1) - 1 = n
    BY <1>1
  <2> QED
    BY <1>1, <1>5, <2>1
<1> QED
  BY <1>1, <1>2, <1>3, <1>8, <1>9

\* Sequences of fewer elements are sequences of more.
LEMMA SmallerSequences ==
  ASSUME NEW S, NEW T, S \subseteq T
  PROVE  Seq(S) \subseteq Seq(T)
<1> SUFFICES ASSUME NEW seq \in Seq(S)
             PROVE  seq \in Seq(T)
  OBVIOUS
<1>1. Len(seq) \in Nat /\ seq \in [1..Len(seq) -> S]
  OBVIOUS
<1>2. seq \in [1..Len(seq) -> T]
  BY <1>1
<1> QED
  BY <1>1, <1>2

-----------------------------------------------------------------------------
(* Concatenation.                                                          *)

Joins(S) == [p \in Seq(S) \X Seq(S) |-> p[1] \o p[2]]

\* A run of a fold exists, whatever it is to be used for.
LEMMA RunExists ==
  ASSUME NEW n \in Nat, NEW V, NEW base \in V, NEW step \in [V \X (1..n) -> V]
  PROVE  \E end : Ends(n, V, base, step, end)
<1>1. PICK f \in [SUBSET (1..n) -> V] : Folded(n, base, step, f)
  BY FoldExists DEF Foldable
<1>2. Folding(n, V, base, step, f)
  BY <1>1 DEF Folded, Folding
<1>3. Ends(n, V, base, step, f[1..n])
  BY <1>2, FoldRuns
<1> QED
  BY <1>3

\* FlattenSeq, a recursive function of the positions, is a fold.
LEMMA FlattenEnds ==
  ASSUME NEW S, NEW seqs \in Seq(Seq(S))
  PROVE  FoldEnd(Seq(S), <<>>, Joins(S), seqs, FlattenSeq(seqs))
<1> DEFINE n == Len(seqs)
           V == Seq(S)
           step == [p \in V \X (1..n) |-> Joins(S)[<<p[1], seqs[p[2]]>>]]
           G(f) == [i \in 1..n |-> IF i = 1 THEN seqs[i] ELSE f[i - 1] \o seqs[i]]
           g == CHOOSE f : f = G(f)
<1>1. n \in Nat /\ \A k \in 1..n : seqs[k] \in V
  OBVIOUS
<1>2. FlattenSeq(seqs) = IF n = 0 THEN <<>> ELSE g[n]
  BY DEF FlattenSeq
<1>3. <<>> \in V /\ \A s \in V : <<>> \o s = s
  OBVIOUS
<1>4. ASSUME NEW k \in 1..n, NEW s \in V
      PROVE  step[<<s, k>>] = s \o seqs[k]
  BY <1>1 DEF Joins
<1>5. step \in [V \X (1..n) -> V]
  <2>1. \A p \in V \X (1..n) : p[1] \in V /\ seqs[p[2]] \in V
    BY <1>1
  <2>2. \A p \in V \X (1..n) : Joins(S)[<<p[1], seqs[p[2]]>>] = p[1] \o seqs[p[2]]
    BY <2>1 DEF Joins
  <2>3. \A s, t \in V : s \o t \in V
    OBVIOUS
  <2> HIDE DEF V
  <2> QED
    BY <2>1, <2>2, <2>3
<1> HIDE DEF n
<1>6. PICK run \in [0..n -> V] : Running(n, <<>>, step, run)
  <2> HIDE DEF step, V
  <2>1. PICK end : Ends(n, V, <<>>, step, end)
    BY <1>1, <1>3, <1>5, RunExists
  <2> QED
    BY <2>1 DEF Ends
<1> HIDE DEF step, V
<1>7. ASSUME NEW k \in 1..n
      PROVE  run[k] = run[k - 1] \o seqs[k]
  <2>1. run[k - 1] \in V
    BY <1>1
  <2>2. run[k] = step[<<run[k - 1], k>>]
    BY <1>6 DEF Running
  <2> QED
    BY <1>4, <2>1, <2>2
<1>8. run[0] = <<>>
  BY <1>6 DEF Running
<1> DEFINE first == 1
<1>12. ASSUME n # 0
       PROVE  first \in 1..n /\ run[first] = seqs[first]
  <2>1. first \in 1..n /\ first - 1 = 0
    BY <1>1, <1>12
  <2>2. run[first] = run[first - 1] \o seqs[first]
    <3> HIDE DEF first
    <3> QED
      BY <1>7, <2>1
  <2>3. seqs[first] \in V
    BY <1>1, <2>1
  <2> HIDE DEF first
  <2> QED
    BY <1>3, <1>8, <2>1, <2>2, <2>3
<1>9. ASSUME n # 0
      PROVE  run[n] = g[n]
  <2> DEFINE f == [i \in 1..n |-> run[i]]
  <2>1. f = G(f)
    <3>1. ASSUME NEW i \in 1..n
          PROVE  f[i] = IF i = 1 THEN seqs[i] ELSE f[i - 1] \o seqs[i]
      <4>1. CASE i = 1
        BY <1>9, <1>12, <4>1
      <4>2. CASE i # 1
        <5>1. i - 1 \in 1..n
          BY <1>1, <4>2
        <5> QED
          BY <1>7, <4>2, <5>1
      <4> QED
        BY <4>1, <4>2
    <3> QED
      BY <3>1
  <2>2. g = G(g)
    BY <2>1
  <2> HIDE DEF g, f
  <2>3. \A i \in 1..n : g[i] = IF i = 1 THEN seqs[i] ELSE g[i - 1] \o seqs[i]
    BY <2>2
  <2> DEFINE T == {m \in Nat : m + 1 <= n => g[m + 1] = run[m + 1]}
  <2>4. 0 \in T
    <3>1. 1 \in 1..n /\ run[1] = seqs[1]
      BY <1>9, <1>12
    <3> QED
      BY <2>3, <3>1
  <2>5. ASSUME NEW m \in Nat, m \in T
        PROVE  m + 1 \in T
    <3> SUFFICES ASSUME (m + 1) + 1 <= n
                 PROVE  g[(m + 1) + 1] = run[(m + 1) + 1]
      OBVIOUS
    <3> DEFINE i == (m + 1) + 1
    <3>1. i \in 1..n /\ i - 1 = m + 1 /\ i # 1 /\ m + 1 <= n
      BY <1>1
    <3>2. g[m + 1] = run[m + 1]
      BY <2>5, <3>1
    <3>3. g[i] = g[i - 1] \o seqs[i] /\ run[i] = run[i - 1] \o seqs[i]
      BY <1>7, <2>3, <3>1
    <3> QED
      BY <3>1, <3>2, <3>3
  <2>6. Nat \subseteq T
    <3> HIDE DEF T
    <3> QED
      BY <2>4, <2>5, EveryNumber
  <2>7. n - 1 \in Nat /\ (n - 1) + 1 = n /\ n <= n
    BY <1>1, <1>9
  <2>8. n - 1 \in T
    <3> HIDE DEF T
    <3> QED
      BY <2>6, <2>7
  <2> QED
    BY <2>7, <2>8
<1>10. FlattenSeq(seqs) = run[n]
  BY <1>2, <1>8, <1>9
<1>11. Ends(n, V, <<>>, step, FlattenSeq(seqs))
  BY <1>6, <1>10 DEF Ends
<1> QED
  BY <1>11 DEF FoldEnd, n, V, step

\* So one more sequence comes last.
LEMMA FlattenAppend ==
  ASSUME NEW S, NEW seqs \in Seq(Seq(S)), NEW seq \in Seq(S)
  PROVE  /\ FlattenSeq(<<>>) = <<>>
         /\ FlattenSeq(seqs) \in Seq(S)
         /\ FlattenSeq(Append(seqs, seq)) = FlattenSeq(seqs) \o seq
<1> DEFINE V == Seq(S)
<1>1. <<>> \in V /\ Joins(S) \in [V \X V -> V]
  BY DEF Joins
<1>2. Append(seqs, seq) \in Seq(V)
  OBVIOUS
<1>3. FoldEnd(V, <<>>, Joins(S), seqs, FlattenSeq(seqs))
  BY FlattenEnds
<1>4. FoldEnd(V, <<>>, Joins(S), Append(seqs, seq), FlattenSeq(Append(seqs, seq)))
  BY <1>2, FlattenEnds
<1>5. FlattenSeq(seqs) \in V /\ FlattenSeq(Append(seqs, seq)) = Joins(S)[<<FlattenSeq(seqs), seq>>]
  <2>1. seq \in V /\ seqs \in Seq(V)
    OBVIOUS
  <2> DEFINE step == Joins(S)
             base == <<>>
             end == FlattenSeq(seqs)
             next == FlattenSeq(Append(seqs, seq))
  <2>2. /\ IsFold(V, V, base, step)
        /\ FoldEnd(V, base, step, seqs, end) /\ FoldEnd(V, base, step, Append(seqs, seq), next)
    BY <1>1, <1>3, <1>4 DEF IsFold
  <2> HIDE DEF V, step, base, end, next
  <2>3. end \in V /\ next = step[<<end, seq>>]
    BY <2>1, <2>2, FoldAppended
  <2> QED
    BY <2>3 DEF step, end, next
<1>6. FlattenSeq(<<>>) = <<>>
  BY DEF FlattenSeq
<1> QED
  BY <1>5, <1>6 DEF Joins

-----------------------------------------------------------------------------
(* Parts of sequences, and division.                                      *)

\* The first elements of a sequence, and one more.
LEMMA FirstElements ==
  ASSUME NEW X, NEW s \in Seq(X), NEW m \in Nat, m <= Len(s)
  PROVE  /\ SubSeq(s, 1, m) \in Seq(X)
         /\ m + 1 <= Len(s) => SubSeq(s, 1, m + 1) = Append(SubSeq(s, 1, m), s[m + 1])
<1>1. SubSeq(s, 1, m) \in Seq(X)
  OBVIOUS
<1>2. ASSUME m + 1 <= Len(s)
      PROVE  SubSeq(s, 1, m + 1) = Append(SubSeq(s, 1, m), s[m + 1])
  BY <1>2
<1> QED
  BY <1>1, <1>2

\* Division, with its remainder.
LEMMA Quotient ==
  ASSUME NEW m \in Nat, NEW k \in Nat \ {0}
  PROVE  m \div k \in Nat /\ (m \div k) * k <= m /\ m < (m \div k) * k + k
OBVIOUS

LEMMA Multiples ==
  ASSUME NEW a \in Nat, NEW b \in Nat, NEW k \in Nat
  PROVE  a * k \in Nat /\ (a + 1) * k = a * k + k /\ (a <= b => a * k <= b * k)
<1>1. a * k \in Nat /\ (a + 1) * k = a * k + k
  OBVIOUS
<1>2. a <= b => a * k <= b * k
  OBVIOUS
<1> QED
  BY <1>1, <1>2

\* Parts of a sequence that follow each other.
LEMMA PartsJoin ==
  ASSUME NEW X, NEW s \in Seq(X), NEW a \in Nat, NEW b \in Nat, a <= b, b <= Len(s)
  PROVE  SubSeq(s, 1, a) \o SubSeq(s, a + 1, b) = SubSeq(s, 1, b)
OBVIOUS
=============================================================================

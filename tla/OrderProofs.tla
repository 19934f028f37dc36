--------------------------- MODULE OrderProofs -----------------------------
(***************************************************************************)
(* What order rests on: index paths are in a strict total order, so that   *)
(* the heaps of both queues have one top and "depth-first" means one       *)
(* sequence; the OrderedMatcher goes from each path to the next; and       *)
(* positions in a sequence can be put in order.                            *)
(***************************************************************************)
EXTENDS OrderedMatcher, Positions, SequenceTheorems, FiniteSetTheorems,
        WellFoundedInduction, TLAPS

\* The least-number principle, for sets: what stands in for induction here.
LEMMA LeastNat ==
    ASSUME NEW T \in SUBSET Nat, T # {}
    PROVE  \E n \in T : \A m \in T : n <= m
<1> DEFINE R == {pair \in Nat \X Nat : pair[1] < pair[2]}
<1>1. IsWellFoundedOn(R, Nat) BY NatLessThanWellFounded DEF OpToRel
<1>2. \E n \in T : \A m \in T : ~ (<<m, n>> \in R)
  <2> HIDE DEF R
  <2> QED BY <1>1, WFMin
<1>3. PICK n \in T : \A m \in T : ~ (<<m, n>> \in R) BY <1>2
<1>4. \A m \in T : ~(m < n)
  <2> TAKE m \in T
  <2>1. ~ (<<m, n>> \in R) BY <1>3
  <2>2. m \in Nat /\ n \in Nat OBVIOUS
  <2> QED BY <2>1, <2>2
<1>5. \A m \in T : n <= m BY <1>4
<1> QED BY <1>5

\* A bounded set of numbers has a greatest one.
LEMMA GreatestNat ==
    ASSUME NEW n \in Nat, NEW T \in SUBSET (0 .. n), T # {}
    PROVE  \E k \in T : \A m \in T : m <= k
<1> DEFINE D == {n - m : m \in T}
<1>1. \A m \in T : n - m \in Nat OBVIOUS
<1>1a. D \in SUBSET Nat BY <1>1
<1>1b. D # {} OBVIOUS
<1>2. PICK d \in D : \A e \in D : d <= e
  <2> HIDE DEF D
  <2> QED BY <1>1a, <1>1b, LeastNat
<1>3. PICK k \in T : d = n - k OBVIOUS
<1>4. ASSUME NEW m \in T PROVE m <= k
  <2>1. n - m \in D OBVIOUS
  <2>2. n - k <= n - m BY <1>2, <1>3, <2>1
  <2>3. m \in Int /\ k \in Int /\ n \in Int OBVIOUS
  <2> QED BY <2>2, <2>3
<1> QED BY <1>4

\* Two different paths have a first position in which they differ, or one is
\* a proper prefix of the other.
LEMMA FirstDifference ==
    ASSUME NEW p \in Paths, NEW q \in Paths, p # q
    PROVE  \/ \E k \in 1 .. Len(p) : /\ k <= Len(q)
                                     /\ p[k] # q[k]
                                     /\ \A j \in 1 .. (k - 1) : p[j] = q[j]
           \/ Len(p) < Len(q) /\ \A j \in 1 .. Len(p) : p[j] = q[j]
           \/ Len(q) < Len(p) /\ \A j \in 1 .. Len(q) : p[j] = q[j]
<1> DEFINE T == {k \in 1 .. Len(p) : k <= Len(q) /\ p[k] # q[k]}
<1>0. p \in Seq(Nat) /\ q \in Seq(Nat) /\ Len(p) \in Nat /\ Len(q) \in Nat
  BY DEF Paths
<1>1. CASE T = {}
  <2>1. \A k \in 1 .. Len(p) : k <= Len(q) => p[k] = q[k] BY <1>1
  <2>2. CASE Len(p) = Len(q)
    <3>1. \A k \in 1 .. Len(p) : p[k] = q[k] BY <1>0, <2>1, <2>2
    <3> QED BY <1>0, <2>2, <3>1, SeqEqual
  <2>3. CASE Len(p) < Len(q) BY <1>0, <2>1, <2>3
  <2>4. CASE Len(q) < Len(p) BY <1>0, <2>1, <2>4
  <2> QED BY <1>0, <2>2, <2>3, <2>4
<1>2. CASE T # {}
  <2>1. T \in SUBSET Nat BY <1>0
  <2>2. PICK k \in T : \A m \in T : k <= m
    <3> HIDE DEF T
    <3> QED BY <1>2, <2>1, LeastNat
  <2>3. k \in 1 .. Len(p) /\ k <= Len(q) /\ p[k] # q[k] OBVIOUS
  <2>4. ASSUME NEW j \in 1 .. (k - 1) PROVE p[j] = q[j]
    <3>1. j \in 1 .. Len(p) /\ j <= Len(q) /\ ~(k <= j) BY <1>0, <2>3
    <3>2. j \notin T BY <2>2, <3>1
    <3> QED BY <3>1, <3>2
  <2> QED BY <2>3, <2>4
<1> QED BY <1>1, <1>2

\* Of two different paths one comes before the other.
LEMMA BeforeTotal ==
    ASSUME NEW p \in Paths, NEW q \in Paths, p # q
    PROVE  Before(p, q) \/ Before(q, p)
<1>1. p \in Seq(Nat) /\ q \in Seq(Nat) /\ Len(p) \in Nat /\ Len(q) \in Nat
  BY DEF Paths
<1>2. ASSUME NEW k \in 1 .. Len(p), k <= Len(q), p[k] # q[k],
             \A j \in 1 .. (k - 1) : p[j] = q[j]
      PROVE  Before(p, q) \/ Before(q, p)
  <2>1. k \in 1 .. Len(q) /\ k <= Len(p) BY <1>1, <1>2
  <2>2. p[k] \in Nat /\ q[k] \in Nat BY <1>1, <2>1
  <2>3. CASE p[k] < q[k] BY <1>2, <2>3 DEF Before
  <2>4. CASE q[k] < p[k]
    <3>1. \A j \in 1 .. (k - 1) : q[j] = p[j] BY <1>2
    <3> QED BY <2>1, <2>4, <3>1 DEF Before
  <2> QED BY <1>2, <2>2, <2>3, <2>4
<1>3. CASE Len(p) < Len(q) /\ \A j \in 1 .. Len(p) : p[j] = q[j] BY <1>3 DEF Before
<1>4. CASE Len(q) < Len(p) /\ \A j \in 1 .. Len(q) : p[j] = q[j] BY <1>4 DEF Before
<1> QED BY <1>2, <1>3, <1>4, FirstDifference

\* No path is both before and after another, or before itself.
LEMMA BeforeAsymmetric ==
    ASSUME NEW p \in Paths, NEW q \in Paths, Before(p, q)
    PROVE  ~Before(q, p) /\ p # q
<1>1. p \in Seq(Nat) /\ q \in Seq(Nat) /\ Len(p) \in Nat /\ Len(q) \in Nat
  BY DEF Paths
<1>2. \A k \in 1 .. Len(p) : p[k] \in Nat BY <1>1
<1>3. \A k \in 1 .. Len(q) : q[k] \in Nat BY <1>1
<1>4. CASE Len(p) < Len(q) /\ \A j \in 1 .. Len(p) : p[j] = q[j]
  BY <1>1, <1>2, <1>3, <1>4 DEF Before
<1>5. ASSUME NEW k \in 1 .. Len(p), k <= Len(q), p[k] < q[k],
             \A j \in 1 .. (k - 1) : p[j] = q[j]
      PROVE  ~Before(q, p) /\ p # q
  <2>1. p[k] \in Nat /\ q[k] \in Nat /\ p # q BY <1>1, <1>2, <1>3, <1>5
  <2>2. ~(Len(q) < Len(p) /\ \A j \in 1 .. Len(q) : q[j] = p[j])
    BY <1>1, <1>5, <2>1
  <2>3. ASSUME NEW l \in 1 .. Len(q), l <= Len(p), q[l] < p[l],
               \A j \in 1 .. (l - 1) : q[j] = p[j]
        PROVE  FALSE
    <3>1. p[l] \in Nat /\ q[l] \in Nat BY <1>1, <1>2, <1>3, <2>3
    <3>2. CASE l < k BY <1>1, <1>5, <2>3, <3>1, <3>2
    <3>3. CASE k < l BY <1>1, <1>5, <2>1, <2>3, <3>3
    <3>4. CASE k = l BY <1>5, <2>1, <2>3, <3>4
    <3> QED BY <1>1, <3>2, <3>3, <3>4
  <2> QED BY <2>1, <2>2, <2>3 DEF Before
<1> QED BY <1>4, <1>5 DEF Before

LEMMA BeforeTransitive ==
    ASSUME NEW p \in Paths, NEW q \in Paths, NEW r \in Paths,
           Before(p, q), Before(q, r)
    PROVE  Before(p, r)
<1>1. /\ p \in Seq(Nat) /\ q \in Seq(Nat) /\ r \in Seq(Nat)
      /\ Len(p) \in Nat /\ Len(q) \in Nat /\ Len(r) \in Nat
  BY DEF Paths
<1>2. /\ \A k \in 1 .. Len(p) : p[k] \in Nat
      /\ \A k \in 1 .. Len(q) : q[k] \in Nat
      /\ \A k \in 1 .. Len(r) : r[k] \in Nat
  BY <1>1
<1>3. CASE Len(p) < Len(q) /\ \A j \in 1 .. Len(p) : p[j] = q[j]
  <2>1. CASE Len(q) < Len(r) /\ \A j \in 1 .. Len(q) : q[j] = r[j]
    BY <1>1, <1>3, <2>1 DEF Before
  <2>2. ASSUME NEW k \in 1 .. Len(q), k <= Len(r), q[k] < r[k],
               \A j \in 1 .. (k - 1) : q[j] = r[j]
        PROVE  Before(p, r)
    <3>1. CASE k <= Len(p)
      <4>1. k \in 1 .. Len(p) /\ p[k] < r[k] BY <1>1, <1>3, <2>2, <3>1
      <4>2. \A j \in 1 .. (k - 1) : p[j] = r[j] BY <1>1, <1>3, <2>2, <4>1
      <4> QED BY <2>2, <4>1, <4>2 DEF Before
    <3>2. CASE Len(p) < k
      <4>1. Len(p) < Len(r) BY <1>1, <2>2, <3>2
      <4>2. \A j \in 1 .. Len(p) : p[j] = r[j] BY <1>1, <1>3, <2>2, <3>2
      <4> QED BY <4>1, <4>2 DEF Before
    <3> QED BY <1>1, <3>1, <3>2
  <2> QED BY <2>1, <2>2 DEF Before
<1>4. ASSUME NEW k \in 1 .. Len(p), k <= Len(q), p[k] < q[k],
             \A j \in 1 .. (k - 1) : p[j] = q[j]
      PROVE  Before(p, r)
  <2>1. CASE Len(q) < Len(r) /\ \A j \in 1 .. Len(q) : q[j] = r[j]
    <3>1. k <= Len(r) /\ p[k] < r[k] BY <1>1, <1>4, <2>1
    <3>2. \A j \in 1 .. (k - 1) : p[j] = r[j] BY <1>1, <1>4, <2>1
    <3> QED BY <1>4, <3>1, <3>2 DEF Before
  <2>2. ASSUME NEW l \in 1 .. Len(q), l <= Len(r), q[l] < r[l],
               \A j \in 1 .. (l - 1) : q[j] = r[j]
        PROVE  Before(p, r)
    <3>1. CASE k < l
      <4>1. k <= Len(r) /\ p[k] < r[k] BY <1>1, <1>4, <2>2, <3>1
      <4>2. \A j \in 1 .. (k - 1) : p[j] = r[j] BY <1>1, <1>4, <2>2, <3>1
      <4> QED BY <1>4, <4>1, <4>2 DEF Before
    <3>2. CASE k = l
      <4>1. p[k] < r[k] BY <1>1, <1>2, <1>4, <2>2, <3>2
      <4>2. \A j \in 1 .. (k - 1) : p[j] = r[j] BY <1>1, <1>4, <2>2, <3>2
      <4> QED BY <1>4, <2>2, <3>2, <4>1, <4>2 DEF Before
    <3>3. CASE l < k
      <4>1. l \in 1 .. Len(p) /\ p[l] < r[l] BY <1>1, <1>4, <2>2, <3>3
      <4>2. \A j \in 1 .. (l - 1) : p[j] = r[j] BY <1>1, <1>4, <2>2, <3>3
      <4> QED BY <2>2, <4>1, <4>2 DEF Before
    <3> QED BY <1>1, <3>1, <3>2, <3>3
  <2> QED BY <2>1, <2>2 DEF Before
<1> QED BY <1>3, <1>4 DEF Before

\* Ord for IndexPath is a strict total order on index paths of any length: the
\* heaps of directories and of results have exactly one top.
THEOREM PathsAreOrdered ==
    /\ \A p \in Paths : ~Before(p, p)
    /\ \A p, q \in Paths : p # q => Before(p, q) \/ Before(q, p)
    /\ \A p, q, r \in Paths : Before(p, q) /\ Before(q, r) => Before(p, r)
<1>1. \A p \in Paths : ~Before(p, p) BY BeforeAsymmetric
<1>2. \A p, q \in Paths : p # q => Before(p, q) \/ Before(q, p) BY BeforeTotal
<1>3. \A p, q, r \in Paths : Before(p, q) /\ Before(q, r) => Before(p, r)
  BY BeforeTransitive
<1> QED BY <1>1, <1>2, <1>3

------------------------------------------------------------------------------
(* The matcher *)

\* How many results are left at each level of path: on the last level with the
\* one at path, on the others after the one gone into.
StackCounts(results, path, stack) ==
    /\ path # <<>> => /\ path[1] = 0
                      /\ stack[1] = IF Len(path) = 1 THEN 1 ELSE 0
                      /\ stack[Len(path)] > 0
    /\ \A k \in 2 .. Len(path) : \E s \in results :
          /\ s.index_path = SubSeq(path, 1, k - 1)
          /\ stack[k] = s.child_count - path[k] - (IF k = Len(path) THEN 0 ELSE 1)

\* Results have paths, and one result per path.
LEMMA ResultPaths ==
    ASSUME NEW results, ResultTree(results)
    PROVE
    /\ \A r \in results : /\ r.index_path \in Seq(Nat)
                          /\ r.index_path \in Paths
                          /\ r.index_path # <<>>
                          /\ Len(r.index_path) \in Nat \ {0}
                          /\ r.index_path[1] = 0
                          /\ r.child_count \in Nat
    /\ \A r, s \in results : r.index_path = s.index_path => r = s
<1>1. \A r \in results : r.index_path \in Paths \ {<<>>} BY DEF ResultTree
<1>2. \A r \in results : r.index_path \in Seq(Nat) /\ r.index_path # <<>>
  BY <1>1 DEF Paths
<1>3. \A r \in results : Len(r.index_path) \in Nat \ {0} BY <1>2, EmptySeq
<1> QED BY <1>1, <1>2, <1>3 DEF ResultTree

\* Every path below the root has its parent among the results.
LEMMA Parent ==
    ASSUME NEW results, ResultTree(results), NEW r \in results, NEW k \in 2 .. Len(r.index_path)
    PROVE  \E s \in results : /\ s.index_path = SubSeq(r.index_path, 1, k - 1)
                              /\ r.index_path[k] < s.child_count
<1>1. k - 1 \in 1 .. (Len(r.index_path) - 1) /\ (k - 1) + 1 = k BY ResultPaths
<1>2. \E s \in results : /\ s.index_path = SubSeq(r.index_path, 1, k - 1)
                         /\ r.index_path[(k - 1) + 1] < s.child_count
  BY <1>1 DEF ResultTree
<1> QED BY <1>1, <1>2

\* A prefix, position by position.
LEMMA Prefix ==
    ASSUME NEW p \in Seq(Nat), NEW k \in 0 .. Len(p)
    PROVE  /\ SubSeq(p, 1, k) \in Seq(Nat)
           /\ Len(SubSeq(p, 1, k)) = k
           /\ \A i \in 1 .. k : SubSeq(p, 1, k)[i] = p[i]
<1>1. \A i \in 1 .. k : p[i] \in Nat OBVIOUS
<1>2. Len(SubSeq(p, 1, k)) = IF 1 <= k THEN k - 1 + 1 ELSE 0 BY <1>1, SubSeqProperties
<1>3. \A i \in 1 .. (k - 1 + 1) : SubSeq(p, 1, k)[i] = p[1 + i - 1] BY <1>1, SubSeqProperties
<1>4. SubSeq(p, 1, k) \in Seq(Nat) BY <1>1, SubSeqProperties
<1> QED BY <1>2, <1>3, <1>4

\* Equal positions make equal prefixes.
LEMMA SamePrefix ==
    ASSUME NEW p \in Seq(Nat), NEW q \in Seq(Nat), NEW k \in Nat,
           k <= Len(p), k <= Len(q), \A i \in 1 .. k : p[i] = q[i]
    PROVE  SubSeq(p, 1, k) = SubSeq(q, 1, k)
<1>1. k \in 0 .. Len(p) /\ k \in 0 .. Len(q) OBVIOUS
<1>2. \A i \in 1 .. k : SubSeq(p, 1, k)[i] = SubSeq(q, 1, k)[i] BY <1>1, Prefix
<1>3. Len(SubSeq(p, 1, k)) = k /\ Len(SubSeq(q, 1, k)) = k BY <1>1, Prefix
<1>4. SubSeq(p, 1, k) \in Seq(Nat) /\ SubSeq(q, 1, k) \in Seq(Nat) BY <1>1, Prefix
<1> QED BY <1>2, <1>3, <1>4, SeqEqual

\* decrement_remaining_children changes the last level only.
LEMMA Decremented ==
    ASSUME NEW stack \in Seq(Nat), stack # <<>>, stack[Len(stack)] > 0
    PROVE  /\ DecrementRemaining(stack) \in Seq(Nat)
           /\ Len(DecrementRemaining(stack)) = Len(stack)
           /\ \A k \in 1 .. Len(stack) :
                 DecrementRemaining(stack)[k] = IF k = Len(stack) THEN stack[k] - 1 ELSE stack[k]
<1>1. Len(stack) \in 1 .. Len(stack) BY EmptySeq
<1>2. stack[Len(stack)] \in Nat BY <1>1
<1> DEFINE e == IF stack[Len(stack)] > 0 THEN stack[Len(stack)] - 1 ELSE 0
<1>3. e \in Nat /\ e = stack[Len(stack)] - 1 BY <1>2
<1>4. DecrementRemaining(stack) = [stack EXCEPT ![Len(stack)] = e] BY DEF DecrementRemaining
<1> HIDE DEF e
<1> QED BY <1>1, <1>3, <1>4, ExceptSeq

\* The deepest level with results left is well defined.
LEMMA DeepestLevel ==
    ASSUME NEW stack \in Seq(Nat)
    PROVE  /\ Deepest(stack) \in 0 .. Len(stack)
           /\ Deepest(stack) # 0 => stack[Deepest(stack)] # 0
           /\ \A j \in (Deepest(stack) + 1) .. Len(stack) : stack[j] = 0
<1> DEFINE T == {k \in 0 .. Len(stack) : k # 0 => stack[k] # 0}
<1>1. Len(stack) \in Nat OBVIOUS
<1>2. T \in SUBSET (0 .. Len(stack)) /\ 0 \in T BY <1>1
<1>3. PICK k \in T : \A m \in T : m <= k
  <2> HIDE DEF T
  <2> QED BY <1>1, <1>2, GreatestNat
<1>4. k \in 0 .. Len(stack) /\ (k # 0 => stack[k] # 0) OBVIOUS
<1>5. ASSUME NEW j \in (k + 1) .. Len(stack) PROVE stack[j] = 0
  <2>1. j \in 0 .. Len(stack) /\ j # 0 /\ ~(j <= k) BY <1>1, <1>4
  <2>2. j \notin T BY <1>3, <2>1
  <2> QED BY <2>1, <2>2
<1> QED BY <1>4, <1>5 DEF Deepest

\* What the levels hold once the result at path is found: the siblings after
\* it, and after each of its ancestors.
LeftBehind(results, path, rest) ==
    /\ rest \in Seq(Nat)
    /\ Len(rest) = Len(path)
    /\ rest[1] = 0
    /\ \A k \in 2 .. Len(path) : \E s \in results :
          /\ s.index_path = SubSeq(path, 1, k - 1)
          /\ rest[k] = s.child_count - path[k] - 1

LEMMA LevelsLeft ==
    ASSUME NEW results, ResultTree(results),
           NEW path \in Seq(Nat), NEW stack \in Seq(Nat), Len(stack) = Len(path),
           path # <<>>, StackCounts(results, path, stack)
    PROVE  LeftBehind(results, path, DecrementRemaining(stack))
<1> DEFINE rest == DecrementRemaining(stack)
<1>1. Len(path) \in Nat \ {0} BY EmptySeq
<1>2. stack # <<>> /\ stack[Len(stack)] > 0 BY <1>1, EmptySeq DEF StackCounts
<1>3. /\ rest \in Seq(Nat)
      /\ Len(rest) = Len(path)
      /\ \A k \in 1 .. Len(path) : rest[k] = IF k = Len(path) THEN stack[k] - 1 ELSE stack[k]
  BY <1>2, Decremented
<1> HIDE DEF rest
<1>4. rest[1] = 0 BY <1>1, <1>3 DEF StackCounts
<1>5. ASSUME NEW k \in 2 .. Len(path)
      PROVE  \E s \in results : /\ s.index_path = SubSeq(path, 1, k - 1)
                                /\ rest[k] = s.child_count - path[k] - 1
  <2>1. PICK s \in results :
          /\ s.index_path = SubSeq(path, 1, k - 1)
          /\ stack[k] = s.child_count - path[k] - (IF k = Len(path) THEN 0 ELSE 1)
    BY DEF StackCounts
  <2>2. k \in 1 .. Len(path) /\ path[k] \in Nat /\ s.child_count \in Nat
    BY <1>1, ResultPaths
  <2>3. CASE k = Len(path)
    <3>1. rest[k] = stack[k] - 1 /\ stack[k] = s.child_count - path[k] - 0
      BY <1>3, <2>1, <2>2, <2>3
    <3> QED BY <2>1, <2>2, <3>1
  <2>4. CASE k # Len(path)
    <3>1. rest[k] = stack[k] /\ stack[k] = s.child_count - path[k] - 1
      BY <1>3, <2>1, <2>2, <2>4
    <3> QED BY <2>1, <3>1
  <2> QED BY <2>3, <2>4
<1> QED BY <1>3, <1>4, <1>5 DEF rest, LeftBehind

\* advance_past keeps the counts right.
LEMMA AdvanceCounts ==
    ASSUME NEW results, ResultTree(results), NEW path \in Seq(Nat), NEW stack \in Seq(Nat), Len(stack) = Len(path),
           StackCounts(results, path, stack), NEW r \in results, r.index_path = path
    PROVE  /\ AdvancePath(path, stack, r.child_count) \in Seq(Nat)
           /\ AdvanceStack(stack, r.child_count) \in Seq(Nat)
           /\ Len(AdvanceStack(stack, r.child_count)) = Len(AdvancePath(path, stack, r.child_count))
           /\ StackCounts(results, AdvancePath(path, stack, r.child_count),
                          AdvanceStack(stack, r.child_count))
<1> DEFINE rest == DecrementRemaining(stack)
           next == AdvancePath(path, stack, r.child_count)
           left == AdvanceStack(stack, r.child_count)
           n == Len(path)
<1>0. path # <<>> /\ n \in Nat \ {0} /\ r.child_count \in Nat /\ path[1] = 0
  BY ResultPaths
<1>1. /\ rest \in Seq(Nat)
      /\ Len(rest) = n
      /\ rest[1] = 0
      /\ \A k \in 2 .. n : \E s \in results :
            /\ s.index_path = SubSeq(path, 1, k - 1)
            /\ rest[k] = s.child_count - path[k] - 1
  <2>1. path # <<>> BY <1>0
  <2>2. LeftBehind(results, path, DecrementRemaining(stack)) BY <2>1, LevelsLeft
  <2> QED BY <2>2 DEF LeftBehind
<1>2. CASE r.child_count > 0
  <2>1. next = Append(path, 0) /\ left = Append(rest, r.child_count)
    BY <1>2 DEF AdvancePath, AdvanceStack, Adding
  <2> HIDE DEF rest, next, left
  <2>2. /\ next \in Seq(Nat) /\ left \in Seq(Nat)
        /\ Len(next) = n + 1 /\ Len(left) = n + 1
        /\ next[n + 1] = 0 /\ left[n + 1] = r.child_count
        /\ \A i \in 1 .. n : next[i] = path[i] /\ left[i] = rest[i]
    BY <1>0, <1>1, <2>1, AppendProperties
  <2>3. /\ next[1] = 0
        /\ left[1] = IF Len(next) = 1 THEN 1 ELSE 0
        /\ left[Len(next)] > 0
    BY <1>0, <1>1, <1>2, <2>2
  <2>4. ASSUME NEW k \in 2 .. Len(next)
        PROVE  \E s \in results :
                 /\ s.index_path = SubSeq(next, 1, k - 1)
                 /\ left[k] = s.child_count - next[k] - (IF k = Len(next) THEN 0 ELSE 1)
    <3>1. SubSeq(next, 1, k - 1) = SubSeq(path, 1, k - 1)
      <4>1. n \in Nat /\ k \in 2 .. (n + 1) BY <1>0, <2>2
      <4>2. k - 1 \in Nat /\ k - 1 <= n + 1 /\ k - 1 <= n BY <4>1
      <4>3. \A i \in 1 .. (k - 1) : i \in 1 .. n BY <4>1
      <4>4. \A i \in 1 .. (k - 1) : next[i] = path[i] BY <2>2, <4>3
      <4> QED BY <2>2, <4>2, <4>4, SamePrefix
    <3>2. CASE k = n + 1
      <4>1. SubSeq(path, 1, k - 1) = path BY <1>0, <3>2, SubSeqFull
      <4>2. left[k] = r.child_count - next[k] - 0 BY <1>0, <2>2, <3>2
      <4> QED BY <2>2, <3>1, <3>2, <4>1, <4>2
    <3>3. CASE k # n + 1
      <4>0. n \in Nat /\ k \in 2 .. (n + 1) /\ k # Len(next) BY <1>0, <2>2, <3>3
      <4>1. k \in 2 .. n /\ k # Len(next) /\ k \in 1 .. n BY <3>3, <4>0
      <4>2. PICK s \in results : /\ s.index_path = SubSeq(path, 1, k - 1)
                                 /\ rest[k] = s.child_count - path[k] - 1
        BY <1>1, <4>1
      <4>3. left[k] = s.child_count - next[k] - 1 BY <2>2, <4>1, <4>2
      <4> QED BY <3>1, <4>1, <4>2, <4>3
    <3> QED BY <3>2, <3>3
  <2>5. StackCounts(results, next, left) BY <2>3, <2>4 DEF StackCounts
  <2> QED BY <2>2, <2>5 DEF next, left
<1>3. CASE ~(r.child_count > 0)
  <2> DEFINE d == Deepest(rest)
  <2>0. rest \in Seq(Nat) /\ Len(rest) = n BY <1>1
  <2>1. /\ d \in 0 .. n
        /\ d # 0 => rest[d] # 0
        /\ \A j \in (d + 1) .. n : rest[j] = 0
    <3> HIDE DEF rest
    <3> QED BY <2>0, DeepestLevel
  <2>2. left = SubSeq(rest, 1, d) BY <1>3 DEF AdvanceStack
  <2>3. next = IF d = 0 THEN <<>> ELSE IncrementLast(SubSeq(path, 1, d))
    BY <1>3 DEF AdvancePath
  <2> HIDE DEF rest, next, left, d
  <2>4. left \in Seq(Nat) /\ Len(left) = d /\ \A i \in 1 .. d : left[i] = rest[i]
    BY <1>1, <2>1, <2>2, Prefix
  <2>5. CASE d = 0
    <3>1. next = <<>> /\ next \in Seq(Nat) /\ Len(next) = 0 BY <2>3, <2>5, EmptySeq
    <3>2. StackCounts(results, next, left) BY <3>1 DEF StackCounts
    <3> QED BY <2>4, <2>5, <3>1, <3>2 DEF next, left
  <2>6. CASE d # 0
    <3> DEFINE top == SubSeq(path, 1, d)
    <3>1. top \in Seq(Nat) /\ Len(top) = d /\ \A i \in 1 .. d : top[i] = path[i]
      BY <1>0, <2>1, Prefix
    <3>2. next = IncrementLast(top) BY <2>3, <2>6
    <3> HIDE DEF top
    <3>3. d \in 1 .. Len(top) /\ top[d] + 1 \in Nat BY <2>1, <2>6, <3>1
    <3>4. next = [top EXCEPT ![d] = top[d] + 1] BY <3>1, <3>2 DEF IncrementLast
    <3>5. /\ next \in Seq(Nat) /\ Len(next) = d
          /\ \A i \in 1 .. d : next[i] = IF i = d THEN path[i] + 1 ELSE path[i]
      BY <3>1, <3>3, <3>4, ExceptSeq
    <3>6. d > 1 BY <1>1, <2>1, <2>6
    <3>7. /\ next[1] = 0
          /\ left[1] = IF Len(next) = 1 THEN 1 ELSE 0
          /\ left[Len(next)] > 0
      <4>1. d \in Nat /\ 1 \in 1 .. d /\ d \in 1 .. d /\ 1 # d BY <2>1, <3>6
      <4>2. next[1] = 0 BY <1>0, <3>5, <4>1
      <4>3. left[1] = 0 /\ left[d] = rest[d] /\ left[d] \in Nat BY <1>1, <2>4, <4>1
      <4>4. rest[d] # 0 BY <2>1, <2>6
      <4>5. left[d] > 0 BY <4>3, <4>4
      <4> QED BY <3>5, <4>1, <4>2, <4>3, <4>5
    <3>8. ASSUME NEW k \in 2 .. Len(next)
          PROVE  \E s \in results :
                   /\ s.index_path = SubSeq(next, 1, k - 1)
                   /\ left[k] = s.child_count - next[k] - (IF k = Len(next) THEN 0 ELSE 1)
      <4>1. /\ k \in 2 .. n /\ k \in 1 .. d /\ k - 1 \in Nat
            /\ k - 1 <= Len(next) /\ k - 1 <= Len(path)
            /\ \A i \in 1 .. (k - 1) : next[i] = path[i]
        BY <1>0, <2>1, <3>5
      <4>2. SubSeq(next, 1, k - 1) = SubSeq(path, 1, k - 1) BY <3>5, <4>1, SamePrefix
      <4>3. PICK s \in results : /\ s.index_path = SubSeq(path, 1, k - 1)
                                 /\ rest[k] = s.child_count - path[k] - 1
        BY <1>1, <4>1
      <4>4. s.child_count \in Nat /\ path[k] \in Nat BY <4>1, ResultPaths
      <4>5. left[k] = s.child_count - next[k] - (IF k = Len(next) THEN 0 ELSE 1)
        <5>1. left[k] = s.child_count - path[k] - 1 BY <2>4, <4>1, <4>3
        <5>2. CASE k = d
          <6>1. next[k] = path[k] + 1 /\ k = Len(next) BY <3>5, <4>1, <5>2
          <6>2. s.child_count - path[k] - 1 = s.child_count - (path[k] + 1) - 0 BY <4>4
          <6> QED BY <5>1, <6>1, <6>2
        <5>3. CASE k # d
          <6>1. next[k] = path[k] /\ k # Len(next) BY <3>5, <4>1, <5>3
          <6> QED BY <5>1, <6>1
        <5> QED BY <5>2, <5>3
      <4> QED BY <4>2, <4>3, <4>5
    <3>9. StackCounts(results, next, left) BY <3>7, <3>8 DEF StackCounts
    <3> QED BY <2>4, <3>5, <3>9 DEF next, left
  <2> QED BY <2>5, <2>6
<1> QED BY <1>2, <1>3

\* advance_past moves to the successor in depth-first order: no result lies
\* between the one returned and the one looked for next.
LEMMA AdvanceSkipsNone ==
    ASSUME NEW results, ResultTree(results), NEW path \in Seq(Nat), NEW stack \in Seq(Nat), Len(stack) = Len(path),
           StackCounts(results, path, stack), NEW r \in results, r.index_path = path,
           NEW x \in results, Before(path, x.index_path)
    PROVE  /\ AdvancePath(path, stack, r.child_count) # <<>>
           /\ ~Before(x.index_path, AdvancePath(path, stack, r.child_count))
<1> DEFINE rest == DecrementRemaining(stack)
           next == AdvancePath(path, stack, r.child_count)
           n == Len(path)
           q == x.index_path
<1>0. /\ path # <<>> /\ n \in Nat \ {0} /\ r.child_count \in Nat /\ path[1] = 0
      /\ q \in Seq(Nat) /\ Len(q) \in Nat \ {0} /\ q[1] = 0
      /\ \A i \in 1 .. n : path[i] \in Nat
      /\ \A i \in 1 .. Len(q) : q[i] \in Nat
  <2>1. /\ path # <<>> /\ n \in Nat \ {0} /\ r.child_count \in Nat /\ path[1] = 0
        /\ q \in Seq(Nat) /\ Len(q) \in Nat \ {0} /\ q[1] = 0
    BY ResultPaths
  <2>2. \A i \in 1 .. n : path[i] \in Nat OBVIOUS
  <2> HIDE DEF q
  <2>3. \A i \in 1 .. Len(q) : q[i] \in Nat BY <2>1
  <2> QED BY <2>1, <2>2, <2>3
<1>1. /\ rest \in Seq(Nat)
      /\ Len(rest) = n
      /\ rest[1] = 0
      /\ \A k \in 2 .. n : \E s \in results :
            /\ s.index_path = SubSeq(path, 1, k - 1)
            /\ rest[k] = s.child_count - path[k] - 1
  <2>1. path # <<>> BY <1>0
  <2>2. LeftBehind(results, path, DecrementRemaining(stack)) BY <2>1, LevelsLeft
  <2> QED BY <2>2 DEF LeftBehind
<1> HIDE DEF rest
<1>2. CASE r.child_count > 0
  <2>1. next = Append(path, 0) BY <1>2 DEF AdvancePath, Adding
  <2> HIDE DEF next, q
  <2>2. /\ next \in Seq(Nat) /\ next # <<>> /\ Len(next) = n + 1 /\ next[n + 1] = 0
        /\ \A i \in 1 .. n : next[i] = path[i]
    BY <1>0, <2>1, AppendProperties
  <2>3. CASE n < Len(q) /\ \A j \in 1 .. n : path[j] = q[j]
    <3>1. ~(Len(q) < Len(next)) BY <1>0, <2>2, <2>3
    <3>2. ASSUME NEW k \in 1 .. Len(q), k <= Len(next), q[k] < next[k] PROVE FALSE
      <4>1. n \in Nat /\ k <= n + 1 /\ k \in Nat /\ k >= 1 BY <1>0, <2>2, <3>2
      <4>2. q[k] \in Nat BY <1>0
      <4>3. CASE k \in 1 .. n
        <5>1. next[k] = q[k] BY <2>2, <2>3, <4>3
        <5> QED BY <3>2, <4>2, <5>1
      <4>4. CASE k = n + 1
        <5>1. next[k] = 0 BY <2>2, <4>4
        <5> QED BY <3>2, <4>2, <5>1
      <4> QED BY <4>1, <4>3, <4>4
    <3>3. ~Before(q, next) BY <3>1, <3>2 DEF Before
    <3> QED BY <2>2, <3>3 DEF next, q
  <2>4. ASSUME NEW k \in 1 .. n, k <= Len(q), path[k] < q[k],
               \A j \in 1 .. (k - 1) : path[j] = q[j]
        PROVE  Before(next, q)
    <3>0. n \in Nat BY <1>0
    <3>1. k \in 1 .. (n + 1) /\ \A j \in 1 .. (k - 1) : j \in 1 .. n BY <3>0
    <3>2. \A j \in 1 .. (k - 1) : next[j] = q[j] BY <2>2, <2>4, <3>1
    <3>3. k \in 1 .. Len(next) /\ next[k] < q[k] BY <2>2, <2>4, <3>1
    <3> QED BY <2>4, <3>2, <3>3 DEF Before
  <2>5. Before(next, q) => ~Before(q, next)
    BY <1>0, <2>2, BeforeAsymmetric DEF Paths
  <2>6. Before(path, q) BY DEF q
  <2> QED BY <2>2, <2>3, <2>4, <2>5, <2>6 DEF Before, next, q
<1>3. CASE ~(r.child_count > 0)
  <2> DEFINE d == Deepest(rest)
  <2>1. /\ d \in 0 .. n
        /\ \A j \in (d + 1) .. n : rest[j] = 0
    BY <1>1, DeepestLevel
  <2>2. next = IF d = 0 THEN <<>> ELSE IncrementLast(SubSeq(path, 1, d))
    BY <1>3 DEF AdvancePath, rest
  <2> HIDE DEF next, d
  <2>3. ~(n < Len(q) /\ \A j \in 1 .. n : path[j] = q[j])
    <3> SUFFICES ASSUME n < Len(q), \A j \in 1 .. n : path[j] = q[j] PROVE FALSE
      OBVIOUS
    <3>1. n + 1 \in 2 .. Len(q) /\ (n + 1) - 1 = n BY <1>0
    <3>2. PICK s \in results : /\ s.index_path = SubSeq(q, 1, n)
                               /\ q[n + 1] < s.child_count
      BY <3>1, Parent
    <3>3. SubSeq(q, 1, n) = SubSeq(path, 1, n) BY <1>0, SamePrefix
    <3>4. SubSeq(path, 1, n) = path BY <1>0, SubSeqFull
    <3>5. s.index_path = r.index_path BY <3>2, <3>3, <3>4
    <3>6. s = r BY <3>5, ResultPaths
    <3>7. q[n + 1] \in Nat
      <4>1. q \in Seq(Nat) BY <1>0
      <4>2. \A k \in 2 .. Len(q) : q[k] \in Nat BY <4>1
      <4> QED BY <3>1, <4>2
    <3> QED BY <1>0, <1>3, <3>2, <3>6, <3>7
  <2>4. PICK k \in 1 .. n : /\ k <= Len(q) /\ path[k] < q[k]
                            /\ \A j \in 1 .. (k - 1) : path[j] = q[j]
    BY <2>3 DEF Before
  <2>5. k \in 2 .. n /\ k \in 2 .. Len(q) BY <1>0, <2>4
  <2>6. rest[k] # 0
    <3>1. PICK s \in results : /\ s.index_path = SubSeq(path, 1, k - 1)
                               /\ rest[k] = s.child_count - path[k] - 1
      BY <1>1, <2>5
    <3>2. PICK t \in results : /\ t.index_path = SubSeq(q, 1, k - 1)
                               /\ q[k] < t.child_count
      BY <2>5, Parent
    <3>3. SubSeq(path, 1, k - 1) = SubSeq(q, 1, k - 1)
      <4>1. n \in Nat /\ Len(q) \in Nat /\ k <= n /\ k <= Len(q) /\ k \in Nat /\ k >= 2
        BY <1>0, <2>5
      <4> HIDE DEF q
      <4>2. k - 1 \in Nat /\ k - 1 <= n /\ k - 1 <= Len(q) BY <4>1
      <4> QED BY <1>0, <2>4, <4>2, SamePrefix
    <3>4. s = t
      <4>1. s.index_path = t.index_path BY <3>1, <3>2, <3>3
      <4> QED BY <4>1, ResultPaths
    <3>5. s.child_count \in Nat /\ path[k] \in Nat /\ q[k] \in Nat
      <4> HIDE DEF q
      <4>1. k \in 1 .. Len(q) BY <1>0, <2>5
      <4> QED BY <1>0, <4>1, ResultPaths
    <3> QED BY <2>4, <3>1, <3>2, <3>4, <3>5
  <2>7. k <= d BY <1>0, <2>1, <2>5, <2>6
  <2>8. d # 0 BY <2>1, <2>5, <2>7
  <2> DEFINE top == SubSeq(path, 1, d)
  <2>9. top \in Seq(Nat) /\ Len(top) = d /\ \A i \in 1 .. d : top[i] = path[i]
    BY <1>0, <2>1, Prefix
  <2>10. next = IncrementLast(top) BY <2>2, <2>8
  <2> HIDE DEF top
  <2>11. d \in 1 .. Len(top) /\ top[d] + 1 \in Nat BY <2>1, <2>8, <2>9
  <2>12. next = [top EXCEPT ![d] = top[d] + 1] BY <2>9, <2>10 DEF IncrementLast
  <2>13. /\ next \in Seq(Nat) /\ Len(next) = d
         /\ \A i \in 1 .. d : next[i] = IF i = d THEN path[i] + 1 ELSE path[i]
    BY <2>9, <2>11, <2>12, ExceptSeq
  <2>14. next # <<>> BY <2>8, <2>13, EmptySeq
  <2>15. /\ next[k] <= q[k] /\ k \in 1 .. Len(next)
         /\ next[k] \in Nat /\ q[k] \in Nat /\ path[k] \in Nat
         /\ \A j \in 1 .. (k - 1) : next[j] = q[j]
    <3> HIDE DEF q
    <3>1. d \in Nat /\ k \in 1 .. d /\ k \in 1 .. Len(q) /\ k \in Nat BY <1>0, <2>1, <2>5, <2>7
    <3>2. q[k] \in Nat /\ path[k] \in Nat BY <1>0, <3>1
    <3>3. \A j \in 1 .. (k - 1) : j \in 1 .. d /\ j # d BY <3>1
    <3>4. \A j \in 1 .. (k - 1) : next[j] = q[j] BY <2>4, <2>13, <3>3
    <3>5. next[k] = path[k] + 1 \/ next[k] = path[k] BY <2>13, <3>1
    <3>6. next[k] <= q[k] /\ next[k] \in Nat BY <2>4, <3>2, <3>5
    <3> QED BY <2>13, <3>1, <3>2, <3>4, <3>6
  <2>16. CASE next[k] < q[k]
    <3>1. Before(next, q) BY <2>4, <2>15, <2>16 DEF Before
    <3> QED BY <1>0, <2>13, <2>14, <3>1, BeforeAsymmetric DEF Paths, next
  <2>17. CASE next[k] = q[k]
    <3>1. k = d
      <4>1. path[k] < next[k] BY <2>4, <2>17
      <4>2. k \in 1 .. d /\ path[k] \in Nat BY <2>13, <2>15
      <4> QED BY <2>13, <4>1, <4>2
    <3>2. \A j \in 1 .. d : next[j] = q[j] /\ next[j] \in Nat
      <4> HIDE DEF q
      <4>1. d \in Nat /\ \A j \in 1 .. d : j = d \/ j \in 1 .. (d - 1) BY <2>1
      <4>2. \A j \in 1 .. d : next[j] = q[j] BY <2>15, <2>17, <3>1, <4>1
      <4>3. \A j \in 1 .. d : next[j] \in Nat BY <2>13
      <4> QED BY <4>2, <4>3
    <3>3. d <= Len(q) BY <2>4, <3>1
    <3>4. ~(Len(q) < Len(next)) BY <1>0, <2>1, <2>13, <3>3
    <3>5. ASSUME NEW l \in 1 .. Len(q), l <= Len(next), q[l] < next[l] PROVE FALSE
      <4>1. l \in 1 .. d BY <1>0, <2>1, <2>13, <3>5
      <4> QED BY <3>2, <3>5, <4>1
    <3>6. ~Before(q, next) BY <3>4, <3>5 DEF Before
    <3> QED BY <2>14, <3>6 DEF next
  <2> QED BY <2>15, <2>16, <2>17
<1> QED BY <1>2, <1>3

------------------------------------------------------------------------------
(* Positions can be arranged: by their size, or by any other strict total  *)
(* order, given as a set of pairs.                                         *)

StrictOrder(rel, S) ==
    /\ \A a \in S : <<a, a>> \notin rel
    /\ \A a, b \in S : a # b => <<a, b>> \in rel \/ <<b, a>> \in rel
    /\ \A a, b, c \in S : <<a, b>> \in rel /\ <<b, c>> \in rel => <<a, c>> \in rel

\* Everything has its place: the one after all that precedes it.
LEMMA Arrangement ==
    ASSUME NEW S, IsFiniteSet(S), NEW rel, StrictOrder(rel, S)
    PROVE  /\ Cardinality(S) \in Nat
           /\ \E order \in [1 .. Cardinality(S) -> S] :
                 /\ \A a \in S : \E k \in 1 .. Cardinality(S) : order[k] = a
                 /\ \A j, k \in 1 .. Cardinality(S) : j < k => <<order[j], order[k]>> \in rel
<1> DEFINE n == Cardinality(S)
           Preceding(a) == {b \in S : <<b, a>> \in rel}
           place == [a \in S |-> Cardinality(Preceding(a)) + 1]
<1>1. n \in Nat BY FS_CardinalityType
<1>2. ASSUME NEW a \in S
      PROVE  /\ IsFiniteSet(Preceding(a)) /\ Cardinality(Preceding(a)) \in Nat
             /\ Cardinality(Preceding(a)) + 1 \in 1 .. n
  <2>1. Preceding(a) \in SUBSET S /\ a \notin Preceding(a) BY DEF StrictOrder
  <2> DEFINE T == Preceding(a)
  <2> HIDE DEF T
  <2>2. T \in SUBSET S /\ T # S BY <2>1 DEF T
  <2>3. IsFiniteSet(T) /\ Cardinality(T) <= n /\ (n = Cardinality(T) => S = T) BY <2>2, FS_Subset
  <2>4. Cardinality(T) \in Nat BY <2>3, FS_CardinalityType
  <2>5. Cardinality(T) # n BY <2>2, <2>3
  <2>6. Cardinality(T) + 1 \in 1 .. n
    <3> HIDE DEF n
    <3> QED BY <1>1, <2>3, <2>4, <2>5
  <2> QED BY <2>3, <2>4, <2>6 DEF T
<1>3. ASSUME NEW a \in S, NEW b \in S, <<a, b>> \in rel PROVE place[a] < place[b]
  <2> DEFINE A == Preceding(a)
             B == Preceding(b)
  <2>1. A \in SUBSET B /\ a \in B /\ a \notin A BY <1>3 DEF StrictOrder
  <2>2. /\ IsFiniteSet(A) /\ IsFiniteSet(B) /\ Cardinality(A) \in Nat /\ Cardinality(B) \in Nat
        /\ place[a] = Cardinality(A) + 1 /\ place[b] = Cardinality(B) + 1
    BY <1>2
  <2> HIDE DEF A, B, place
  <2>3. Cardinality(A) <= Cardinality(B) /\ (Cardinality(B) = Cardinality(A) => B = A)
    BY <2>1, <2>2, FS_Subset
  <2>4. Cardinality(A) # Cardinality(B) BY <2>1, <2>3
  <2> QED BY <2>2, <2>3, <2>4
<1>4. place \in [S -> 1 .. n]
  <2>1. \A a \in S : Cardinality(Preceding(a)) + 1 \in 1 .. n BY <1>2
  <2> HIDE DEF n
  <2> QED BY <2>1
<1> HIDE DEF place
<1>5. ASSUME NEW a \in S, NEW b \in S, place[a] = place[b] PROVE a = b
  <2>1. place[a] \in 1 .. n /\ place[b] \in 1 .. n BY <1>4
  <2>2. ~(place[a] < place[b]) /\ ~(place[b] < place[a])
    <3> HIDE DEF n
    <3>1. place[a] \in Nat /\ place[b] \in Nat BY <1>1, <2>1
    <3> QED BY <1>5, <3>1
  <2> QED BY <1>3, <2>2 DEF StrictOrder
<1>6. place \in Injection(S, 1 .. n) BY <1>4, <1>5 DEF Injection, IsInjective
<1>7. IsFiniteSet(1 .. n) /\ Cardinality(1 .. n) = n
  <2> HIDE DEF n
  <2>1. 1 \in Int /\ n \in Int /\ (IF 1 > n THEN 0 ELSE n - 1 + 1) = n BY <1>1
  <2> QED BY <2>1, FS_Interval
<1>8. \A k \in 1 .. n : \E a \in S : place[a] = k
  <2>1. place \in Surjection(S, 1 .. n) BY <1>6, <1>7, FS_Injection
  <2> QED BY <2>1 DEF Surjection
<1> DEFINE order == [k \in 1 .. n |-> CHOOSE a \in S : place[a] = k]
<1> HIDE DEF n
<1>9. \A k \in 1 .. n : order[k] \in S /\ place[order[k]] = k BY <1>8
<1>10. order \in [1 .. n -> S] BY <1>9
<1> HIDE DEF order
<1>11. \A a \in S : place[a] \in 1 .. n /\ order[place[a]] = a BY <1>4, <1>5, <1>9
<1>12. ASSUME NEW j \in 1 .. n, NEW k \in 1 .. n, j < k PROVE <<order[j], order[k]>> \in rel
  <2>1. /\ order[j] \in S /\ order[k] \in S /\ place[order[j]] = j /\ place[order[k]] = k BY <1>9
  <2>2. j \in Nat /\ k \in Nat BY <1>1
  <2>3. ~(k < j) /\ j # k BY <1>12, <2>2
  <2>4. order[j] # order[k] /\ <<order[k], order[j]>> \notin rel BY <1>3, <2>1, <2>3
  <2> QED BY <2>1, <2>4 DEF StrictOrder
<1> QED BY <1>1, <1>10, <1>11, <1>12 DEF n

\* The positions in ascending order, as read_children_specs meets them, exist:
\* InOrder chooses them.
LEMMA InOrderOrders ==
    ASSUME NEW n \in Nat, NEW S \in SUBSET (1 .. n)
    PROVE  /\ Cardinality(S) \in Nat
           /\ InOrder(S) \in [1 .. Cardinality(S) -> S]
           /\ \A m \in S : \E k \in 1 .. Cardinality(S) : InOrder(S)[k] = m
           /\ \A j, k \in 1 .. Cardinality(S) : j < k => InOrder(S)[j] < InOrder(S)[k]
<1> DEFINE rel == {pair \in S \X S : pair[1] < pair[2]}
<1>1. \A a \in S : a \in Nat OBVIOUS
<1>2. \A a, b \in S : <<a, b>> \in rel <=> a < b OBVIOUS
<1> HIDE DEF rel
<1>3. StrictOrder(rel, S)
  <2>1. /\ \A a, b \in Nat : ~(a < a) /\ (a # b => a < b \/ b < a)
        /\ \A a, b, c \in Nat : a < b /\ b < c => a < c
    OBVIOUS
  <2> QED BY <1>1, <1>2, <2>1 DEF StrictOrder
<1>4. IsFiniteSet(S)
  <2>1. 1 \in Int /\ n \in Int OBVIOUS
  <2>2. IsFiniteSet(1 .. n) BY <2>1, FS_Interval
  <2> QED BY <2>2, FS_Subset
<1>5. /\ Cardinality(S) \in Nat
      /\ \E order \in [1 .. Cardinality(S) -> S] :
            /\ \A a \in S : \E k \in 1 .. Cardinality(S) : order[k] = a
            /\ \A j, k \in 1 .. Cardinality(S) : j < k => <<order[j], order[k]>> \in rel
  BY <1>3, <1>4, Arrangement
<1>6. \E order \in [1 .. Cardinality(S) -> S] :
         /\ \A m \in S : \E k \in DOMAIN order : order[k] = m
         /\ \A j, k \in DOMAIN order : j < k => order[j] < order[k]
  <2>1. PICK order \in [1 .. Cardinality(S) -> S] :
           /\ \A a \in S : \E k \in 1 .. Cardinality(S) : order[k] = a
           /\ \A j, k \in 1 .. Cardinality(S) : j < k => <<order[j], order[k]>> \in rel
    BY <1>5
  <2>2. DOMAIN order = 1 .. Cardinality(S) /\ \A k \in DOMAIN order : order[k] \in S OBVIOUS
  <2> QED BY <1>2, <2>1, <2>2
<1> DEFINE o == InOrder(S)
<1>7. /\ o \in [1 .. Cardinality(S) -> S]
      /\ \A m \in S : \E k \in DOMAIN o : o[k] = m
      /\ \A j, k \in DOMAIN o : j < k => o[j] < o[k]
  BY <1>6 DEF InOrder
<1> HIDE DEF o
<1>8. DOMAIN o = 1 .. Cardinality(S) BY <1>7
<1> QED BY <1>5, <1>7, <1>8 DEF o

\* The c items of f ascend through S.
Ascends(f, c, S) ==
    /\ f \in [1 .. c -> S]
    /\ \A m \in S : \E k \in 1 .. c : f[k] = m
    /\ \A j, k \in 1 .. c : j < k => f[j] < f[k]

\* What ascends repeats nothing.
LEMMA AscendingInjective ==
    ASSUME NEW S \in SUBSET Nat, NEW c \in Nat, NEW f, Ascends(f, c, S)
    PROVE  \A j, k \in 1 .. c : f[j] = f[k] => j = k
<1>1. \A k \in 1 .. c : f[k] \in Nat BY DEF Ascends
<1>2. ASSUME NEW j \in 1 .. c, NEW k \in 1 .. c, f[j] = f[k] PROVE j = k
  <2>1. ~(f[j] < f[k]) /\ ~(f[k] < f[j]) BY <1>1, <1>2
  <2>2. ~(j < k) /\ ~(k < j) BY <2>1 DEF Ascends
  <2> QED BY <2>2
<1> QED BY <1>2

\* A sequence that ascends through S has as many items as S.
LEMMA AscendingCount ==
    ASSUME NEW S \in SUBSET Nat, NEW c \in Nat, NEW f, Ascends(f, c, S)
    PROVE  c = Cardinality(S)
<1>1. \A j, k \in 1 .. c : f[j] = f[k] => j = k BY AscendingInjective
<1>2. f \in Injection(1 .. c, S) BY <1>1 DEF Injection, IsInjective, Ascends
<1>3. f \in Surjection(1 .. c, S) BY DEF Surjection, Ascends
<1>4. f \in Bijection(1 .. c, S) BY <1>2, <1>3 DEF Bijection
<1>5. IsFiniteSet(1 .. c) /\ Cardinality(1 .. c) = c
  <2>1. 1 \in Int /\ c \in Int /\ (IF 1 > c THEN 0 ELSE c - 1 + 1) = c OBVIOUS
  <2> QED BY <2>1, FS_Interval
<1> QED BY <1>4, <1>5, FS_Bijection DEF ExistsBijection

\* Ascending through the same positions is being the same: at a first
\* difference each would be behind the other.
LEMMA OneAscent ==
    ASSUME NEW S \in SUBSET Nat, NEW c \in Nat, NEW f, NEW g, Ascends(f, c, S), Ascends(g, c, S)
    PROVE  f = g
<1>1. \A j, k \in 1 .. c : f[j] = f[k] => j = k BY AscendingInjective
<1>2. \A j, k \in 1 .. c : g[j] = g[k] => j = k BY AscendingInjective
<1> DEFINE D == {k \in 1 .. c : f[k] # g[k]}
<1>3. ASSUME D # {} PROVE FALSE
  <2>1. D \in SUBSET Nat OBVIOUS
  <2>2. PICK k \in D : \A j \in D : k <= j
    <3> HIDE DEF D
    <3> QED BY <1>3, <2>1, LeastNat
  <2>3. /\ k \in 1 .. c /\ f[k] # g[k] /\ f[k] \in S /\ g[k] \in S
        /\ \A j \in 1 .. c : j < k => f[j] = g[j]
    <3>1. k \in 1 .. c /\ f[k] # g[k] OBVIOUS
    <3>2. \A j \in 1 .. c : j < k => ~(k <= j) BY <3>1
    <3> QED BY <2>2, <3>1, <3>2 DEF Ascends
  <2> HIDE DEF D
  <2>4. PICK i \in 1 .. c : g[i] = f[k] BY <2>3 DEF Ascends
  <2>5. PICK j \in 1 .. c : f[j] = g[k] BY <2>3 DEF Ascends
  <2>6. ~(i < k) /\ i # k /\ ~(j < k) /\ j # k BY <1>1, <1>2, <2>3, <2>4, <2>5
  <2>7. k < i /\ k < j BY <2>3, <2>6
  <2>8. g[k] < f[k] /\ f[k] < g[k] BY <2>3, <2>4, <2>5, <2>7 DEF Ascends
  <2>9. f[k] \in Nat /\ g[k] \in Nat BY <2>3
  <2> QED BY <2>8, <2>9
<1> QED BY <1>3 DEF Ascends

LEMMA OneOrder ==
    ASSUME NEW n \in Nat, NEW S \in SUBSET (1 .. n), NEW c \in Nat, NEW f, Ascends(f, c, S)
    PROVE  c = Cardinality(S) /\ InOrder(S) = f
<1>1. S \in SUBSET Nat OBVIOUS
<1>2. c = Cardinality(S) BY <1>1, AscendingCount
<1>3. Ascends(InOrder(S), c, S) BY <1>2, InOrderOrders DEF Ascends
<1> QED BY <1>1, <1>2, <1>3, OneAscent

\* Selecting everything changes nothing.
LEMMA AllItems ==
    ASSUME NEW T, NEW seq \in Seq(T)
    PROVE  ItemsAt(seq, DOMAIN seq) = seq
<1> DEFINE c == Len(seq)
           same == [k \in 1 .. c |-> k]
<1>1. c \in Nat /\ DOMAIN seq = 1 .. c /\ seq \in [1 .. c -> T] BY LenProperties
<1> HIDE DEF c
<1>2. same \in [1 .. c -> 1 .. c] /\ \A k \in 1 .. c : same[k] = k OBVIOUS
<1>3. \A m \in 1 .. c : \E k \in 1 .. c : same[k] = m BY <1>2
<1>4. \A j, k \in 1 .. c : j < k => same[j] < same[k] BY <1>2
<1> HIDE DEF same
<1>5. c = Cardinality(1 .. c) /\ InOrder(1 .. c) = same
  <2>1. Ascends(same, c, 1 .. c) BY <1>2, <1>3, <1>4 DEF Ascends
  <2> QED BY <1>1, <2>1, OneOrder
<1>6. ItemsAt(seq, 1 .. c) = [k \in 1 .. c |-> seq[same[k]]] BY <1>5 DEF ItemsAt
<1> QED BY <1>1, <1>2, <1>6

\* What is selected is from the sequence.
LEMMA SelectedItems ==
    ASSUME NEW T, NEW seq \in Seq(T), NEW S \in SUBSET DOMAIN seq
    PROVE  /\ ItemsAt(seq, S) \in Seq(T)
           /\ \A k \in DOMAIN ItemsAt(seq, S) : \E n \in S : ItemsAt(seq, S)[k] = seq[n]
<1> DEFINE c == Cardinality(S)
           order == InOrder(S)
           items == ItemsAt(seq, S)
<1>1. Len(seq) \in Nat /\ DOMAIN seq = 1 .. Len(seq) /\ seq \in [1 .. Len(seq) -> T] BY LenProperties
<1>2. S \in SUBSET (1 .. Len(seq)) BY <1>1
<1>3. c \in Nat /\ order \in [1 .. c -> S] BY <1>1, <1>2, InOrderOrders
<1>4. items = [k \in 1 .. c |-> seq[order[k]]] BY DEF ItemsAt
<1> HIDE DEF c, order, items
<1>5. DOMAIN items = 1 .. c /\ \A k \in 1 .. c : order[k] \in S /\ items[k] = seq[order[k]] BY <1>3, <1>4
<1>6. items \in [1 .. c -> T] BY <1>1, <1>2, <1>4, <1>5
<1>7. items \in Seq(T) BY <1>3, <1>6, SeqDef
<1> QED BY <1>5, <1>7 DEF items

\* A position behind all others comes last.
LEMMA LastPosition ==
    ASSUME NEW n \in Nat, NEW S \in SUBSET (1 .. n)
    PROVE  /\ Cardinality(S \cup {n + 1}) = Cardinality(S) + 1
           /\ \A k \in 1 .. Cardinality(S) : InOrder(S \cup {n + 1})[k] = InOrder(S)[k]
           /\ InOrder(S \cup {n + 1})[Cardinality(S) + 1] = n + 1
<1> DEFINE c == Cardinality(S)
           o == InOrder(S)
           T == S \cup {n + 1}
           more == [k \in 1 .. (c + 1) |-> IF k = c + 1 THEN n + 1 ELSE o[k]]
<1>1. c \in Nat /\ Ascends(o, c, S) BY InOrderOrders DEF Ascends
<1> HIDE DEF c, o
<1>2. /\ \A k \in 1 .. c : o[k] \in S /\ o[k] \in 1 .. n
      /\ \A m \in S : \E k \in 1 .. c : o[k] = m
      /\ \A j, k \in 1 .. c : j < k => o[j] < o[k]
  BY <1>1 DEF Ascends
<1>3. \A k \in 1 .. (c + 1) : k = c + 1 \/ (k \in 1 .. c /\ k # c + 1) BY <1>1
<1>4. \A k \in 1 .. c : k \in 1 .. (c + 1) /\ k # c + 1 BY <1>1
<1>5. c + 1 \in 1 .. (c + 1) BY <1>1
<1>6. (\A k \in 1 .. c : more[k] = o[k]) /\ more[c + 1] = n + 1 BY <1>4, <1>5
<1>7. more \in [1 .. (c + 1) -> T] BY <1>2, <1>3
<1> HIDE DEF more
<1>8. \A m \in T : \E k \in 1 .. (c + 1) : more[k] = m BY <1>2, <1>4, <1>5, <1>6
<1>9. ASSUME NEW j \in 1 .. (c + 1), NEW k \in 1 .. (c + 1), j < k PROVE more[j] < more[k]
  <2>1. j \in 1 .. c BY <1>1, <1>9
  <2>2. CASE k = c + 1
    <3>1. o[j] < n + 1 BY <1>2, <2>1
    <3> QED BY <1>6, <2>1, <2>2, <3>1
  <2>3. CASE k \in 1 .. c BY <1>2, <1>6, <1>9, <2>1, <2>3
  <2> QED BY <1>3, <2>2, <2>3
<1>10. c + 1 = Cardinality(T) /\ InOrder(T) = more
  <2>1. Ascends(more, c + 1, T) BY <1>7, <1>8, <1>9 DEF Ascends
  <2>2. n + 1 \in Nat /\ c + 1 \in Nat /\ T \in SUBSET (1 .. (n + 1)) BY <1>1
  <2> HIDE DEF T
  <2> QED BY <2>1, <2>2, OneOrder
<1> QED BY <1>6, <1>10 DEF c, o

\* Selecting from what was selected.
LEMMA PositionsOfPositions ==
    ASSUME NEW n \in Nat, NEW S \in SUBSET (1 .. n),
           NEW K \in SUBSET (1 .. Cardinality(S)), NEW T \in SUBSET (1 .. n),
           \A k \in 1 .. Cardinality(S) : InOrder(S)[k] \in T <=> k \in K,
           T \subseteq S
    PROVE  /\ Cardinality(T) = Cardinality(K)
           /\ \A k \in 1 .. Cardinality(K) : /\ InOrder(K)[k] \in K
                                             /\ InOrder(T)[k] = InOrder(S)[InOrder(K)[k]]
<1> DEFINE c == Cardinality(K)
           s == InOrder(S)
           o == InOrder(K)
           through == [k \in 1 .. c |-> s[o[k]]]
<1>1. Cardinality(S) \in Nat /\ Ascends(s, Cardinality(S), S) BY InOrderOrders DEF Ascends
<1>2. c \in Nat /\ Ascends(o, c, K) BY <1>1, InOrderOrders DEF Ascends
<1> HIDE DEF c, s, o
<1>3. /\ \A k \in 1 .. c : o[k] \in K /\ o[k] \in 1 .. Cardinality(S)
      /\ \A m \in K : \E k \in 1 .. c : o[k] = m
      /\ \A j, k \in 1 .. c : j < k => o[j] < o[k]
  BY <1>2 DEF Ascends
<1>4. /\ \A m \in S : \E k \in 1 .. Cardinality(S) : s[k] = m
      /\ \A j, k \in 1 .. Cardinality(S) : j < k => s[j] < s[k]
  BY <1>1 DEF Ascends
<1>5. \A k \in 1 .. Cardinality(S) : s[k] \in T <=> k \in K BY DEF s
<1>6. \A k \in 1 .. c : through[k] = s[o[k]] /\ through[k] \in T BY <1>3, <1>5
<1>7. through \in [1 .. c -> T] BY <1>6
<1> HIDE DEF through
<1>8. \A m \in T : \E k \in 1 .. c : through[k] = m
  <2> SUFFICES ASSUME NEW m \in T PROVE \E k \in 1 .. c : through[k] = m OBVIOUS
  <2>1. PICK i \in 1 .. Cardinality(S) : s[i] = m BY <1>4
  <2>2. i \in K BY <1>5, <2>1
  <2> QED BY <1>3, <1>6, <2>1, <2>2
<1>9. \A j, k \in 1 .. c : j < k => through[j] < through[k] BY <1>3, <1>4, <1>6
<1>10. c = Cardinality(T) /\ InOrder(T) = through
  <2>1. Ascends(through, c, T) BY <1>7, <1>8, <1>9 DEF Ascends
  <2> QED BY <1>2, <2>1, OneOrder
<1> QED BY <1>3, <1>6, <1>10 DEF c, s, o

==============================================================================

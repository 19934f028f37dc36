--------------------------- MODULE SerialWalkProofs --------------------------
(***************************************************************************)
(* The serial walk keeps the promise of WalkSpec on every file tree, with  *)
(* any faults, links and depth limits.                                     *)
(***************************************************************************)
EXTENDS SerialWalk, ReadDirProofs

------------------------------------------------------------------------------
(* The specs pushed for a listing *)

\* order numbers the c entries the walk goes into, last first, as ChildSpecs
\* has them.
SelectedBy(list, c, order) ==
    /\ Len(ReadChildren(list)) = c
    /\ ChildSpecs(list) \in [1 .. c -> {SerialSpec(list[n]) : n \in 1 .. Len(list)}]
    /\ \A i \in 1 .. c : /\ ChildSpecs(list)[i] = SerialSpec(list[order[i]])
                         /\ ReadsChildren(list[order[i]])
    /\ \A i, j \in 1 .. c : i < j => order[j] < order[i]
    /\ \A n \in 1 .. Len(list) : ReadsChildren(list[n]) => \E i \in 1 .. c : order[i] = n

\* The entries selected from a listing have such a numbering.
LEMMA Selected ==
    ASSUME NEW S, NEW list \in Seq(S)
    PROVE  \E c \in Nat : \E order \in [1 .. c -> 1 .. Len(list)] : SelectedBy(list, c, order)
<1> DEFINE P == {n \in DOMAIN list : ReadsChildren(list[n])}
           c == Cardinality(P)
           up == InOrder(P)
           down == [i \in 1 .. c |-> up[(c - i) + 1]]
<1>1. DOMAIN list = 1 .. Len(list) /\ Len(list) \in Nat BY LenProperties
<1>2. P \in SUBSET (1 .. Len(list)) BY <1>1
<1>3. /\ c \in Nat
      /\ up \in [1 .. c -> P]
      /\ \A m \in P : \E k \in 1 .. c : up[k] = m
      /\ \A j, k \in 1 .. c : j < k => up[j] < up[k]
  <2> HIDE DEF P
  <2> QED BY <1>1, <1>2, InOrderOrders
<1>4. ReadChildren(list) = [k \in 1 .. c |-> list[up[k]]] BY DEF ReadChildren, ItemsAt
<1> HIDE DEF c, up
<1>5. Len(ReadChildren(list)) = c BY <1>3, <1>4
<1> DEFINE forward == [n \in 1 .. c |-> SerialSpec(ReadChildren(list)[n])]
<1>6. Len(forward) = c BY <1>3
<1>7. ChildSpecs(list) = [i \in 1 .. c |-> forward[(c - i) + 1]]
  BY <1>5, <1>6 DEF ChildSpecs, Reverse
<1>8. ASSUME NEW i \in 1 .. c
      PROVE  /\ (c - i) + 1 \in 1 .. c
             /\ up[(c - i) + 1] \in P
             /\ forward[(c - i) + 1] = SerialSpec(list[up[(c - i) + 1]])
  <2>1. (c - i) + 1 \in 1 .. c BY <1>3
  <2> QED BY <1>3, <1>4, <2>1
<1> HIDE DEF forward
<1>9. down \in [1 .. c -> 1 .. Len(list)] BY <1>1, <1>8
<1>10. \A i \in 1 .. c : /\ ChildSpecs(list)[i] = SerialSpec(list[down[i]])
                         /\ ReadsChildren(list[down[i]])
  BY <1>7, <1>8
<1>11. ASSUME NEW i \in 1 .. c, NEW j \in 1 .. c, i < j PROVE down[j] < down[i]
  <2>1. (c - j) + 1 < (c - i) + 1 BY <1>3, <1>11
  <2> QED BY <1>3, <1>8, <2>1
<1>12. ASSUME NEW n \in 1 .. Len(list), ReadsChildren(list[n]) PROVE \E i \in 1 .. c : down[i] = n
  <2>1. n \in P BY <1>1, <1>12
  <2>2. PICK k \in 1 .. c : up[k] = n BY <1>3, <2>1
  <2>3. (c - k) + 1 \in 1 .. c /\ (c - ((c - k) + 1)) + 1 = k BY <1>3
  <2> QED BY <2>2, <2>3
<1>13. ChildSpecs(list) \in [1 .. c -> {SerialSpec(list[n]) : n \in 1 .. Len(list)}]
  BY <1>1, <1>7, <1>8
<1> HIDE DEF down
<1>14. SelectedBy(list, c, down) BY <1>5, <1>10, <1>11, <1>12, <1>13 DEF SelectedBy
<1> QED BY <1>3, <1>9, <1>14

------------------------------------------------------------------------------
(* The two stacks *)

(***************************************************************************)
(* The directories ahead in the listings on the stack, each by the level   *)
(* of its listing and the number of entries after it there: neither        *)
(* changes as the listing is consumed from its front.                      *)
(***************************************************************************)
EntryAt(lists, level, rest) == lists[level][Len(lists[level]) - rest]

Ahead(lists, level, rest) ==
    /\ level \in DOMAIN lists
    /\ rest \in 0 .. (Len(lists[level]) - 1)
    /\ ReadsChildren(EntryAt(lists, level, rest))

(***************************************************************************)
(* The spec stack holds one spec for each of them and no other, in the     *)
(* order of levels and, within a level, of entries left: StacksAgree, said *)
(* without flattening the listings.                                        *)
(***************************************************************************)
AlignedBy(lists, specs, level, rest) ==
    /\ \A i \in DOMAIN specs : /\ Ahead(lists, level[i], rest[i])
                               /\ specs[i] = SerialSpec(EntryAt(lists, level[i], rest[i]))
    /\ \A i, j \in DOMAIN specs :
          i < j => level[i] < level[j] \/ (level[i] = level[j] /\ rest[i] < rest[j])
    /\ \A n, m \in Nat :
          Ahead(lists, n, m) => \E i \in DOMAIN specs : level[i] = n /\ rest[i] = m

Aligned(lists, specs) ==
    \E level, rest \in [DOMAIN specs -> Nat] : AlignedBy(lists, specs, level, rest)

\* At a directory the spec on top is that of this directory.
LEMMA TopIsNext ==
    ASSUME NEW S, NEW lists \in Seq(Seq(S)), lists # <<>>,
           NEW U, NEW specs \in Seq(U), Aligned(lists, specs),
           lists[Len(lists)] # <<>>, ReadsChildren(lists[Len(lists)][1])
    PROVE  specs # <<>> /\ specs[Len(specs)] = SerialSpec(lists[Len(lists)][1])
<1> DEFINE N == Len(lists)
           L == Len(lists[N])
           K == Len(specs)
<1>1. N \in Nat \ {0} /\ DOMAIN lists = 1 .. N BY EmptySeq, LenProperties
<1>2. N \in DOMAIN lists /\ \A n \in DOMAIN lists : lists[n] \in Seq(S) BY <1>1
<1>3. L \in Nat \ {0} BY <1>2, EmptySeq
<1>4. K \in Nat /\ DOMAIN specs = 1 .. K BY LenProperties
<1>5. \A n \in DOMAIN lists : n <= N /\ n \in Nat BY <1>1
<1> HIDE DEF N, L, K
<1>6. PICK level \in [DOMAIN specs -> Nat], rest \in [DOMAIN specs -> Nat] :
         AlignedBy(lists, specs, level, rest)
  BY DEF Aligned
<1>7. Ahead(lists, N, L - 1) /\ EntryAt(lists, N, L - 1) = lists[N][1]
  <2>1. L - (L - 1) = 1 /\ L - 1 \in 0 .. (L - 1) BY <1>3
  <2>2. EntryAt(lists, N, L - 1) = lists[N][1] BY <2>1 DEF EntryAt, L
  <2> QED BY <1>2, <2>1, <2>2 DEF Ahead, N, L
<1>8. PICK i \in DOMAIN specs : level[i] = N /\ rest[i] = L - 1
  <2>1. N \in Nat /\ L - 1 \in Nat BY <1>1, <1>3
  <2> QED BY <1>6, <1>7, <2>1 DEF AlignedBy
<1>9. i = K
  <2>1. SUFFICES ASSUME i # K PROVE FALSE OBVIOUS
  <2>2. i < K /\ K \in DOMAIN specs BY <1>4, <2>1
  <2>3. /\ Ahead(lists, level[K], rest[K])
        /\ level[i] < level[K] \/ (level[i] = level[K] /\ rest[i] < rest[K])
    BY <1>6, <2>2 DEF AlignedBy
  <2>4. level[K] <= N /\ level[K] \in Nat BY <1>5, <2>3 DEF Ahead
  <2>5. level[K] = N /\ L - 1 < rest[K] BY <1>1, <1>8, <2>3, <2>4
  <2>6. rest[K] \in 0 .. (L - 1) BY <2>3, <2>5 DEF Ahead, L
  <2> QED BY <1>3, <2>5, <2>6
<1>10. specs # <<>> BY <1>4, <1>9
<1>11. specs[K] = SerialSpec(lists[N][1]) BY <1>6, <1>7, <1>8, <1>9 DEF AlignedBy
<1> QED BY <1>10, <1>11 DEF K, N

\* Changing the listings in a way that leaves the same directories ahead.
LEMMA SameAhead ==
    ASSUME NEW lists, NEW specs, Aligned(lists, specs), NEW next,
           \A n, m \in Nat : Ahead(next, n, m) <=> Ahead(lists, n, m),
           \A n, m \in Nat : Ahead(lists, n, m) => EntryAt(next, n, m) = EntryAt(lists, n, m)
    PROVE  Aligned(next, specs)
<1>1. PICK level \in [DOMAIN specs -> Nat], rest \in [DOMAIN specs -> Nat] :
         AlignedBy(lists, specs, level, rest)
  BY DEF Aligned
<1>2. \A i \in DOMAIN specs : level[i] \in Nat /\ rest[i] \in Nat OBVIOUS
<1>3. AlignedBy(next, specs, level, rest) BY <1>1, <1>2 DEF AlignedBy
<1> QED BY <1>3 DEF Aligned

\* What is ahead once the top listing is used up and popped.
LEMMA PopAhead ==
    ASSUME NEW S, NEW lists \in Seq(Seq(S)), lists # <<>>, lists[Len(lists)] = <<>>,
           NEW n \in Nat, NEW m \in Nat
    PROVE  LET next == SubSeq(lists, 1, Len(lists) - 1)
           IN  /\ next \in Seq(Seq(S))
               /\ \A k \in DOMAIN next : k \in DOMAIN lists /\ next[k] = lists[k]
               /\ Ahead(next, n, m) <=> Ahead(lists, n, m)
               /\ Ahead(lists, n, m) => EntryAt(next, n, m) = EntryAt(lists, n, m)
<1> DEFINE N == Len(lists)
           next == SubSeq(lists, 1, N - 1)
<1>1. N \in Nat \ {0} /\ DOMAIN lists = 1 .. N BY EmptySeq, LenProperties
<1>2. \A k \in 1 .. (N - 1) : k \in 1 .. N /\ 1 + k - 1 = k BY <1>1
<1>3. \A k \in 1 .. (N - 1) : lists[k] \in Seq(S) BY <1>1, <1>2
<1>4. N - 1 \in Int /\ (N - 1) - 1 + 1 = N - 1 /\ (~(1 <= N - 1) => N - 1 = 0) BY <1>1
<1>5. /\ next \in Seq(Seq(S))
      /\ Len(next) = IF 1 <= N - 1 THEN (N - 1) - 1 + 1 ELSE 0
      /\ \A k \in 1 .. ((N - 1) - 1 + 1) : next[k] = lists[1 + k - 1]
  BY <1>3, <1>4, SubSeqProperties
<1> HIDE DEF N, next
<1>6. Len(next) = N - 1 /\ DOMAIN next = 1 .. (N - 1) BY <1>4, <1>5, LenProperties
<1>7. \A k \in 1 .. (N - 1) : next[k] = lists[k] BY <1>2, <1>4, <1>5
<1>8. \A k \in DOMAIN next : k \in DOMAIN lists /\ next[k] = lists[k] BY <1>1, <1>2, <1>6, <1>7
<1>9. n \in DOMAIN lists => n \in DOMAIN next \/ n = N BY <1>1, <1>6
<1>10. ~Ahead(lists, N, m)
  <2>1. Len(lists[N]) = 0 BY DEF N
  <2>2. 0 .. (0 - 1) = {} OBVIOUS
  <2> QED BY <2>1, <2>2 DEF Ahead
<1>11. n \in DOMAIN next => EntryAt(next, n, m) = EntryAt(lists, n, m) BY <1>8 DEF EntryAt
<1>12. Ahead(next, n, m) <=> Ahead(lists, n, m)
  BY <1>8, <1>9, <1>10, <1>11 DEF Ahead
<1>13. Ahead(lists, n, m) => EntryAt(next, n, m) = EntryAt(lists, n, m)
  BY <1>9, <1>10, <1>11 DEF Ahead
<1> QED BY <1>5, <1>8, <1>12, <1>13 DEF next, N

\* The first entry of the top listing is consumed.
Consume(lists) == [lists EXCEPT ![Len(lists)] = Tail(lists[Len(lists)])]

\* What is ahead then: all that was, but for this entry.
LEMMA ConsumeAhead ==
    ASSUME NEW S, NEW lists \in Seq(Seq(S)), lists # <<>>, lists[Len(lists)] # <<>>,
           NEW n \in Nat, NEW m \in Nat
    PROVE  /\ Consume(lists) \in Seq(Seq(S))
           /\ DOMAIN Consume(lists) = DOMAIN lists
           /\ \A k \in DOMAIN lists : \A j \in DOMAIN Consume(lists)[k] :
                 \E l \in DOMAIN lists[k] : Consume(lists)[k][j] = lists[k][l]
           /\ Ahead(Consume(lists), n, m) <=>
                 /\ Ahead(lists, n, m)
                 /\ ~(n = Len(lists) /\ m = Len(lists[Len(lists)]) - 1)
           /\ Ahead(Consume(lists), n, m) =>
                 EntryAt(Consume(lists), n, m) = EntryAt(lists, n, m)
<1> DEFINE N == Len(lists)
           top == lists[N]
           L == Len(top)
           next == [lists EXCEPT ![N] = Tail(top)]
<1>1. N \in Nat \ {0} /\ DOMAIN lists = 1 .. N BY EmptySeq, LenProperties
<1>2. N \in DOMAIN lists /\ \A k \in DOMAIN lists : lists[k] \in Seq(S) BY <1>1
<1>3. top \in Seq(S) /\ top # <<>> /\ L \in Nat \ {0} /\ DOMAIN top = 1 .. L
  BY <1>2, EmptySeq, LenProperties
<1>4. Tail(top) \in Seq(S) /\ Len(Tail(top)) = L - 1 /\ \A k \in 1 .. (L - 1) : Tail(top)[k] = top[k + 1]
  BY <1>3, HeadTailProperties
<1>5. DOMAIN Tail(top) = 1 .. (L - 1) BY <1>4, LenProperties
<1>6. next \in Seq(Seq(S)) BY <1>1, <1>2, <1>4, ExceptSeq
<1>7. DOMAIN next = DOMAIN lists OBVIOUS
<1>8. next[N] = Tail(top) /\ \A k \in DOMAIN lists : k # N => next[k] = lists[k] BY <1>2
<1> HIDE DEF N, L, next, top
<1>9. ASSUME NEW k \in DOMAIN next, NEW j \in DOMAIN next[k]
      PROVE  \E l \in DOMAIN lists[k] : next[k][j] = lists[k][l]
  <2>1. CASE k # N BY <1>7, <1>8, <2>1
  <2>2. CASE k = N
    <3>1. j \in 1 .. (L - 1) /\ j + 1 \in 1 .. L BY <1>3, <1>5, <1>8, <2>2
    <3> QED BY <1>3, <1>4, <1>8, <2>2, <3>1 DEF top
  <2> QED BY <2>1, <2>2
<1>10. n # N => EntryAt(next, n, m) = EntryAt(lists, n, m) \/ n \notin DOMAIN lists
  BY <1>8 DEF EntryAt
<1>11. CASE n # N
  <2>1. Ahead(next, n, m) <=> Ahead(lists, n, m) BY <1>7, <1>8, <1>10, <1>11 DEF Ahead
  <2>2. Ahead(next, n, m) => EntryAt(next, n, m) = EntryAt(lists, n, m)
    BY <1>7, <1>10, <1>11 DEF Ahead
  <2> QED BY <1>6, <1>7, <1>9, <1>11, <2>1, <2>2 DEF Consume, next, top, N
<1>12. CASE n = N
  <2>1. m \in 0 .. (L - 1) /\ m # L - 1 <=> m \in 0 .. ((L - 1) - 1) BY <1>3
  <2>2. ASSUME m \in 0 .. ((L - 1) - 1) PROVE EntryAt(next, n, m) = EntryAt(lists, n, m)
    <3>1. (L - 1) - m \in 1 .. (L - 1) /\ ((L - 1) - m) + 1 = L - m BY <1>3, <2>2
    <3>2. Tail(top)[(L - 1) - m] = top[L - m] BY <1>4, <3>1
    <3> QED BY <1>4, <1>8, <1>12, <3>2 DEF EntryAt, L, top
  <2>3. Len(next[n]) = L - 1 /\ Len(lists[n]) = L /\ n \in DOMAIN next /\ n \in DOMAIN lists
    BY <1>2, <1>4, <1>7, <1>8, <1>12 DEF L, top
  <2>4. Ahead(next, n, m) <=> Ahead(lists, n, m) /\ m # L - 1
    BY <2>1, <2>2, <2>3 DEF Ahead
  <2>5. Ahead(next, n, m) => EntryAt(next, n, m) = EntryAt(lists, n, m)
    BY <2>2, <2>3 DEF Ahead
  <2> QED BY <1>6, <1>7, <1>9, <1>12, <2>4, <2>5 DEF Consume, next, top, N, L
<1> QED BY <1>11, <1>12

LEMMA AheadOfConsumed ==
    ASSUME NEW S, NEW lists \in Seq(Seq(S)), lists # <<>>, lists[Len(lists)] # <<>>
    PROVE  \A n, m \in Nat :
              /\ Ahead(Consume(lists), n, m) <=>
                    /\ Ahead(lists, n, m)
                    /\ ~(n = Len(lists) /\ m = Len(lists[Len(lists)]) - 1)
              /\ Ahead(Consume(lists), n, m) =>
                    EntryAt(Consume(lists), n, m) = EntryAt(lists, n, m)
BY ConsumeAhead

\* Consuming an entry the walk does not go into leaves the spec stack.
LEMMA ConsumeOther ==
    ASSUME NEW S, NEW lists \in Seq(Seq(S)), lists # <<>>, lists[Len(lists)] # <<>>,
           ~ReadsChildren(lists[Len(lists)][1]), NEW specs, Aligned(lists, specs)
    PROVE  Aligned(Consume(lists), specs)
<1> DEFINE N == Len(lists)
           L == Len(lists[N])
           next == Consume(lists)
<1>1. ASSUME NEW n \in Nat, NEW m \in Nat
      PROVE  /\ Ahead(next, n, m) <=> Ahead(lists, n, m) /\ ~(n = N /\ m = L - 1)
             /\ Ahead(next, n, m) => EntryAt(next, n, m) = EntryAt(lists, n, m)
  BY AheadOfConsumed
<1>2. ~Ahead(lists, N, L - 1)
  <2>1. N \in Nat \ {0} /\ DOMAIN lists = 1 .. N BY EmptySeq, LenProperties
  <2>2. L \in Nat BY <2>1
  <2>3. L - (L - 1) = 1 BY <2>2
  <2> QED BY <2>3 DEF Ahead, EntryAt
<1> HIDE DEF N, L, next
<1>3. Aligned(next, specs) BY <1>1, <1>2, SameAhead
<1> QED BY <1>3 DEF next

\* Consuming a directory goes with popping its spec.
LEMMA ConsumeDirectory ==
    ASSUME NEW S, NEW lists \in Seq(Seq(S)), lists # <<>>, lists[Len(lists)] # <<>>,
           ReadsChildren(lists[Len(lists)][1]),
           NEW U, NEW specs \in Seq(U), Aligned(lists, specs)
    PROVE  /\ Front(specs) \in Seq(U)
           /\ Aligned(Consume(lists), Front(specs))
<1> DEFINE N == Len(lists)
           L == Len(lists[N])
           K == Len(specs)
           next == Consume(lists)
           front == Front(specs)
<1>1. ASSUME NEW n \in Nat, NEW m \in Nat
      PROVE  /\ Ahead(next, n, m) <=> Ahead(lists, n, m) /\ ~(n = N /\ m = L - 1)
             /\ Ahead(next, n, m) => EntryAt(next, n, m) = EntryAt(lists, n, m)
  BY AheadOfConsumed
<1>2. N \in Nat \ {0} /\ DOMAIN lists = 1 .. N BY EmptySeq, LenProperties
<1>3. lists[N] \in Seq(S) BY <1>2
<1>4. L \in Nat \ {0} BY <1>3, EmptySeq
<1>5. specs # <<>> BY TopIsNext
<1>6. K \in Nat \ {0} /\ DOMAIN specs = 1 .. K BY <1>5, EmptySeq, LenProperties
<1>7. \A n \in DOMAIN lists : n <= N /\ n \in Nat BY <1>2
<1>8. /\ front \in Seq(U) /\ Len(front) = K - 1 /\ DOMAIN front = 1 .. (K - 1)
      /\ \A i \in 1 .. (K - 1) : front[i] = specs[i]
  <2>1. \A i \in 1 .. (K - 1) : i \in 1 .. K /\ 1 + i - 1 = i BY <1>6
  <2>2. \A i \in 1 .. (K - 1) : specs[i] \in U BY <1>6, <2>1
  <2>3. K - 1 \in Int /\ (K - 1) - 1 + 1 = K - 1 /\ (~(1 <= K - 1) => K - 1 = 0) BY <1>6
  <2>4. /\ front \in Seq(U) /\ Len(front) = IF 1 <= K - 1 THEN (K - 1) - 1 + 1 ELSE 0
        /\ \A i \in 1 .. ((K - 1) - 1 + 1) : front[i] = specs[1 + i - 1]
    BY <2>2, <2>3, SubSeqProperties DEF Front
  <2> HIDE DEF front, K
  <2>5. Len(front) = K - 1 BY <2>3, <2>4
  <2>6. DOMAIN front = 1 .. (K - 1) BY <2>4, <2>5, LenProperties
  <2> QED BY <2>1, <2>3, <2>4, <2>5, <2>6
<1> HIDE DEF N, L, K, next, front
<1>9. PICK level \in [DOMAIN specs -> Nat], rest \in [DOMAIN specs -> Nat] :
         AlignedBy(lists, specs, level, rest)
  BY DEF Aligned
<1>10. /\ K \in DOMAIN specs
       /\ \A i \in DOMAIN front : i \in DOMAIN specs /\ i < K
       /\ \A i \in DOMAIN specs : i = K \/ i \in DOMAIN front
  <2>1. /\ K \in 1 .. K
        /\ \A i \in 1 .. (K - 1) : i \in 1 .. K /\ i < K
        /\ \A i \in 1 .. K : i = K \/ i \in 1 .. (K - 1)
    BY <1>6
  <2> QED BY <1>6, <1>8, <2>1
<1>11. Ahead(lists, N, L - 1)
  <2>1. L - (L - 1) = 1 /\ L - 1 \in 0 .. (L - 1) BY <1>4
  <2>2. N \in DOMAIN lists BY <1>2
  <2> QED BY <2>1, <2>2 DEF Ahead, EntryAt, L, N
<1>12. \A i \in DOMAIN specs : (level[i] = N /\ rest[i] = L - 1) <=> i = K
  <2>1. PICK i \in DOMAIN specs : level[i] = N /\ rest[i] = L - 1
    <3>1. N \in Nat /\ L - 1 \in Nat BY <1>2, <1>4
    <3> QED BY <1>9, <1>11, <3>1 DEF AlignedBy
  <2>2. ASSUME NEW j \in DOMAIN specs, i < j PROVE FALSE
    <3>1. /\ Ahead(lists, level[j], rest[j])
          /\ level[i] < level[j] \/ (level[i] = level[j] /\ rest[i] < rest[j])
      BY <1>9, <2>2 DEF AlignedBy
    <3>2. level[j] <= N /\ level[j] \in Nat BY <1>7, <3>1 DEF Ahead
    <3>3. level[j] = N /\ L - 1 < rest[j] BY <1>2, <2>1, <3>1, <3>2
    <3>4. rest[j] \in 0 .. (L - 1) BY <3>1, <3>3 DEF Ahead, L
    <3> QED BY <1>4, <3>3, <3>4
  <2>3. i = K BY <1>6, <1>10, <2>2
  <2>4. ASSUME NEW j \in DOMAIN specs, level[j] = N, rest[j] = L - 1 PROVE j = K
    <3>1. SUFFICES ASSUME j # K PROVE FALSE OBVIOUS
    <3>2. j < K BY <1>10, <3>1
    <3>3. level[j] < N \/ rest[j] < rest[K] BY <1>9, <1>10, <2>1, <2>3, <3>2 DEF AlignedBy
    <3> QED BY <1>2, <1>4, <2>1, <2>3, <2>4, <3>3
  <2> QED BY <2>1, <2>3, <2>4
<1> DEFINE lev == [i \in DOMAIN front |-> level[i]]
           res == [i \in DOMAIN front |-> rest[i]]
<1>13. lev \in [DOMAIN front -> Nat] /\ res \in [DOMAIN front -> Nat] BY <1>10
<1>14. \A i \in DOMAIN front : lev[i] = level[i] /\ res[i] = rest[i] OBVIOUS
<1> HIDE DEF lev, res
<1>15. AlignedBy(next, front, lev, res)
  <2>1. ASSUME NEW i \in DOMAIN front
        PROVE  /\ Ahead(next, lev[i], res[i])
               /\ front[i] = SerialSpec(EntryAt(next, lev[i], res[i]))
    <3>1. i \in DOMAIN specs /\ i # K /\ front[i] = specs[i] BY <1>6, <1>8, <1>10
    <3>2. level[i] \in Nat /\ rest[i] \in Nat /\ lev[i] = level[i] /\ res[i] = rest[i]
      BY <1>14, <3>1
    <3>3. Ahead(lists, level[i], rest[i]) /\ specs[i] = SerialSpec(EntryAt(lists, level[i], rest[i]))
      BY <1>9, <3>1 DEF AlignedBy
    <3>4. Ahead(next, level[i], rest[i]) BY <1>1, <1>12, <3>1, <3>2, <3>3
    <3> QED BY <1>1, <3>1, <3>2, <3>3, <3>4
  <2>2. \A i, j \in DOMAIN front :
          i < j => lev[i] < lev[j] \/ (lev[i] = lev[j] /\ res[i] < res[j])
    BY <1>9, <1>10, <1>14 DEF AlignedBy
  <2>3. ASSUME NEW n \in Nat, NEW m \in Nat, Ahead(next, n, m)
        PROVE  \E i \in DOMAIN front : lev[i] = n /\ res[i] = m
    <3>1. Ahead(lists, n, m) /\ ~(n = N /\ m = L - 1) BY <1>1, <2>3
    <3>2. PICK i \in DOMAIN specs : level[i] = n /\ rest[i] = m BY <1>9, <3>1 DEF AlignedBy
    <3>3. i # K BY <1>12, <3>1, <3>2
    <3>4. i \in DOMAIN front BY <1>10, <3>3
    <3> QED BY <1>14, <3>2, <3>4
  <2> QED BY <2>1, <2>2, <2>3 DEF AlignedBy
<1>16. Aligned(next, front) BY <1>13, <1>15 DEF Aligned
<1> QED BY <1>8, <1>16 DEF next, front

\* Pushing a listing goes with pushing the specs of its directories, last first.
LEMMA PushAligned ==
    ASSUME NEW S, NEW lists \in Seq(Seq(S)), NEW list \in Seq(S),
           NEW U, NEW specs \in Seq(U), Aligned(lists, specs)
    PROVE  /\ Append(lists, list) \in Seq(Seq(S))
           /\ specs \o ChildSpecs(list)
                 \in Seq(U \cup {SerialSpec(list[n]) : n \in 1 .. Len(list)})
           /\ Aligned(Append(lists, list), specs \o ChildSpecs(list))
<1>a. PICK c \in Nat : \E order \in [1 .. c -> 1 .. Len(list)] : SelectedBy(list, c, order)
  BY Selected
<1>b. PICK order \in [1 .. c -> 1 .. Len(list)] : SelectedBy(list, c, order) BY <1>a
<1> DEFINE N == Len(lists)
           L == Len(list)
           K == Len(specs)
           next == Append(lists, list)
           kids == ChildSpecs(list)
           all == specs \o kids
           V == {SerialSpec(list[n]) : n \in 1 .. L}
<1>1. /\ order \in [1 .. c -> 1 .. L]
      /\ kids \in [1 .. c -> V]
      /\ \A i \in 1 .. c : kids[i] = SerialSpec(list[order[i]]) /\ ReadsChildren(list[order[i]])
      /\ \A i, j \in 1 .. c : i < j => order[j] < order[i]
      /\ \A n \in 1 .. L : ReadsChildren(list[n]) => \E i \in 1 .. c : order[i] = n
  BY <1>b DEF SelectedBy
<1>2. N \in Nat /\ DOMAIN lists = 1 .. N BY LenProperties
<1>3. L \in Nat /\ K \in Nat /\ DOMAIN specs = 1 .. K BY LenProperties
<1>4. /\ next \in Seq(Seq(S)) /\ Len(next) = N + 1 /\ next[N + 1] = list
      /\ \A k \in 1 .. N : next[k] = lists[k]
  BY AppendProperties
<1> HIDE DEF V, kids
<1>5. kids \in Seq(V) /\ Len(kids) = c
  <2>1. kids \in Seq(V) BY <1>1, SeqDef
  <2>2. DOMAIN kids = 1 .. c BY <1>1
  <2> QED BY <1>1, <2>1, <2>2
<1>6. specs \in Seq(U \cup V) /\ kids \in Seq(U \cup V)
  <2>1. specs \in [1 .. K -> U \cup V] /\ kids \in [1 .. c -> U \cup V] BY <1>1, <1>3
  <2> QED BY <1>1, <1>3, <2>1, SeqDef
<1>7. /\ all \in Seq(U \cup V) /\ Len(all) = K + c
      /\ \A i \in 1 .. (K + c) : all[i] = IF i <= K THEN specs[i] ELSE kids[i - K]
  BY <1>5, <1>6, ConcatProperties
<1> HIDE DEF N, L, K, next, all
<1>8. DOMAIN next = 1 .. (N + 1) BY <1>4, LenProperties
<1>9. DOMAIN all = 1 .. (K + c) BY <1>7, LenProperties
<1>10. PICK level \in [DOMAIN specs -> Nat], rest \in [DOMAIN specs -> Nat] :
         AlignedBy(lists, specs, level, rest)
  BY DEF Aligned
<1>11. /\ \A i \in DOMAIN all : \/ i \in DOMAIN specs /\ i <= K
                                \/ i - K \in 1 .. c /\ ~(i <= K)
       /\ \A i \in DOMAIN specs : i \in DOMAIN all /\ i <= K
       /\ \A i \in 1 .. c : i + K \in DOMAIN all /\ ~(i + K <= K) /\ (i + K) - K = i
  BY <1>1, <1>3, <1>9
<1>12. /\ \A i \in DOMAIN specs : all[i] = specs[i]
       /\ \A i \in DOMAIN all : ~(i <= K) => all[i] = kids[i - K]
  BY <1>7, <1>9, <1>11
<1>13. \A i \in 1 .. c : /\ order[i] \in 1 .. L /\ L - order[i] \in Nat
                         /\ L - order[i] \in 0 .. (L - 1)
                         /\ L - (L - order[i]) = order[i]
  <2>1. \A i \in 1 .. c : order[i] \in 1 .. L BY <1>1
  <2>2. \A n \in 1 .. L : L - n \in Nat /\ L - n \in 0 .. (L - 1) /\ L - (L - n) = n BY <1>3
  <2> QED BY <2>1, <2>2
<1>14. \A n, m \in Nat : n \in DOMAIN lists =>
          /\ n # N + 1
          /\ Ahead(next, n, m) <=> Ahead(lists, n, m)
          /\ EntryAt(next, n, m) = EntryAt(lists, n, m)
  <2>1. \A n \in DOMAIN lists : n # N + 1 /\ n \in DOMAIN next /\ next[n] = lists[n]
    BY <1>2, <1>4, <1>8
  <2> QED BY <2>1 DEF Ahead, EntryAt
<1>15. N + 1 \in Nat /\ N + 1 \in DOMAIN next BY <1>2, <1>8
<1>16. \A m \in Nat : EntryAt(next, N + 1, m) = list[L - m] BY <1>4 DEF EntryAt, L
<1>17. \A m \in Nat : Ahead(next, N + 1, m) <=> m \in 0 .. (L - 1) /\ ReadsChildren(list[L - m])
  BY <1>4, <1>15, <1>16 DEF Ahead, L
<1> DEFINE lev == [i \in DOMAIN all |-> IF i <= K THEN level[i] ELSE N + 1]
           res == [i \in DOMAIN all |-> IF i <= K THEN rest[i] ELSE L - order[i - K]]
<1>18. /\ \A i \in DOMAIN specs : lev[i] = level[i] /\ res[i] = rest[i]
       /\ \A i \in DOMAIN all : ~(i <= K) => lev[i] = N + 1 /\ res[i] = L - order[i - K]
  BY <1>11
<1>19. lev \in [DOMAIN all -> Nat] /\ res \in [DOMAIN all -> Nat]
  <2>1. \A i \in DOMAIN all : IF i <= K THEN level[i] \in Nat /\ rest[i] \in Nat
                              ELSE N + 1 \in Nat /\ L - order[i - K] \in Nat
    BY <1>10, <1>11, <1>13, <1>15
  <2> QED BY <2>1
<1> HIDE DEF lev, res
<1>20. AlignedBy(next, all, lev, res)
  <2>1. ASSUME NEW i \in DOMAIN all
        PROVE  /\ Ahead(next, lev[i], res[i])
               /\ all[i] = SerialSpec(EntryAt(next, lev[i], res[i]))
    <3>1. CASE i \in DOMAIN specs
      <4>1. Ahead(lists, level[i], rest[i]) /\ specs[i] = SerialSpec(EntryAt(lists, level[i], rest[i]))
        BY <1>10, <3>1 DEF AlignedBy
      <4>2. level[i] \in Nat /\ rest[i] \in Nat /\ level[i] \in DOMAIN lists
        BY <1>10, <3>1, <4>1 DEF Ahead
      <4> QED BY <1>12, <1>14, <1>18, <3>1, <4>1, <4>2
    <3>2. CASE ~(i <= K)
      <4>1. i - K \in 1 .. c BY <1>11, <3>2
      <4>2. lev[i] = N + 1 /\ res[i] = L - order[i - K] /\ all[i] = kids[i - K]
        BY <1>12, <1>18, <3>2
      <4>3. kids[i - K] = SerialSpec(list[order[i - K]]) /\ ReadsChildren(list[order[i - K]])
        BY <1>1, <4>1
      <4> QED BY <1>13, <1>16, <1>17, <4>1, <4>2, <4>3
    <3> QED BY <1>11, <3>1, <3>2
  <2>2. ASSUME NEW i \in DOMAIN all, NEW j \in DOMAIN all, i < j
        PROVE  lev[i] < lev[j] \/ (lev[i] = lev[j] /\ res[i] < res[j])
    <3>1. CASE i \in DOMAIN specs /\ j \in DOMAIN specs
      BY <1>10, <1>18, <2>2, <3>1 DEF AlignedBy
    <3>2. CASE i \in DOMAIN specs /\ ~(j <= K)
      <4>1. Ahead(lists, level[i], rest[i]) BY <1>10, <3>2 DEF AlignedBy
      <4>2. level[i] \in 1 .. N BY <1>2, <4>1 DEF Ahead
      <4>3. level[i] < N + 1 BY <1>2, <4>2
      <4> QED BY <1>18, <3>2, <4>3
    <3>3. CASE ~(i <= K) /\ ~(j <= K)
      <4>1. i - K \in 1 .. c /\ j - K \in 1 .. c BY <1>11, <3>3
      <4>2. i - K < j - K BY <1>3, <1>9, <2>2
      <4>3. order[j - K] < order[i - K] BY <1>1, <4>1, <4>2
      <4>4. order[j - K] \in Nat /\ order[i - K] \in Nat BY <1>13, <4>1
      <4>5. L - order[i - K] < L - order[j - K] BY <1>3, <4>3, <4>4
      <4> QED BY <1>18, <3>3, <4>5
    <3>4. ~(~(i <= K) /\ j <= K) BY <1>3, <1>9, <2>2
    <3> QED BY <1>11, <3>1, <3>2, <3>3, <3>4
  <2>3. ASSUME NEW n \in Nat, NEW m \in Nat, Ahead(next, n, m)
        PROVE  \E i \in DOMAIN all : lev[i] = n /\ res[i] = m
    <3>1. n \in DOMAIN lists \/ n = N + 1 BY <1>2, <1>8, <2>3 DEF Ahead
    <3>2. CASE n \in DOMAIN lists
      <4>1. Ahead(lists, n, m) BY <1>14, <2>3, <3>2
      <4>2. PICK i \in DOMAIN specs : level[i] = n /\ rest[i] = m BY <1>10, <4>1 DEF AlignedBy
      <4> QED BY <1>11, <1>18, <4>2
    <3>3. CASE n = N + 1
      <4>1. m \in 0 .. (L - 1) /\ ReadsChildren(list[L - m]) BY <1>17, <2>3, <3>3
      <4>2. L - m \in 1 .. L /\ L - (L - m) = m BY <1>3, <4>1
      <4>3. PICK i \in 1 .. c : order[i] = L - m BY <1>1, <4>1, <4>2
      <4>4. i + K \in DOMAIN all /\ ~(i + K <= K) /\ (i + K) - K = i BY <1>11
      <4>5. lev[i + K] = N + 1 /\ res[i + K] = L - order[i] BY <1>18, <4>4
      <4> QED BY <3>3, <4>2, <4>3, <4>4, <4>5
    <3> QED BY <3>1, <3>2, <3>3
  <2> QED BY <2>1, <2>2, <2>3 DEF AlignedBy
<1>21. Aligned(next, all) BY <1>19, <1>20 DEF Aligned
<1> QED BY <1>4, <1>7, <1>21 DEF next, all, kids, V, L

------------------------------------------------------------------------------
(* The two stacks stay in step *)

InStep(lists, specs) ==
    /\ \E S : lists \in Seq(Seq(S))
    /\ \A n \in DOMAIN lists : Sound(lists[n])
    /\ \E U : specs \in Seq(U)
    /\ Aligned(lists, specs)

LEMMA PopInStep ==
    ASSUME NEW lists, NEW specs, InStep(lists, specs), lists # <<>>, lists[Len(lists)] = <<>>
    PROVE  InStep(SubSeq(lists, 1, Len(lists) - 1), specs)
<1> DEFINE next == SubSeq(lists, 1, Len(lists) - 1)
<1>1. PICK S : lists \in Seq(Seq(S)) BY DEF InStep
<1>2. \A n, m \in Nat : /\ next \in Seq(Seq(S))
                        /\ \A k \in DOMAIN next : k \in DOMAIN lists /\ next[k] = lists[k]
                        /\ Ahead(next, n, m) <=> Ahead(lists, n, m)
                        /\ Ahead(lists, n, m) => EntryAt(next, n, m) = EntryAt(lists, n, m)
  BY <1>1, PopAhead
<1> HIDE DEF next
<1>3. Aligned(next, specs) BY <1>2, SameAhead DEF InStep
<1>4. next \in Seq(Seq(S)) /\ \A k \in DOMAIN next : k \in DOMAIN lists /\ next[k] = lists[k]
  <2>1. 0 \in Nat OBVIOUS
  <2> QED BY <1>2, <2>1
<1>5. InStep(next, specs) BY <1>3, <1>4 DEF InStep
<1> QED BY <1>5 DEF next

LEMMA ConsumedSound ==
    ASSUME NEW S, NEW lists \in Seq(Seq(S)), lists # <<>>, lists[Len(lists)] # <<>>,
           \A n \in DOMAIN lists : Sound(lists[n])
    PROVE  /\ Consume(lists) \in Seq(Seq(S))
           /\ \A n \in DOMAIN Consume(lists) : Sound(Consume(lists)[n])
<1> DEFINE next == Consume(lists)
<1>1. /\ next \in Seq(Seq(S)) /\ DOMAIN next = DOMAIN lists
      /\ \A k \in DOMAIN lists : \A j \in DOMAIN next[k] :
            \E l \in DOMAIN lists[k] : next[k][j] = lists[k][l]
  <2>1. 0 \in Nat OBVIOUS
  <2> QED BY <2>1, ConsumeAhead
<1> HIDE DEF next
<1>2. \A k \in DOMAIN next : next[k] \in Seq(S) BY <1>1
<1>3. \A k \in DOMAIN next : Sound(next[k]) BY <1>1, <1>2 DEF Sound
<1> QED BY <1>1, <1>3 DEF next

LEMMA OtherInStep ==
    ASSUME NEW lists, NEW specs, InStep(lists, specs), lists # <<>>, lists[Len(lists)] # <<>>,
           ~ReadsChildren(lists[Len(lists)][1])
    PROVE  InStep(Consume(lists), specs)
<1>1. PICK S : lists \in Seq(Seq(S)) BY DEF InStep
<1>2. Aligned(Consume(lists), specs) BY <1>1, ConsumeOther DEF InStep
<1>3. /\ Consume(lists) \in Seq(Seq(S))
      /\ \A n \in DOMAIN Consume(lists) : Sound(Consume(lists)[n])
  BY <1>1, ConsumedSound DEF InStep
<1> QED BY <1>2, <1>3 DEF InStep

LEMMA DirectoryInStep ==
    ASSUME NEW lists, NEW specs, InStep(lists, specs), lists # <<>>, lists[Len(lists)] # <<>>,
           ReadsChildren(lists[Len(lists)][1])
    PROVE  /\ InStep(Consume(lists), Front(specs))
           /\ specs # <<>>
           /\ specs[Len(specs)] = SerialSpec(lists[Len(lists)][1])
           /\ lists[Len(lists)][1].dir \in Dirs
<1>1. PICK S : lists \in Seq(Seq(S)) BY DEF InStep
<1>2. PICK U : specs \in Seq(U) BY DEF InStep
<1>3. Front(specs) \in Seq(U) /\ Aligned(Consume(lists), Front(specs))
  BY <1>1, <1>2, ConsumeDirectory DEF InStep
<1>4. /\ Consume(lists) \in Seq(Seq(S))
      /\ \A n \in DOMAIN Consume(lists) : Sound(Consume(lists)[n])
  BY <1>1, ConsumedSound DEF InStep
<1>5. InStep(Consume(lists), Front(specs)) BY <1>3, <1>4 DEF InStep
<1>6. specs # <<>> /\ specs[Len(specs)] = SerialSpec(lists[Len(lists)][1])
  BY <1>1, <1>2, TopIsNext DEF InStep
<1>7. lists[Len(lists)][1].dir \in Dirs
  <2>1. Len(lists) \in DOMAIN lists BY <1>1, EmptySeq, LenProperties
  <2>2. lists[Len(lists)] \in Seq(S) BY <1>1, <2>1
  <2>3. 1 \in DOMAIN lists[Len(lists)] BY <2>2, EmptySeq, LenProperties
  <2> QED BY <2>1, <2>3 DEF InStep, Sound
<1> QED BY <1>5, <1>6, <1>7

LEMMA PushInStep ==
    ASSUME NEW lists, NEW specs, InStep(lists, specs), NEW list, Sound(list)
    PROVE  InStep(Append(lists, list), specs \o ChildSpecs(list))
<1> DEFINE next == Append(lists, list)
<1>1. PICK S : lists \in Seq(Seq(S)) BY DEF InStep
<1>2. PICK T : list \in Seq(T) BY DEF Sound
<1>3. PICK U : specs \in Seq(U) BY DEF InStep
<1>4. Seq(S) \subseteq Seq(S \cup T) /\ list \in Seq(S \cup T)
  BY <1>2, SeqMonotonic
<1>5. lists \in Seq(Seq(S \cup T)) BY <1>1, <1>4, SeqMonotonic
<1>6. /\ next \in Seq(Seq(S \cup T))
      /\ specs \o ChildSpecs(list) \in Seq(U \cup {SerialSpec(list[n]) : n \in 1 .. Len(list)})
      /\ Aligned(next, specs \o ChildSpecs(list))
  BY <1>3, <1>4, <1>5, PushAligned DEF InStep
<1>7. /\ Len(lists) \in Nat /\ DOMAIN lists = 1 .. Len(lists)
      /\ Len(next) = Len(lists) + 1 /\ next[Len(lists) + 1] = list
      /\ \A k \in 1 .. Len(lists) : next[k] = lists[k]
  BY <1>4, <1>5, AppendProperties, LenProperties
<1> HIDE DEF next
<1>8. DOMAIN next = 1 .. (Len(lists) + 1) BY <1>6, <1>7, LenProperties
<1>9. \A k \in DOMAIN next : k \in DOMAIN lists \/ k = Len(lists) + 1 BY <1>7, <1>8
<1>10. \A k \in DOMAIN next : Sound(next[k]) BY <1>7, <1>9 DEF InStep
<1>11. InStep(next, specs \o ChildSpecs(list)) BY <1>6, <1>10 DEF InStep
<1> QED BY <1>11 DEF next

\* A directory that was not read pushes nothing.
LEMMA NothingPushed ==
    ASSUME NEW U, NEW specs \in Seq(U)
    PROVE  specs \o ChildSpecs(<<>>) = specs
<1>1. <<>> \in Seq({}) /\ Len(<<>>) = 0 /\ 1 .. 0 = {} OBVIOUS
<1>2. PICK c \in Nat : \E order \in [1 .. c -> 1 .. Len(<<>>)] : SelectedBy(<<>>, c, order)
  BY <1>1, Selected
<1>3. PICK order \in [1 .. c -> 1 .. Len(<<>>)] : SelectedBy(<<>>, c, order) BY <1>2
<1>4. c = 0
  <2>1. c # 0 => 1 \in 1 .. c OBVIOUS
  <2>2. order \in [1 .. c -> {}] BY <1>1
  <2> QED BY <2>1, <2>2
<1>5. DOMAIN ChildSpecs(<<>>) = {} BY <1>1, <1>3, <1>4 DEF SelectedBy
<1>6. ChildSpecs(<<>>) = <<>>
  <2>1. ChildSpecs(<<>>) \in [1 .. 0 -> {}] BY <1>1, <1>3, <1>4 DEF SelectedBy
  <2>2. ChildSpecs(<<>>) \in Seq({}) BY <2>1, SeqDef
  <2> QED BY <1>1, <1>5, <2>2, EmptySeq, LenProperties
<1> QED BY <1>6, ConcatEmptySeq

------------------------------------------------------------------------------
(* Counting what is below on the stack *)

\* f numbers the elements of S from 1 to k.
Numbers(f, k, S) ==
    /\ f \in [1 .. k -> S]
    /\ \A s \in S : \E i \in 1 .. k : f[i] = s
    /\ \A i, j \in 1 .. k : f[i] = f[j] => i = j

\* What 1 .. c numbers has c elements.
LEMMA Numbered ==
    ASSUME NEW T, NEW c \in Nat, NEW g, Numbers(g, c, T)
    PROVE  Cardinality(T) = c
<1>1. g \in Injection(1 .. c, T) BY DEF Numbers, Injection, IsInjective
<1>2. g \in Surjection(1 .. c, T) BY DEF Numbers, Surjection
<1>3. g \in Bijection(1 .. c, T) BY <1>1, <1>2 DEF Bijection
<1>4. 1 \in Int /\ c \in Int /\ (IF 1 > c THEN 0 ELSE c - 1 + 1) = c OBVIOUS
<1>5. IsFiniteSet(1 .. c) /\ Cardinality(1 .. c) = c BY <1>4, FS_Interval
<1> QED BY <1>3, <1>5, FS_Bijection DEF ExistsBijection

\* Of a set that is numbered, those with a smaller number than i are i - 1.
LEMMA NumberedBelow ==
    ASSUME NEW S, NEW k \in Nat, NEW f, Numbers(f, k, S),
           NEW i \in 1 .. k, NEW T \in SUBSET S, \A j \in 1 .. k : f[j] \in T <=> j < i
    PROVE  Cardinality(T) = i - 1
<1> DEFINE g == [j \in 1 .. (i - 1) |-> f[j]]
<1>1. i - 1 \in Nat /\ \A j \in 1 .. (i - 1) : j \in 1 .. k /\ j < i OBVIOUS
<1>2. g \in [1 .. (i - 1) -> T] /\ \A j \in 1 .. (i - 1) : g[j] = f[j] BY <1>1 DEF Numbers
<1>3. ASSUME NEW t \in T PROVE \E j \in 1 .. (i - 1) : g[j] = t
  <2>1. PICK j \in 1 .. k : f[j] = t BY DEF Numbers
  <2>2. j < i BY <2>1
  <2>3. j \in 1 .. (i - 1) BY <2>2
  <2> QED BY <1>2, <2>1, <2>3
<1>4. \A j, l \in 1 .. (i - 1) : g[j] = g[l] => j = l BY <1>1, <1>2 DEF Numbers
<1> HIDE DEF g
<1>5. Numbers(g, i - 1, T) BY <1>2, <1>3, <1>4 DEF Numbers
<1> QED BY <1>1, <1>5, Numbered

\* The two descriptions of the agreement.
LEMMA AlignedAgree ==
    ASSUME InStep(read_dir_results_stack, read_dir_spec_stack)
    PROVE  StacksAgree
<1> DEFINE lists == read_dir_results_stack
           specs == read_dir_spec_stack
           K == Len(specs)
<1>1. PICK S : lists \in Seq(Seq(S)) BY DEF InStep
<1>2. PICK U : specs \in Seq(U) BY DEF InStep
<1>3. PICK level \in [DOMAIN specs -> Nat], rest \in [DOMAIN specs -> Nat] :
         AlignedBy(lists, specs, level, rest)
  BY DEF InStep, Aligned
<1>4. K \in Nat /\ DOMAIN specs = 1 .. K BY <1>2, LenProperties
<1>5. \A n \in DOMAIN lists : lists[n] \in Seq(S) /\ n \in Nat
  <2>1. lists \in [1 .. Len(lists) -> Seq(S)] /\ DOMAIN lists = 1 .. Len(lists) BY <1>1, LenProperties
  <2> HIDE DEF lists
  <2> QED BY <2>1
<1>6. \A n \in DOMAIN lists : Len(lists[n]) \in Nat /\ DOMAIN lists[n] = 1 .. Len(lists[n])
  BY <1>5, LenProperties
<1> DEFINE Place(i) == <<level[i], Len(lists[level[i]]) - rest[i]>>
           f == [i \in 1 .. K |-> Place(i)]
<1>7. \A p : p \in StillAhead <=> \E n \in DOMAIN lists : \E m \in DOMAIN lists[n] :
                                     p = <<n, m>> /\ ReadsChildren(lists[n][m])
  BY DEF StillAhead
<1> HIDE DEF lists, specs, K
<1>8. ASSUME NEW i \in 1 .. K
      PROVE  /\ Place(i) \in StillAhead /\ f[i] = Place(i)
             /\ level[i] \in DOMAIN lists /\ rest[i] \in 0 .. (Len(lists[level[i]]) - 1)
             /\ specs[i] = SerialSpec(lists[level[i]][Len(lists[level[i]]) - rest[i]])
  <2> DEFINE n == level[i]
             m == Len(lists[n]) - rest[i]
  <2>1. /\ n \in DOMAIN lists /\ rest[i] \in 0 .. (Len(lists[n]) - 1) /\ ReadsChildren(lists[n][m])
        /\ specs[i] = SerialSpec(lists[n][m])
    BY <1>3, <1>4 DEF AlignedBy, Ahead, EntryAt
  <2>2. m \in DOMAIN lists[n] BY <1>6, <2>1
  <2>3. <<n, m>> \in StillAhead BY <1>7, <2>1, <2>2
  <2> QED BY <2>1, <2>3
<1>9. ASSUME NEW p \in StillAhead PROVE \E i \in 1 .. K : f[i] = p
  <2>0. PICK n \in DOMAIN lists :
           \E m \in DOMAIN lists[n] : p = <<n, m>> /\ ReadsChildren(lists[n][m])
    BY <1>7
  <2>1. PICK m \in DOMAIN lists[n] : p = <<n, m>> /\ ReadsChildren(lists[n][m]) BY <2>0
  <2> DEFINE r == Len(lists[n]) - m
  <2>2. n \in Nat /\ r \in 0 .. (Len(lists[n]) - 1) /\ Len(lists[n]) - r = m
    <3>1. n \in Nat /\ Len(lists[n]) \in Nat /\ m \in 1 .. Len(lists[n]) BY <1>5, <1>6
    <3> QED BY <3>1
  <2>3. Ahead(lists, n, r) BY <2>1, <2>2 DEF Ahead, EntryAt
  <2>4. r \in Nat BY <2>2
  <2>5. PICK i \in 1 .. K : level[i] = n /\ rest[i] = r BY <1>3, <1>4, <2>2, <2>3, <2>4 DEF AlignedBy
  <2>6. Place(i) = p BY <2>1, <2>2, <2>5
  <2> QED BY <1>8, <2>6
<1>10. \A i, j \in 1 .. K : i < j => level[i] < level[j] \/ (level[i] = level[j] /\ rest[i] < rest[j])
  BY <1>3, <1>4 DEF AlignedBy
<1>11. \A i \in 1 .. K : level[i] \in Nat /\ rest[i] \in Nat /\ Len(lists[level[i]]) \in Nat
  BY <1>4, <1>6, <1>8
<1>12. ASSUME NEW i \in 1 .. K, NEW j \in 1 .. K
       PROVE  /\ f[i] = f[j] => i = j
              /\ (f[j][1] < f[i][1] \/ (f[j][1] = f[i][1] /\ f[j][2] > f[i][2])) <=> j < i
  <2>1. /\ f[i][1] = level[i] /\ f[i][2] = Len(lists[level[i]]) - rest[i]
        /\ f[j][1] = level[j] /\ f[j][2] = Len(lists[level[j]]) - rest[j]
    BY <1>8
  <2>2. CASE i = j BY <1>11, <2>1, <2>2
  <2>3. CASE i < j
    <3>1. level[i] < level[j] \/ (level[i] = level[j] /\ rest[i] < rest[j]) BY <1>10, <2>3
    <3> HIDE DEF f, Place
    <3>2. f[i][1] # f[j][1] \/ f[i][2] # f[j][2]
      <4>1. CASE level[i] # level[j] BY <2>1, <4>1
      <4>2. CASE level[i] = level[j]
        <5> DEFINE L == Len(lists[level[i]])
        <5>1. f[i][2] = L - rest[i] /\ f[j][2] = L - rest[j] BY <2>1, <4>2
        <5>2. L \in Nat /\ rest[i] \in Nat /\ rest[j] \in Nat /\ rest[i] # rest[j] BY <1>11, <3>1, <4>2
        <5> HIDE DEF L
        <5> QED BY <5>1, <5>2
      <4> QED BY <4>1, <4>2
    <3>3. ~(f[j][1] < f[i][1] \/ (f[j][1] = f[i][1] /\ f[j][2] > f[i][2])) BY <1>11, <2>1, <3>1
    <3> QED BY <2>3, <3>2, <3>3
  <2>4. CASE j < i
    <3>1. level[j] < level[i] \/ (level[j] = level[i] /\ rest[j] < rest[i]) BY <1>10, <2>4
    <3> HIDE DEF f, Place
    <3>2. f[i][1] # f[j][1] \/ f[i][2] # f[j][2]
      <4>1. CASE level[i] # level[j] BY <2>1, <4>1
      <4>2. CASE level[i] = level[j]
        <5> DEFINE L == Len(lists[level[i]])
        <5>1. f[i][2] = L - rest[i] /\ f[j][2] = L - rest[j] BY <2>1, <4>2
        <5>2. L \in Nat /\ rest[i] \in Nat /\ rest[j] \in Nat /\ rest[i] # rest[j] BY <1>11, <3>1, <4>2
        <5> HIDE DEF L
        <5> QED BY <5>1, <5>2
      <4> QED BY <4>1, <4>2
    <3>3. f[j][1] < f[i][1] \/ (f[j][1] = f[i][1] /\ f[j][2] > f[i][2]) BY <1>11, <2>1, <3>1
    <3> QED BY <2>4, <3>2, <3>3
  <2> QED BY <2>2, <2>3, <2>4
<1>13. f \in [1 .. K -> StillAhead] BY <1>8
<1>14. \A i \in 1 .. K : specs[i] = SerialSpec(lists[f[i][1]][f[i][2]]) BY <1>8
<1> HIDE DEF f, Place
<1>15. \A i, j \in 1 .. K : f[i] = f[j] => i = j BY <1>12
<1>16. Numbers(f, K, StillAhead) BY <1>9, <1>13, <1>15 DEF Numbers
<1>17. Cardinality(StillAhead) = K BY <1>4, <1>16, Numbered
<1>18. ASSUME NEW p \in StillAhead
       PROVE  specs[Cardinality(ReadAfter(p)) + 1] = SerialSpec(lists[p[1]][p[2]])
  <2>1. PICK i \in 1 .. K : f[i] = p BY <1>9
  <2>2. ReadAfter(p) \in SUBSET StillAhead BY DEF ReadAfter
  <2>3. \A j \in 1 .. K : f[j] \in StillAhead BY <1>13
  <2>4. \A j \in 1 .. K : f[j] \in ReadAfter(p) <=> j < i BY <1>12, <2>1, <2>3 DEF ReadAfter
  <2>5. Cardinality(ReadAfter(p)) = i - 1
    <3> DEFINE T == ReadAfter(p)
    <3>1. K \in Nat /\ T \in SUBSET StillAhead BY <1>4, <2>2
    <3>2. \A j \in 1 .. K : f[j] \in T <=> j < i BY <2>4
    <3> HIDE DEF T
    <3>3. Cardinality(T) = i - 1 BY <1>16, <3>1, <3>2, NumberedBelow
    <3> QED BY <3>3 DEF T
  <2>6. Cardinality(ReadAfter(p)) + 1 = i BY <2>5
  <2> QED BY <1>14, <2>1, <2>6
<1> QED BY <1>17, <1>18 DEF StacksAgree, lists, specs, K

------------------------------------------------------------------------------
(* The theorem *)

(***************************************************************************)
(* The inductive invariant: the spec stack is in step with the listings.   *)
(* The promise itself is not inductive: it speaks of the entry the caller  *)
(* is at, and the spec popped there was pushed when its listing was read.  *)
(***************************************************************************)
SerialInv == faults \in FaultCases /\ InStep(read_dir_results_stack, read_dir_spec_stack)

LEMMA SerialInitInv == SerialInit => SerialInv
<1> DEFINE e == RootDirEntry
           list == <<e>>
           kids == [n \in 1 .. Len(ReadChildren(list)) |-> SerialSpec(ReadChildren(list)[n])]
<1>1. list \in Seq({e}) /\ Len(list) = 1 /\ list[1] = e /\ DOMAIN list = 1 .. 1 OBVIOUS
<1>2. ReadsChildren(e) => e.dir \in Dirs BY RootFacts
<1>3. Sound(list)
  <2>1. \A n \in DOMAIN list : list[n] = e BY <1>1
  <2> HIDE DEF list, e
  <2> QED BY <1>1, <1>2, <2>1 DEF Sound
<1>4. <<>> \in Seq(Seq({})) /\ <<>> \in Seq({}) /\ DOMAIN <<>> = {} OBVIOUS
<1>5. Aligned(<<>>, <<>>)
  <2>1. [i \in {} |-> 0] \in [DOMAIN <<>> -> Nat] BY <1>4
  <2>2. AlignedBy(<<>>, <<>>, [i \in {} |-> 0], [i \in {} |-> 0]) BY <1>4 DEF AlignedBy, Ahead
  <2> QED BY <2>1, <2>2 DEF Aligned
<1>6. InStep(<<>>, <<>>) BY <1>4, <1>5 DEF InStep
<1>7. InStep(Append(<<>>, list), <<>> \o ChildSpecs(list)) BY <1>3, <1>6, PushInStep
<1>8. Append(<<>>, list) = <<list>> OBVIOUS
<1>9. PICK c \in Nat : \E order \in [1 .. c -> 1 .. Len(list)] : SelectedBy(list, c, order)
  BY <1>1, Selected
<1>10. PICK order \in [1 .. c -> 1 .. Len(list)] : SelectedBy(list, c, order) BY <1>9
<1>11. c \in {0, 1}
  <2>1. SUFFICES ASSUME ~(c <= 1) PROVE FALSE OBVIOUS
  <2>2. 1 \in 1 .. c /\ 2 \in 1 .. c /\ 1 < 2 BY <2>1
  <2>3. order[1] = 1 /\ order[2] = 1 BY <1>1, <2>2
  <2>4. order[2] < order[1] BY <1>10, <2>2 DEF SelectedBy
  <2> QED BY <2>3, <2>4
<1>12. Len(ReadChildren(list)) = c BY <1>10 DEF SelectedBy
<1>13. ChildSpecs(list) = kids
  <2>1. ChildSpecs(list) = Reverse(kids) BY DEF ChildSpecs
  <2>2. DOMAIN kids = 1 .. c /\ Len(kids) = c BY <1>12
  <2>3. Reverse(kids) = [i \in 1 .. c |-> kids[(c - i) + 1]] BY <2>2 DEF Reverse
  <2>4. kids = [i \in 1 .. c |-> kids[i]] BY <1>12
  <2> HIDE DEF kids
  <2>5. \A i \in 1 .. c : (c - i) + 1 = i BY <1>11
  <2>6. [i \in 1 .. c |-> kids[(c - i) + 1]] = [i \in 1 .. c |-> kids[i]] BY <2>5
  <2> QED BY <2>1, <2>3, <2>4, <2>6
<1>14. <<>> \o kids = kids
  <2>1. kids \in [1 .. c -> {kids[n] : n \in 1 .. c}] BY <1>12
  <2> HIDE DEF kids
  <2>2. kids \in Seq({kids[n] : n \in 1 .. c}) BY <2>1, SeqDef
  <2> QED BY <2>2, ConcatEmptySeq
<1>15. InStep(<<list>>, kids) BY <1>7, <1>8, <1>13, <1>14
<1> SUFFICES ASSUME SerialInit PROVE SerialInv OBVIOUS
<1>16. read_dir_results_stack = <<list>> /\ faults \in FaultCases BY DEF SerialInit, IterInit
<1>17. TopList = list BY <1>16 DEF TopList
<1>18. read_dir_spec_stack = kids BY <1>17 DEF SerialInit
<1> QED BY <1>15, <1>16, <1>18 DEF SerialInv

\* A step at a directory: the result that ReadNext takes off the spec stack is
\* that of reading this directory.
LEMMA ReadsNextEntry ==
    ASSUME SerialInv, ReadNext
    PROVE  \E result :
              /\ result = CoreReadDir(ReadDirSpec(NextEntry), NextEntry.depth, faults[NextEntry.dir])
              /\ YieldDirectory(result)
              /\ Sound(result.list)
              /\ ~result.ok => result.list = <<>>
              /\ read_dir_spec_stack' = Front(read_dir_spec_stack) \o ChildSpecs(result.list)
              /\ InStep(Consumed, Front(read_dir_spec_stack))
<1> DEFINE lists == read_dir_results_stack
           specs == read_dir_spec_stack
           entry == lists[Len(lists)][1]
           top == Last(specs)
           result == CoreReadDir(ReadDirSpec(entry), entry.depth, faults[entry.dir])
<1>1. /\ lists # <<>> /\ lists[Len(lists)] # <<>> /\ NextEntry = entry
      /\ ReadsChildren(entry)
  BY DEF ReadNext, AtDirectory, HasEntry, TopList, NextEntry
<1>2. InStep(lists, specs) /\ faults \in FaultCases BY DEF SerialInv
<1>3. /\ InStep(Consume(lists), Front(specs)) /\ specs # <<>> /\ top = SerialSpec(entry)
      /\ entry.dir \in Dirs
  <2> HIDE DEF lists, specs
  <2> QED BY <1>1, <1>2, DirectoryInStep DEF Last
<1>4. /\ top.spec = ReadDirSpec(entry) /\ top.depth = entry.depth /\ top.spec.dir = entry.dir
      /\ ReadDirSpec(entry).dir = entry.dir
  BY <1>3 DEF SerialSpec, ReadDirSpec
<1>5. /\ YieldDirectory(result)
      /\ read_dir_spec_stack' = Front(specs) \o ChildSpecs(result.list)
  BY <1>3, <1>4 DEF ReadNext
<1>6. Sound(result.list) /\ (~result.ok => result.list = <<>>)
  <2>1. MayBefall(faults[entry.dir], entry.dir) BY <1>2, <1>3, FaultAssumption DEF MayBefall
  <2> QED BY <1>3, <1>4, <2>1, ReadSound
<1>7. Consumed = Consume(lists) BY DEF Consumed, Consume
<1> HIDE DEF result
<1> QED BY <1>1, <1>3, <1>5, <1>6, <1>7 DEF result

LEMMA SerialNextInv == SerialInv /\ [SerialNext]_serialVars => SerialInv'
<1> SUFFICES ASSUME SerialInv, [SerialNext]_serialVars PROVE SerialInv' OBVIOUS
<1> DEFINE lists == read_dir_results_stack
<1>1. InStep(lists, read_dir_spec_stack) /\ faults \in FaultCases BY DEF SerialInv
<1>2. CASE UNCHANGED serialVars BY <1>1, <1>2 DEF serialVars, SerialInv
<1>3. CASE PopList /\ UNCHANGED <<faults, read_dir_spec_stack>>
  <2>1. lists # <<>> /\ lists[Len(lists)] = <<>> /\ lists' = SubSeq(lists, 1, Len(lists) - 1)
    BY <1>3 DEF PopList, TopList
  <2>2. InStep(lists', read_dir_spec_stack)
    <3>1. InStep(SubSeq(lists, 1, Len(lists) - 1), read_dir_spec_stack) BY <1>1, <2>1, PopInStep
    <3> QED BY <2>1, <3>1
  <2> QED BY <1>1, <1>3, <2>2 DEF SerialInv
<1>4. CASE YieldEntry /\ UNCHANGED <<faults, read_dir_spec_stack>>
  <2>1. /\ lists # <<>> /\ lists[Len(lists)] # <<>> /\ ~ReadsChildren(lists[Len(lists)][1])
        /\ lists' = Consume(lists)
    BY <1>4 DEF YieldEntry, HasEntry, TopList, NextEntry, Consumed, Consume
  <2>2. InStep(lists', read_dir_spec_stack)
    <3>1. InStep(Consume(lists), read_dir_spec_stack) BY <1>1, <2>1, OtherInStep
    <3> QED BY <2>1, <3>1
  <2> QED BY <1>1, <1>4, <2>2 DEF SerialInv
<1>5. CASE ReadNext
  <2>1. PICK result : /\ YieldDirectory(result)
                      /\ Sound(result.list)
                      /\ ~result.ok => result.list = <<>>
                      /\ read_dir_spec_stack' = Front(read_dir_spec_stack) \o ChildSpecs(result.list)
                      /\ InStep(Consumed, Front(read_dir_spec_stack))
    BY <1>5, ReadsNextEntry
  <2>2. faults' \in FaultCases BY <1>1, <1>5 DEF ReadNext
  <2>3. CASE result.ok
    <3>1. lists' = Append(Consumed, result.list) BY <2>1, <2>3 DEF YieldDirectory
    <3>2. InStep(Append(Consumed, result.list), Front(read_dir_spec_stack) \o ChildSpecs(result.list))
      BY <2>1, PushInStep
    <3> QED BY <2>1, <2>2, <3>1, <3>2 DEF SerialInv
  <2>4. CASE ~result.ok
    <3>1. lists' = Consumed BY <2>1, <2>4 DEF YieldDirectory
    <3>2. PICK U : Front(read_dir_spec_stack) \in Seq(U) BY <2>1 DEF InStep
    <3>3. read_dir_spec_stack' = Front(read_dir_spec_stack) BY <2>1, <2>4, <3>2, NothingPushed
    <3> QED BY <2>1, <2>2, <3>1, <3>3 DEF SerialInv
  <2> QED BY <2>3, <2>4
<1> QED BY <1>2, <1>3, <1>4, <1>5 DEF SerialNext, SerialStep

\* WalkSpec reads a directory and turns the iterator as SerialWalk does.
LEMMA SameOperators ==
    /\ Abstract!RootDirEntry = RootDirEntry
    /\ Abstract!IterInit <=> IterInit
    /\ Abstract!PopList <=> PopList
    /\ Abstract!YieldEntry <=> YieldEntry
    /\ Abstract!AtDirectory <=> AtDirectory
    /\ Abstract!NextEntry = NextEntry
    /\ \A result : Abstract!YieldDirectory(result) <=> YieldDirectory(result)
    /\ \A spec, depth, fault :
          Abstract!CoreReadDir(spec, depth, fault) = CoreReadDir(spec, depth, fault)
    /\ \A entry : Abstract!ReadDirSpec(entry) = ReadDirSpec(entry)
<1>1. \A entry, depth, ancestors :
         Abstract!AtDepth(entry, depth, ancestors) = AtDepth(entry, depth, ancestors)
  BY DEF Abstract!AtDepth, AtDepth
<1>2. \A entry : Abstract!Identity(entry) = Identity(entry) BY DEF Abstract!Identity, Identity
<1>3. \A entry : Abstract!ReadsChildren(entry) <=> ReadsChildren(entry)
  BY DEF Abstract!ReadsChildren, ReadsChildren
<1>4. \A entry : Abstract!ReadDirSpec(entry) = ReadDirSpec(entry)
  BY <1>2 DEF Abstract!ReadDirSpec, ReadDirSpec
<1>5. Abstract!RootDirEntry = RootDirEntry BY <1>1, <1>2 DEF Abstract!RootDirEntry, RootDirEntry
<1>6. Abstract!IterInit <=> IterInit BY <1>5 DEF Abstract!IterInit, IterInit
<1>7. Abstract!TopList = TopList BY DEF Abstract!TopList, TopList
<1>8. Abstract!PopList <=> PopList BY <1>7 DEF Abstract!PopList, PopList
<1>9. Abstract!HasEntry <=> HasEntry BY <1>7 DEF Abstract!HasEntry, HasEntry
<1>10. Abstract!NextEntry = NextEntry BY <1>7 DEF Abstract!NextEntry, NextEntry
<1>11. Abstract!Consumed = Consumed BY DEF Abstract!Consumed, Consumed
<1>12. \A entry, error : Abstract!Yield(entry, error) <=> Yield(entry, error)
  BY DEF Abstract!Yield, Yield
<1>13. Abstract!YieldEntry <=> YieldEntry
  BY <1>3, <1>9, <1>10, <1>11, <1>12 DEF Abstract!YieldEntry, YieldEntry
<1>14. Abstract!AtDirectory <=> AtDirectory
  BY <1>3, <1>9, <1>10 DEF Abstract!AtDirectory, AtDirectory
<1>15. \A result : Abstract!YieldDirectory(result) <=> YieldDirectory(result)
  BY <1>10, <1>11, <1>12, <1>14 DEF Abstract!YieldDirectory, YieldDirectory
<1>16. \A spec : Abstract!Ancestors(spec) = Ancestors(spec)
  BY DEF Abstract!Ancestors, Ancestors
<1>17. \A entry : Abstract!FollowSymlink(entry) = FollowSymlink(entry)
  BY DEF Abstract!FollowSymlink, FollowSymlink
<1>18. \A spec, depth : Abstract!Entries(spec, depth) = Entries(spec, depth)
  BY <1>1, <1>16, <1>17 DEF Abstract!Entries, Entries
<1>19. \A dir : Abstract!ErrorEntry(dir) = ErrorEntry(dir)
  BY <1>1 DEF Abstract!ErrorEntry, ErrorEntry
<1>20. /\ \A list, streamed : Abstract!ReadOk(list, streamed) = ReadOk(list, streamed)
       /\ Abstract!ReadErr = ReadErr
  BY DEF Abstract!ReadOk, ReadOk, Abstract!ReadErr, ReadErr
<1>21. \A spec, depth, fault : Abstract!Partial(spec, depth, fault) = Partial(spec, depth, fault)
  BY <1>1, <1>18, <1>19, <1>20 DEF Abstract!Partial, Partial
<1>22. \A err : Abstract!IsTransientIoError(err) <=> IsTransientIoError(err)
  BY DEF Abstract!IsTransientIoError, IsTransientIoError, Abstract!TransientCodes,
         TransientCodes, Abstract!NoCode, NoCode
<1>23. \A fault, attempt : Abstract!AttemptFails(fault, attempt) <=> AttemptFails(fault, attempt)
  BY DEF Abstract!AttemptFails, AttemptFails
<1>24. \A spec, depth, fault, first :
         Abstract!RetryTransientIo(spec, depth, fault, first)
         = RetryTransientIo(spec, depth, fault, first)
  BY <1>18, <1>20, <1>21, <1>22, <1>23 DEF Abstract!RetryTransientIo, RetryTransientIo
<1>25. \A spec, depth, fault :
         Abstract!CoreReadDir(spec, depth, fault) = CoreReadDir(spec, depth, fault)
  BY <1>20, <1>24 DEF Abstract!CoreReadDir, CoreReadDir, Abstract!TooDeep, TooDeep
<1> QED BY <1>4, <1>5, <1>6, <1>8, <1>10, <1>13, <1>14, <1>15, <1>25

(***************************************************************************)
(* On every file tree, whatever goes wrong with its directories, the walk  *)
(* with Parallelism::Serial yields what WalkSpec promises: each directory  *)
(* that DirEntryIter meets is followed by the result of reading that very  *)
(* directory, though ReadDirIter::Walk only pops what is on top of its own *)
(* stack.                                                                  *)
(***************************************************************************)
THEOREM SerialKeepsPromise == Serial => KeepsPromise
<1> DEFINE walkVars == <<read_dir_results_stack, output, faults>>
<1>1. SerialInit => Abstract!WalkInit
  <2> SUFFICES ASSUME SerialInit PROVE Abstract!WalkInit OBVIOUS
  <2>1. Abstract!Errors = Errors
    BY DEF Abstract!Errors, Errors, Abstract!EAGAIN, EAGAIN, Abstract!EIO, EIO,
           Abstract!ESTALE, ESTALE, Abstract!SharingViolation, SharingViolation,
           Abstract!NulInName, NulInName, Abstract!NoCode, NoCode
  <2>2. Abstract!Faults = Faults BY <2>1 DEF Abstract!Faults, Faults
  <2>3. faults \in [Dirs -> Faults] BY FaultAssumption DEF SerialInit
  <2>4. Abstract!IterInit BY SameOperators DEF SerialInit
  <2> QED BY <2>2, <2>3, <2>4 DEF Abstract!WalkInit
<1>2. SerialInv /\ [SerialNext]_serialVars => [Abstract!WalkNext]_walkVars
  <2> SUFFICES ASSUME SerialInv, [SerialNext]_serialVars
               PROVE  [Abstract!WalkNext]_walkVars
    OBVIOUS
  <2>1. CASE UNCHANGED serialVars BY <2>1 DEF serialVars
  <2>2. CASE PopList /\ UNCHANGED <<faults, read_dir_spec_stack>>
    BY <2>2, SameOperators DEF Abstract!WalkNext
  <2>3. CASE YieldEntry /\ UNCHANGED <<faults, read_dir_spec_stack>>
    BY <2>3, SameOperators DEF Abstract!WalkNext
  <2>4. CASE ReadNext
    <3>1. PICK result :
             /\ result = CoreReadDir(ReadDirSpec(NextEntry), NextEntry.depth, faults[NextEntry.dir])
             /\ YieldDirectory(result)
      BY <2>4, ReadsNextEntry
    <3>2. result \in Abstract!Promised(Abstract!NextEntry)
      BY <3>1, SameOperators DEF Abstract!Promised
    <3>3. AtDirectory /\ faults' = faults BY <2>4 DEF ReadNext
    <3>4. Abstract!AtDirectory /\ Abstract!YieldDirectory(result) BY <3>1, <3>3, SameOperators
    <3> QED BY <3>2, <3>3, <3>4 DEF Abstract!WalkNext
  <2> QED BY <2>1, <2>2, <2>3, <2>4 DEF SerialNext, SerialStep
<1> QED BY <1>1, <1>2, SerialInitInv, SerialNextInv, PTL
        DEF Serial, KeepsPromise, Abstract!Walk

\* On every file tree the stack of specs is exactly the directories still
\* ahead of DirEntryIter, the next one on top.
THEOREM SerialStacksAgree == Serial => []StacksAgree
<1>1. SerialInv => StacksAgree BY AlignedAgree DEF SerialInv
<1> QED BY <1>1, SerialInitInv, SerialNextInv, PTL DEF Serial

------------------------------------------------------------------------------
(* Nothing twice *)

\* What next() may yield for an entry itself.
Own(entry) ==
    {[name |-> entry.name, error |-> e] : e \in IF entry.type = "error" THEN {TRUE} ELSE BOOLEAN}

\* What next() may still yield for an entry and what is below it.
Claims(under, x) == Own(x) \cup (IF ReadsChildren(x) THEN under[x.dir] ELSE {})

\* An entry that is gone into is not below itself, and knows its ancestors.
Placed(under, up, x) ==
    ReadsChildren(x) =>
        /\ x.dir \in Dirs /\ x.depth \in Nat
        /\ [name |-> x.name, error |-> FALSE] \notin under[x.dir]
        /\ FollowLinks => up[x.dir] \subseteq x.follow_link_ancestors \cup {Identity(x)}

\* A listing of d, or what is left of it.
ListingOf(under, up, list, d) ==
    /\ \A i \in DOMAIN list : Placed(under, up, list[i]) /\ Claims(under, list[i]) \subseteq under[d]
    /\ \A i, j \in DOMAIN list : i # j => Claims(under, list[i]) \cap Claims(under, list[j]) = {}

\* The entries of a directory claim different items below it, and none claims
\* the error of its listing.
LEMMA EntriesOnce ==
    ASSUME NEW under, NEW up, IsTree(under, up), NEW spec, NEW d \in Dirs, d = spec.dir,
           NEW depth \in Nat \ {0}, FollowLinks => up[d] \subseteq Ancestors(spec),
           NEW E, E = Entries(spec, depth)
    PROVE  /\ ListingOf(under, up, E, d)
           /\ \A n \in DOMAIN E : [name |-> d, error |-> TRUE] \notin Claims(under, E[n])
<1> DEFINE raw(n) == Listing[d][n]
           entry(n) == AtDepth(raw(n), depth, Ancestors(spec))
<1>1. DOMAIN Listing[d] = 1 .. Len(Listing[d]) BY ListingAssumption, LenProperties
<1>2. /\ \A n, m \in DOMAIN Listing[d] : raw(n).name = raw(m).name => n = m
      /\ \A n \in DOMAIN Listing[d] : IsWay(up, d, n) =>
            /\ \A m \in DOMAIN Listing[d] : \A e \in BOOLEAN :
                  [name |-> raw(m).name, error |-> e] \in under[raw(n).dir] => m = n
            /\ \A m \in DOMAIN Listing[d] : IsWay(up, d, m) /\ m # n =>
                  under[raw(n).dir] \cap under[raw(m).dir] = {}
  BY DEF IsTree
<1>3. DOMAIN E = DOMAIN Listing[d] /\ \A n \in DOMAIN E : E[n] = FollowSymlink(entry(n))
  BY <1>1 DEF Entries
<1>4. ASSUME NEW n \in DOMAIN E
      PROVE  /\ E[n].name = raw(n).name /\ E[n].depth = depth
             /\ E[n].follow_link_ancestors = Ancestors(spec)
             /\ ReadsChildren(E[n]) => /\ E[n].dir = raw(n).dir /\ raw(n).dir \in Dirs
                                       /\ IsWay(up, d, n)
                                       /\ Identity(E[n]) = Identity(raw(n))
  <2>1. PICK a, x, y : a = raw(n) /\ x = entry(n) /\ y = E[n] OBVIOUS
  <2>2. /\ x.name = a.name /\ x.type = a.type /\ x.dir = a.dir /\ x.depth = depth
        /\ x.follow_link_ancestors = Ancestors(spec)
    BY <2>1 DEF AtDepth
  <2>3. [x EXCEPT !.type = "error"] = [name |-> a.name, type |-> "error", dir |-> a.dir, depth |-> depth,
                                       follow_link_ancestors |-> Ancestors(spec)]
    BY <2>1 DEF AtDepth
  <2>4. y = FollowSymlink(x) BY <1>3, <2>1
  <2>5. y = x \/ y = [x EXCEPT !.type = "error"] BY <2>4 DEF FollowSymlink
  <2>6. y.name = a.name /\ y.depth = depth /\ y.follow_link_ancestors = Ancestors(spec)
    BY <2>2, <2>3, <2>5
  <2>7. ASSUME ReadsChildren(y)
        PROVE  y.dir = a.dir /\ a.dir \in Dirs /\ IsWay(up, d, n) /\ Identity(y) = Identity(a)
    <3>1. y.type # "error" BY <2>7 DEF ReadsChildren
    <3>2. y = x BY <2>3, <2>5, <3>1
    <3>3. y.type = a.type /\ y.dir = a.dir /\ depth # 0 BY <2>2, <3>2
    <3>4. a.type \in {"dir", "unknown"} \/ (a.type = "link" /\ FollowLinks)
      BY <2>6, <2>7, <3>3 DEF ReadsChildren
    <3>5. a.dir \in Dirs
      <4>1. LeadsToDir(a) BY <1>3, <2>1, ListingAssumption
      <4> QED BY <3>4, <4>1 DEF LeadsToDir
    <3>6. a.type = "link" /\ FollowLinks => a.dir \notin up[d]
      <4>1. ASSUME a.type = "link", FollowLinks, a.dir \in up[d] PROVE FALSE
        <5>1. x.type = "link" /\ x.dir \in x.follow_link_ancestors BY <2>2, <4>1
        <5>2. y.type = "error" BY <2>3, <2>4, <4>1, <5>1 DEF FollowSymlink
        <5> QED BY <3>1, <5>2
      <4> QED BY <4>1
    <3>7. IsWay(up, d, n) BY <2>1, <3>4, <3>6 DEF IsWay
    <3>8. Identity(y) = Identity(a) BY <2>6, <3>3 DEF Identity
    <3> QED BY <3>3, <3>5, <3>7, <3>8
  <2> QED BY <2>1, <2>6, <2>7
<1> HIDE DEF entry
<1>5. ASSUME NEW n \in DOMAIN E PROVE Placed(under, up, E[n])
  <2> SUFFICES ASSUME ReadsChildren(E[n])
               PROVE  /\ E[n].dir \in Dirs /\ E[n].depth \in Nat
                      /\ [name |-> E[n].name, error |-> FALSE] \notin under[E[n].dir]
                      /\ FollowLinks => up[E[n].dir] \subseteq E[n].follow_link_ancestors \cup {Identity(E[n])}
    BY DEF Placed
  <2>1. n \in DOMAIN Listing[d] /\ IsWay(up, d, n) BY <1>3, <1>4
  <2>2. /\ up[raw(n).dir] \subseteq up[d] \cup {Identity(raw(n))}
        /\ [name |-> raw(n).name, error |-> FALSE] \notin under[raw(n).dir]
    BY <2>1 DEF IsTree
  <2> HIDE DEF raw
  <2> QED BY <1>4, <2>2
<1>6. ASSUME NEW n \in DOMAIN E PROVE Claims(under, E[n]) \subseteq under[d]
  <2>1. \A e \in BOOLEAN : [name |-> raw(n).name, error |-> e] \in under[d] BY <1>3 DEF IsTree
  <2>2. Own(E[n]) \subseteq under[d]
    <3>1. E[n].name = raw(n).name BY <1>4
    <3> HIDE DEF raw
    <3> QED BY <2>1, <3>1 DEF Own
  <2>3. ReadsChildren(E[n]) => under[E[n].dir] \subseteq under[d]
    <3>1. ReadsChildren(E[n]) => under[raw(n).dir] \subseteq under[d] BY <1>3, <1>4 DEF IsTree
    <3> QED BY <1>4, <3>1
  <2> QED BY <2>2, <2>3 DEF Claims
<1>7. ASSUME NEW n \in DOMAIN E PROVE \A y \in Own(E[n]) : \E e \in BOOLEAN : y = [name |-> raw(n).name, error |-> e]
  <2>1. E[n].name = raw(n).name BY <1>4
  <2> HIDE DEF raw
  <2> QED BY <2>1 DEF Own
<1>8. ASSUME NEW n \in DOMAIN E, NEW m \in DOMAIN E, n # m, ReadsChildren(E[n])
      PROVE  Own(E[m]) \cap under[E[n].dir] = {}
  <2>1. IsWay(up, d, n) /\ E[n].dir = raw(n).dir BY <1>4, <1>8
  <2>2. \A e \in BOOLEAN : [name |-> raw(m).name, error |-> e] \notin under[raw(n).dir]
    BY <1>2, <1>3, <1>8, <2>1
  <2> HIDE DEF raw
  <2> QED BY <1>7, <2>1, <2>2
<1>9. ASSUME NEW n \in DOMAIN E, NEW m \in DOMAIN E, n # m
      PROVE  Claims(under, E[n]) \cap Claims(under, E[m]) = {}
  <2>1. Own(E[n]) \cap Own(E[m]) = {}
    <3>1. raw(n).name # raw(m).name BY <1>2, <1>3, <1>9
    <3> HIDE DEF raw
    <3>2. SUFFICES ASSUME NEW y \in Own(E[n]), y \in Own(E[m]) PROVE FALSE OBVIOUS
    <3>3. y.name = raw(n).name BY <1>7
    <3>4. y.name = raw(m).name BY <1>7, <3>2
    <3> QED BY <3>1, <3>3, <3>4
  <2>2. ReadsChildren(E[n]) => Own(E[m]) \cap under[E[n].dir] = {} BY <1>8, <1>9
  <2>3. ReadsChildren(E[m]) => Own(E[n]) \cap under[E[m].dir] = {} BY <1>8, <1>9
  <2>4. ReadsChildren(E[n]) /\ ReadsChildren(E[m]) => under[E[n].dir] \cap under[E[m].dir] = {}
    <3>1. SUFFICES ASSUME ReadsChildren(E[n]), ReadsChildren(E[m]) PROVE under[E[n].dir] \cap under[E[m].dir] = {}
      OBVIOUS
    <3>2. IsWay(up, d, n) /\ E[n].dir = raw(n).dir BY <1>4, <3>1
    <3>3. IsWay(up, d, m) /\ E[m].dir = raw(m).dir BY <1>4, <3>1
    <3>4. under[raw(n).dir] \cap under[raw(m).dir] = {} BY <1>2, <1>3, <1>9, <3>2, <3>3
    <3> QED BY <3>2, <3>3, <3>4
  <2> QED BY <2>1, <2>2, <2>3, <2>4 DEF Claims
<1>10. ASSUME NEW n \in DOMAIN E PROVE [name |-> d, error |-> TRUE] \notin Claims(under, E[n])
  <2>1. raw(n).name # d BY <1>3 DEF IsTree
  <2>2. [name |-> d, error |-> TRUE] \notin Own(E[n])
    <3>1. E[n].name # d BY <1>4, <2>1
    <3> QED BY <3>1 DEF Own
  <2>3. ReadsChildren(E[n]) => [name |-> d, error |-> TRUE] \notin under[E[n].dir]
    <3>1. ReadsChildren(E[n]) => [name |-> d, error |-> TRUE] \notin under[raw(n).dir] BY <1>3, <1>4 DEF IsTree
    <3> QED BY <1>4, <3>1
  <2> QED BY <2>2, <2>3 DEF Claims
<1> QED BY <1>5, <1>6, <1>9, <1>10 DEF ListingOf

\* The places of a listing that breaks off: the error comes last.
LEMMA PartialPlaces ==
    ASSUME NEW S, NEW list \in Seq(S), NEW k \in 0 .. Len(list), NEW entry,
           NEW all, all = SubSeq(list, 1, k) \o <<entry>>
    PROVE  \A i \in DOMAIN all : (i = k + 1 /\ all[i] = entry) \/ (i \in DOMAIN list /\ all[i] = list[i])
<1> DEFINE front == SubSeq(list, 1, k)
<1>1. Len(list) \in Nat /\ DOMAIN list = 1 .. Len(list) BY LenProperties
<1>2. /\ k \in Nat /\ k - 1 + 1 = k /\ (~(1 <= k) => k = 0)
      /\ \A i \in 1 .. k : i \in 1 .. Len(list) /\ 1 + i - 1 = i
  BY <1>1
<1>3. \A i \in 1 .. k : list[i] \in S BY <1>1, <1>2
<1>4. /\ front \in Seq(S) /\ Len(front) = IF 1 <= k THEN k - 1 + 1 ELSE 0
      /\ \A i \in 1 .. (k - 1 + 1) : front[i] = list[1 + i - 1]
  BY <1>2, <1>3, SubSeqProperties
<1> HIDE DEF front
<1>5. Len(front) = k /\ \A i \in 1 .. k : front[i] = list[i] BY <1>2, <1>4
<1>6. all = Append(front, entry)
  <2>1. front \o <<entry>> = Append(front, entry) BY <1>4, AppendIsConcat
  <2> QED BY <2>1 DEF front
<1>7. /\ Len(all) = k + 1 /\ all \in Seq(S \cup {entry})
      /\ \A i \in 1 .. k : all[i] = front[i]
      /\ all[k + 1] = entry
  <2>1. front \in Seq(S \cup {entry}) BY <1>4, SeqMonotonic
  <2> QED BY <1>5, <1>6, <2>1, AppendProperties
<1>8. DOMAIN all = 1 .. (k + 1) BY <1>7, LenProperties
<1>9. ASSUME NEW i \in DOMAIN all
      PROVE  (i = k + 1 /\ all[i] = entry) \/ (i \in DOMAIN list /\ all[i] = list[i])
  <2>1. CASE i = k + 1 BY <1>7, <2>1
  <2>2. CASE i # k + 1
    <3>1. i \in 1 .. k BY <1>2, <1>8, <2>2
    <3> QED BY <1>1, <1>2, <1>5, <1>7, <3>1
  <2> QED BY <2>1, <2>2
<1> QED BY <1>9

\* So does what is left of the listing when it breaks off.
LEMMA PartialOnce ==
    ASSUME NEW under, NEW up, NEW S, NEW list \in Seq(S), NEW d, ListingOf(under, up, list, d),
           \A n \in DOMAIN list : [name |-> d, error |-> TRUE] \notin Claims(under, list[n]),
           [name |-> d, error |-> TRUE] \in under[d],
           NEW k \in 0 .. Len(list), NEW entry, entry.type = "error", entry.name = d
    PROVE  ListingOf(under, up, SubSeq(list, 1, k) \o <<entry>>, d)
<1> DEFINE all == SubSeq(list, 1, k) \o <<entry>>
           y == [name |-> d, error |-> TRUE]
<1>1. \A i \in DOMAIN all : (i = k + 1 /\ all[i] = entry) \/ (i \in DOMAIN list /\ all[i] = list[i])
  BY PartialPlaces
<1>2. ~ReadsChildren(entry) BY DEF ReadsChildren
<1>3. Own(entry) = {y} BY DEF Own
<1>4. Claims(under, entry) = {y} BY <1>2, <1>3 DEF Claims
<1>5. Placed(under, up, entry) BY <1>2 DEF Placed
<1> HIDE DEF all
<1>6. ASSUME NEW i \in DOMAIN all PROVE Placed(under, up, all[i]) /\ Claims(under, all[i]) \subseteq under[d]
  <2>1. CASE all[i] = entry BY <1>4, <1>5, <2>1
  <2>2. CASE i \in DOMAIN list /\ all[i] = list[i] BY <2>2 DEF ListingOf
  <2> QED BY <1>1, <2>1, <2>2
<1> HIDE DEF y
<1>7. \A n \in DOMAIN list : Claims(under, list[n]) \cap Claims(under, entry) = {} BY <1>4 DEF y
<1>8. \A n, m \in DOMAIN list : n # m => Claims(under, list[n]) \cap Claims(under, list[m]) = {}
  BY DEF ListingOf
<1>9. ASSUME NEW i \in DOMAIN all, NEW j \in DOMAIN all, i # j
      PROVE  Claims(under, all[i]) \cap Claims(under, all[j]) = {}
  <2>1. CASE i = k + 1 /\ all[i] = entry
    <3>1. j \in DOMAIN list /\ all[j] = list[j] BY <1>1, <1>9, <2>1
    <3>2. Claims(under, list[j]) \cap Claims(under, entry) = {} BY <1>7, <3>1
    <3> QED BY <2>1, <3>1, <3>2
  <2>2. CASE i \in DOMAIN list /\ all[i] = list[i]
    <3>1. CASE j = k + 1 /\ all[j] = entry
      <4>1. Claims(under, list[i]) \cap Claims(under, entry) = {} BY <1>7, <2>2
      <4> QED BY <2>2, <3>1, <4>1
    <3>2. CASE j \in DOMAIN list /\ all[j] = list[j]
      <4>1. Claims(under, list[i]) \cap Claims(under, list[j]) = {} BY <1>8, <1>9, <2>2, <3>2
      <4> QED BY <2>2, <3>2, <4>1
    <3> QED BY <1>1, <3>1, <3>2
  <2> QED BY <1>1, <2>1, <2>2
<1>10. ListingOf(under, up, all, d) BY <1>6, <1>9 DEF ListingOf
<1> QED BY <1>10 DEF all

\* What reading a directory gives, whatever goes wrong.
LEMMA ReadOnce ==
    ASSUME NEW under, NEW up, IsTree(under, up), NEW x, Placed(under, up, x), ReadsChildren(x),
           NEW fault, MayBefall(fault, x.dir),
           NEW result, result = CoreReadDir(ReadDirSpec(x), x.depth, fault)
    PROVE  ListingOf(under, up, result.list, x.dir)
<1> DEFINE d == x.dir
           spec == ReadDirSpec(x)
           E == Entries(spec, x.depth + 1)
           P == Partial(spec, x.depth + 1, fault)
<1>1. d \in Dirs /\ x.depth \in Nat BY DEF Placed
<1>2. spec.dir = d /\ (FollowLinks => up[d] \subseteq Ancestors(spec))
  BY DEF Placed, Ancestors, ReadDirSpec
<1>3. x.depth + 1 \in Nat \ {0} BY <1>1
<1>4. E = Entries(spec, x.depth + 1) OBVIOUS
<1>5. [name |-> d, error |-> TRUE] \in under[d] BY <1>1 DEF IsTree
<1>6. Sound(E) /\ Len(E) = Len(Listing[d]) /\ Len(Listing[d]) \in Nat BY <1>1, <1>2, EntriesSound
<1>7. ReadOk(E, 0).list = E /\ ReadErr.list = <<>> /\ ReadOk(<<>>, 0).list = <<>> BY DEF ReadOk, ReadErr
<1> DEFINE entry == AtDepth(ErrorEntry(spec.dir), x.depth + 1, {})
<1>8. P.list = SubSeq(E, 1, fault.after) \o <<entry>> BY DEF Partial, ReadOk
<1>9. entry.type = "error" /\ entry.name = d BY <1>2 DEF AtDepth, ErrorEntry
<1>10. result \in {P, ReadOk(E, 0), ReadErr, ReadOk(<<>>, 0)} BY DEF CoreReadDir, RetryTransientIo
<1> HIDE DEF d, spec, E, P, entry
<1>11. /\ ListingOf(under, up, E, d)
       /\ \A n \in DOMAIN E : [name |-> d, error |-> TRUE] \notin Claims(under, E[n])
  BY <1>1, <1>2, <1>3, <1>4, EntriesOnce
<1>12. ListingOf(under, up, <<>>, d) BY DEF ListingOf
<1>13. ListingOf(under, up, P.list, d)
  <2>1. PICK S : E \in Seq(S) BY <1>6 DEF Sound
  <2>2. fault.after \in Nat /\ fault.after <= Len(Listing[d]) BY DEF MayBefall, Faults, d
  <2>3. fault.after \in 0 .. Len(E) BY <1>6, <2>2
  <2> QED BY <1>5, <1>8, <1>9, <1>11, <2>1, <2>3, PartialOnce
<1> QED BY <1>7, <1>10, <1>11, <1>12, <1>13 DEF d

\* The entries on the stack claim different items.
Apart(under, up, lists) ==
    /\ \A n \in DOMAIN lists : \A k \in DOMAIN lists[n] : Placed(under, up, lists[n][k])
    /\ \A n, m \in DOMAIN lists : \A k \in DOMAIN lists[n] : \A l \in DOMAIN lists[m] :
          n # m \/ k # l => Claims(under, lists[n][k]) \cap Claims(under, lists[m][l]) = {}

\* No entry on the stack claims this item.
Unclaimed(under, lists, y) ==
    \A n \in DOMAIN lists : \A k \in DOMAIN lists[n] : y \notin Claims(under, lists[n][k])

LEMMA PopApart ==
    ASSUME NEW under, NEW up, NEW S, NEW lists \in Seq(Seq(S)), lists # <<>>, lists[Len(lists)] = <<>>,
           Apart(under, up, lists), NEW next, next = SubSeq(lists, 1, Len(lists) - 1)
    PROVE  /\ Apart(under, up, next)
           /\ \A y : Unclaimed(under, lists, y) => Unclaimed(under, next, y)
<1>1. \A k \in DOMAIN next : k \in DOMAIN lists /\ next[k] = lists[k] BY PopAhead
<1> QED BY <1>1 DEF Apart, Unclaimed

\* A consumed entry's claims are free.
LEMMA ConsumeApart ==
    ASSUME NEW under, NEW up, NEW S, NEW lists \in Seq(Seq(S)), lists # <<>>, lists[Len(lists)] # <<>>,
           Apart(under, up, lists), NEW x, x = lists[Len(lists)][1], NEW next, next = Consume(lists)
    PROVE  /\ Placed(under, up, x)
           /\ \A y : Unclaimed(under, lists, y) => y \notin Claims(under, x)
           /\ Apart(under, up, next)
           /\ \A y : Unclaimed(under, lists, y) => Unclaimed(under, next, y)
           /\ \A y \in Claims(under, x) : Unclaimed(under, next, y)
<1> DEFINE N == Len(lists)
           top == lists[N]
           L == Len(top)
           at(n, k) == IF n = N THEN k + 1 ELSE k
<1>1. N \in Nat \ {0} /\ DOMAIN lists = 1 .. N BY EmptySeq, LenProperties
<1>2. N \in DOMAIN lists /\ top \in Seq(S) BY <1>1
<1>3. top # <<>> /\ L \in Nat \ {0} /\ DOMAIN top = 1 .. L BY <1>2, EmptySeq, LenProperties
<1>4. Len(Tail(top)) = L - 1 /\ Tail(top) \in Seq(S) /\ \A k \in 1 .. (L - 1) : Tail(top)[k] = top[k + 1]
  BY <1>2, <1>3, HeadTailProperties
<1>5. DOMAIN Tail(top) = 1 .. (L - 1) BY <1>4, LenProperties
<1>6. /\ DOMAIN next = DOMAIN lists /\ next[N] = Tail(top)
      /\ \A k \in DOMAIN lists : k # N => next[k] = lists[k]
  BY <1>2 DEF Consume
<1>7. 1 \in DOMAIN top BY <1>3
<1> HIDE DEF N
<1>8. ASSUME NEW n \in DOMAIN next, NEW k \in DOMAIN next[n]
      PROVE  /\ n \in DOMAIN lists /\ at(n, k) \in DOMAIN lists[n] /\ next[n][k] = lists[n][at(n, k)]
             /\ n # N \/ at(n, k) # 1
             /\ \A l \in DOMAIN next[n] : k # l => at(n, k) # at(n, l)
  <2>1. CASE n # N
    <3>1. at(n, k) = k /\ n \in DOMAIN lists /\ next[n] = lists[n] BY <1>6, <2>1
    <3>2. \A l : at(n, l) = l BY <2>1
    <3> HIDE DEF at
    <3> QED BY <2>1, <3>1, <3>2
  <2>2. CASE n = N
    <3>1. DOMAIN next[n] = 1 .. (L - 1) /\ k \in 1 .. (L - 1) BY <1>5, <1>6, <2>2
    <3> HIDE DEF L
    <3>2. k + 1 \in 1 .. L /\ k + 1 # 1 /\ \A l \in 1 .. (L - 1) : k # l => k + 1 # l + 1 BY <1>3, <3>1
    <3>3. \A l : at(n, l) = l + 1 BY <2>2
    <3>4. next[n][k] = top[k + 1] BY <1>4, <1>6, <2>2, <3>1
    <3> HIDE DEF at
    <3> QED BY <1>2, <1>3, <2>2, <3>1, <3>2, <3>3, <3>4
  <2> QED BY <2>1, <2>2
<1>9. x = lists[N][1] BY DEF N
<1> HIDE DEF top, at
<1>10. Placed(under, up, x) BY <1>2, <1>7, <1>9 DEF Apart, top
<1>11. \A y : Unclaimed(under, lists, y) => y \notin Claims(under, x) BY <1>2, <1>7, <1>9 DEF Unclaimed, top
<1>12. \A y : Unclaimed(under, lists, y) => Unclaimed(under, next, y) BY <1>8 DEF Unclaimed
<1>13. ASSUME NEW y \in Claims(under, x) PROVE Unclaimed(under, next, y)
  <2> SUFFICES ASSUME NEW n \in DOMAIN next, NEW k \in DOMAIN next[n] PROVE y \notin Claims(under, next[n][k])
    BY DEF Unclaimed
  <2>1. Claims(under, lists[n][at(n, k)]) \cap Claims(under, lists[N][1]) = {}
    BY <1>2, <1>7, <1>8 DEF Apart, top
  <2> QED BY <1>8, <1>9, <2>1
<1>14. \A n \in DOMAIN next : \A k \in DOMAIN next[n] : Placed(under, up, next[n][k]) BY <1>8 DEF Apart
<1>15. ASSUME NEW n \in DOMAIN next, NEW m \in DOMAIN next, NEW k \in DOMAIN next[n], NEW l \in DOMAIN next[m],
              n # m \/ k # l
       PROVE  Claims(under, next[n][k]) \cap Claims(under, next[m][l]) = {}
  <2>1. n # m \/ at(n, k) # at(m, l) BY <1>8, <1>15
  <2>2. Claims(under, lists[n][at(n, k)]) \cap Claims(under, lists[m][at(m, l)]) = {}
    BY <1>8, <2>1 DEF Apart
  <2> QED BY <1>8, <2>2
<1>16. Apart(under, up, next) BY <1>14, <1>15 DEF Apart
<1> QED BY <1>10, <1>11, <1>12, <1>13, <1>16

\* A listing goes on the stack when nothing else claims what is below its directory.
LEMMA PushApart ==
    ASSUME NEW under, NEW up, NEW S, NEW lists \in Seq(S), Apart(under, up, lists),
           NEW d, NEW list, ListingOf(under, up, list, d),
           \A y \in under[d] : Unclaimed(under, lists, y),
           NEW next, next = Append(lists, list)
    PROVE  /\ Apart(under, up, next)
           /\ \A y : Unclaimed(under, lists, y) /\ y \notin under[d] => Unclaimed(under, next, y)
<1> DEFINE N == Len(lists)
<1>1. N \in Nat /\ DOMAIN lists = 1 .. N BY LenProperties
<1>2. /\ DOMAIN next = 1 .. (N + 1)
      /\ next[N + 1] = list
      /\ \A n \in 1 .. N : next[n] = lists[n]
  <2>1. lists \in Seq(S \cup {list}) BY SeqMonotonic
  <2>2. next \in Seq(S \cup {list}) /\ Len(next) = N + 1 BY <2>1, AppendProperties
  <2> QED BY <1>1, <2>1, <2>2, AppendProperties, LenProperties
<1> HIDE DEF N
<1>3. \A n \in DOMAIN next : (n = N + 1 /\ next[n] = list) \/ (n \in DOMAIN lists /\ n # N + 1 /\ next[n] = lists[n])
  BY <1>1, <1>2
<1>4. \A k \in DOMAIN list : Placed(under, up, list[k]) /\ Claims(under, list[k]) \subseteq under[d]
  BY DEF ListingOf
<1>5. \A i, j \in DOMAIN list : i # j => Claims(under, list[i]) \cap Claims(under, list[j]) = {}
  BY DEF ListingOf
<1>6. ASSUME NEW n \in DOMAIN lists, NEW k \in DOMAIN lists[n], NEW l \in DOMAIN list
      PROVE  Claims(under, lists[n][k]) \cap Claims(under, list[l]) = {}
  <2>1. \A y \in under[d] : y \notin Claims(under, lists[n][k]) BY DEF Unclaimed
  <2>2. Claims(under, list[l]) \subseteq under[d] BY <1>4
  <2> QED BY <2>1, <2>2
<1>7. \A n \in DOMAIN next : \A k \in DOMAIN next[n] : Placed(under, up, next[n][k])
  BY <1>3, <1>4 DEF Apart
<1>8. ASSUME NEW n \in DOMAIN next, NEW m \in DOMAIN next, NEW k \in DOMAIN next[n], NEW l \in DOMAIN next[m],
             n # m \/ k # l
      PROVE  Claims(under, next[n][k]) \cap Claims(under, next[m][l]) = {}
  <2>1. CASE n = N + 1 /\ m = N + 1
    <3>1. next[n] = list /\ next[m] = list BY <1>3, <2>1
    <3>2. Claims(under, list[k]) \cap Claims(under, list[l]) = {} BY <1>5, <1>8, <2>1, <3>1
    <3> QED BY <3>1, <3>2
  <2>2. CASE n = N + 1 /\ m # N + 1
    <3>1. next[n] = list /\ next[m] = lists[m] /\ m \in DOMAIN lists BY <1>3, <2>2
    <3>2. Claims(under, lists[m][l]) \cap Claims(under, list[k]) = {} BY <1>6, <3>1
    <3> QED BY <3>1, <3>2
  <2>3. CASE n # N + 1 /\ m = N + 1
    <3>1. next[m] = list /\ next[n] = lists[n] /\ n \in DOMAIN lists BY <1>3, <2>3
    <3>2. Claims(under, lists[n][k]) \cap Claims(under, list[l]) = {} BY <1>6, <3>1
    <3> QED BY <3>1, <3>2
  <2>4. CASE n # N + 1 /\ m # N + 1
    <3>1. /\ next[n] = lists[n] /\ next[m] = lists[m] /\ n \in DOMAIN lists /\ m \in DOMAIN lists
      BY <1>3, <2>4
    <3>2. Claims(under, lists[n][k]) \cap Claims(under, lists[m][l]) = {} BY <1>8, <3>1 DEF Apart
    <3> QED BY <3>1, <3>2
  <2> QED BY <2>1, <2>2, <2>3, <2>4
<1>9. Apart(under, up, next) BY <1>7, <1>8 DEF Apart
<1>10. ASSUME NEW y, Unclaimed(under, lists, y), y \notin under[d] PROVE Unclaimed(under, next, y)
  <2>1. \A n \in DOMAIN lists : \A k \in DOMAIN lists[n] : y \notin Claims(under, lists[n][k])
    BY <1>10 DEF Unclaimed
  <2>2. \A k \in DOMAIN list : y \notin Claims(under, list[k]) BY <1>4, <1>10
  <2> QED BY <1>3, <2>1, <2>2 DEF Unclaimed
<1> QED BY <1>9, <1>10

\* What has been yielded is not claimed any more, and is different.
Yielded(under, lists, out) ==
    /\ \E T : out \in Seq(T)
    /\ \A i, j \in DOMAIN out : out[i] = out[j] => i = j
    /\ \A i \in DOMAIN out : Unclaimed(under, lists, out[i])

\* An item that was claimed and not yielded is not claimed once it is.
LEMMA YieldsOnce ==
    ASSUME NEW under, NEW lists, NEW out, Yielded(under, lists, out), NEW next,
           \A i \in DOMAIN out : Unclaimed(under, next, out[i]),
           NEW y, Unclaimed(under, next, y), \A i \in DOMAIN out : out[i] # y,
           NEW longer, longer = out \/ longer = Append(out, y)
    PROVE  Yielded(under, next, longer)
<1>1. PICK T : out \in Seq(T) BY DEF Yielded
<1>2. \A i, j \in DOMAIN out : out[i] = out[j] => i = j BY DEF Yielded
<1>3. CASE longer = out BY <1>1, <1>2, <1>3 DEF Yielded
<1>4. CASE longer = Append(out, y)
  <2> DEFINE N == Len(out)
  <2>1. N \in Nat /\ DOMAIN out = 1 .. N BY <1>1, LenProperties
  <2>2. /\ longer \in Seq(T \cup {y})
        /\ DOMAIN longer = 1 .. (N + 1)
        /\ longer[N + 1] = y
        /\ \A n \in 1 .. N : longer[n] = out[n]
    <3>1. out \in Seq(T \cup {y}) BY <1>1, SeqMonotonic
    <3>2. longer \in Seq(T \cup {y}) /\ Len(longer) = N + 1 BY <1>4, <3>1, AppendProperties
    <3> QED BY <1>4, <2>1, <3>1, <3>2, AppendProperties, LenProperties
  <2> HIDE DEF N
  <2>3. \A n \in DOMAIN longer : (n = N + 1 /\ longer[n] = y) \/ (n \in DOMAIN out /\ longer[n] = out[n])
    BY <2>1, <2>2
  <2>4. \A i, j \in DOMAIN longer : longer[i] = longer[j] => i = j BY <1>2, <2>3
  <2>5. \A i \in DOMAIN longer : Unclaimed(under, next, longer[i]) BY <2>3
  <2> QED BY <2>2, <2>4, <2>5 DEF Yielded
<1> QED BY <1>3, <1>4

(***************************************************************************)
(* The inductive invariant: the entries on the stack stand for different   *)
(* items, none of them yielded yet.                                        *)
(***************************************************************************)
OnceInv(under, up) ==
    Apart(under, up, read_dir_results_stack) /\ Yielded(under, read_dir_results_stack, output)

LEMMA OnceInit ==
    ASSUME NEW under, NEW up, IsTree(under, up), SerialInit
    PROVE  OnceInv(under, up)
<1> DEFINE e == RootDirEntry
           lists == <<<<e>>>>
<1>1. read_dir_results_stack = lists /\ output = <<>> BY DEF SerialInit, IterInit
<1>2. /\ e.name = RootEntry.name /\ e.dir = RootEntry.dir /\ e.depth = 0
      /\ FollowLinks => e.follow_link_ancestors = {Identity(RootEntry)}
  BY RootFacts
<1>3. ReadsChildren(e) => e.dir \in Dirs /\ Identity(e) = Identity(RootEntry)
  BY RootFacts DEF Identity
<1>4. Placed(under, up, e)
  <2>1. [name |-> e.name, error |-> FALSE] \notin under[e.dir] /\ up[e.dir] \subseteq {Identity(RootEntry)}
    BY <1>2 DEF IsTree
  <2> QED BY <1>2, <1>3, <2>1 DEF Placed
<1>5. DOMAIN lists = {1} /\ DOMAIN lists[1] = {1} /\ lists[1][1] = e OBVIOUS
<1> HIDE DEF e, lists
<1>6. Apart(under, up, lists) BY <1>4, <1>5 DEF Apart
<1>7. <<>> \in Seq({}) /\ DOMAIN <<>> = {} OBVIOUS
<1>8. Yielded(under, lists, <<>>) BY <1>7 DEF Yielded
<1> QED BY <1>1, <1>6, <1>8 DEF OnceInv

LEMMA OnceNext ==
    ASSUME NEW under, NEW up, IsTree(under, up), SerialInv, OnceInv(under, up), [SerialNext]_serialVars
    PROVE  OnceInv(under, up)'
<1> DEFINE lists == read_dir_results_stack
           N == Len(lists)
           x == lists[N][1]
           next == Consume(lists)
<1>1. PICK S : lists \in Seq(Seq(S)) BY DEF SerialInv, InStep
<1>2. Apart(under, up, lists) /\ Yielded(under, lists, output) BY DEF OnceInv
<1>3. CASE UNCHANGED serialVars BY <1>2, <1>3 DEF serialVars, OnceInv
<1>4. CASE PopList /\ UNCHANGED <<faults, read_dir_spec_stack>>
  <2>1. lists # <<>> /\ lists[N] = <<>> /\ lists' = SubSeq(lists, 1, N - 1) /\ output' = output
    BY <1>4 DEF PopList, TopList
  <2>2. Apart(under, up, lists') /\ \A y : Unclaimed(under, lists, y) => Unclaimed(under, lists', y)
    BY <1>1, <1>2, <2>1, PopApart
  <2>3. Yielded(under, lists', output') BY <1>2, <2>1, <2>2 DEF Yielded
  <2> QED BY <2>2, <2>3 DEF OnceInv
<1>5. ASSUME HasEntry, NextEntry = x
      PROVE  /\ Consumed = next /\ lists # <<>> /\ lists[N] # <<>>
             /\ Placed(under, up, x)
             /\ Apart(under, up, next)
             /\ \A i \in DOMAIN output : output[i] \notin Claims(under, x) /\ Unclaimed(under, next, output[i])
             /\ \A y \in Claims(under, x) : Unclaimed(under, next, y)
  <2>1. lists # <<>> /\ lists[N] # <<>> BY <1>5 DEF HasEntry, TopList
  <2>2. Consumed = next BY DEF Consumed, Consume
  <2>3. /\ Placed(under, up, x)
        /\ \A y : Unclaimed(under, lists, y) => y \notin Claims(under, x)
        /\ Apart(under, up, next)
        /\ \A y : Unclaimed(under, lists, y) => Unclaimed(under, next, y)
        /\ \A y \in Claims(under, x) : Unclaimed(under, next, y)
    BY <1>1, <1>2, <2>1, ConsumeApart
  <2> HIDE DEF next, x
  <2> QED BY <1>2, <2>1, <2>2, <2>3 DEF Yielded
<1>6. HasEntry => NextEntry = x BY DEF HasEntry, TopList, NextEntry
<1> HIDE DEF next, x, N
<1>7. CASE YieldEntry /\ UNCHANGED <<faults, read_dir_spec_stack>>
  <2> DEFINE y == [name |-> x.name, error |-> x.type = "error"]
  <2>1. HasEntry /\ NextEntry = x /\ lists' = Consumed BY <1>6, <1>7 DEF YieldEntry
  <2>2. output' = output \/ output' = Append(output, y) BY <1>7, <2>1 DEF YieldEntry, Yield
  <2>3. y \in Claims(under, x) BY DEF Claims, Own
  <2> HIDE DEF y
  <2>4. lists' = next /\ Apart(under, up, lists') BY <1>5, <2>1
  <2>5. /\ \A i \in DOMAIN output : output[i] # y /\ Unclaimed(under, lists', output[i])
        /\ Unclaimed(under, lists', y)
    BY <1>5, <2>1, <2>3, <2>4
  <2>6. Yielded(under, lists', output') BY <1>2, <2>2, <2>5, YieldsOnce
  <2> QED BY <2>4, <2>6 DEF OnceInv
<1>8. CASE ReadNext
  <2>1. HasEntry /\ NextEntry = x /\ ReadsChildren(x) BY <1>6, <1>8 DEF ReadNext, AtDirectory
  <2>2. PICK result : /\ result = CoreReadDir(ReadDirSpec(x), x.depth, faults[x.dir])
                      /\ YieldDirectory(result)
    BY <1>8, <2>1, ReadsNextEntry
  <2> DEFINE y == [name |-> x.name, error |-> ~result.ok]
  <2>3. output' = output \/ output' = Append(output, y) BY <2>1, <2>2 DEF YieldDirectory, Yield
  <2>4. /\ Consumed = next
        /\ Placed(under, up, x)
        /\ Apart(under, up, next)
        /\ \A i \in DOMAIN output : output[i] \notin Claims(under, x) /\ Unclaimed(under, next, output[i])
        /\ \A z \in Claims(under, x) : Unclaimed(under, next, z)
    BY <1>5, <2>1
  <2>5. y \in Claims(under, x)
    <3>1. x.type # "error" BY <2>1 DEF ReadsChildren
    <3>2. (~result.ok) \in BOOLEAN OBVIOUS
    <3> QED BY <3>1, <3>2 DEF Claims, Own
  <2>6. under[x.dir] \subseteq Claims(under, x) BY <2>1 DEF Claims
  <2>7. ListingOf(under, up, result.list, x.dir)
    <3>1. x.dir \in Dirs BY <2>1, <2>4 DEF Placed
    <3>2. MayBefall(faults[x.dir], x.dir) BY <3>1, FaultAssumption DEF SerialInv, MayBefall
    <3> QED BY <2>1, <2>2, <2>4, <3>2, ReadOnce
  <2>8. result.ok => y \notin under[x.dir]
    <3>1. result.ok => y = [name |-> x.name, error |-> FALSE] OBVIOUS
    <3>2. [name |-> x.name, error |-> FALSE] \notin under[x.dir] BY <2>1, <2>4 DEF Placed
    <3> HIDE DEF y
    <3> QED BY <3>1, <3>2
  <2> HIDE DEF y
  <2>9. \A i \in DOMAIN output : output[i] # y BY <2>4, <2>5
  <2>10. CASE result.ok
    <3>1. lists' = Append(next, result.list) BY <2>2, <2>4, <2>10 DEF YieldDirectory
    <3>2. next \in Seq(Seq(S))
      <4>1. lists # <<>> /\ lists[Len(lists)] # <<>> BY <1>5, <2>1 DEF N
      <4>2. 0 \in Nat => Consume(lists) \in Seq(Seq(S)) BY <1>1, <4>1, ConsumeAhead
      <4> QED BY <4>2 DEF next
    <3>3. \A z \in under[x.dir] : Unclaimed(under, next, z) BY <2>4, <2>6
    <3>4. /\ Apart(under, up, lists')
          /\ \A z : Unclaimed(under, next, z) /\ z \notin under[x.dir] => Unclaimed(under, lists', z)
      <4>1. PICK front, list, after, d :
               front = next /\ list = result.list /\ after = Append(front, list) /\ d = x.dir
        OBVIOUS
      <4>2. front \in Seq(Seq(S)) /\ Apart(under, up, front) BY <2>4, <3>2, <4>1
      <4>3. ListingOf(under, up, list, d) BY <2>7, <4>1
      <4>4. \A z \in under[d] : Unclaimed(under, front, z) BY <3>3, <4>1
      <4>5. Apart(under, up, after) BY <4>1, <4>2, <4>3, <4>4, PushApart
      <4>6. \A z : Unclaimed(under, front, z) /\ z \notin under[d] => Unclaimed(under, after, z)
        BY <4>1, <4>2, <4>3, <4>4, PushApart
      <4> QED BY <3>1, <4>1, <4>5, <4>6
    <3>5. \A i \in DOMAIN output : Unclaimed(under, lists', output[i]) BY <2>4, <2>6, <3>4
    <3>6. Unclaimed(under, lists', y) BY <2>4, <2>5, <2>8, <2>10, <3>4
    <3>7. Yielded(under, lists', output') BY <1>2, <2>3, <2>9, <3>5, <3>6, YieldsOnce
    <3> QED BY <3>4, <3>7 DEF OnceInv
  <2>11. CASE ~result.ok
    <3>1. lists' = next BY <2>2, <2>4, <2>11 DEF YieldDirectory
    <3>2. Yielded(under, lists', output') BY <1>2, <2>3, <2>4, <2>5, <2>9, <3>1, YieldsOnce
    <3> QED BY <2>4, <3>1, <3>2 DEF OnceInv
  <2> QED BY <2>10, <2>11
<1> QED BY <1>3, <1>4, <1>7, <1>8 DEF SerialNext, SerialStep

(***************************************************************************)
(* Where nothing but links to ancestors keeps the directories from being a *)
(* tree the walk with Parallelism::Serial yields no item twice, whatever   *)
(* goes wrong: follow_symlink turns each such link into an error.          *)
(***************************************************************************)
THEOREM YieldsNothingTwice == ASSUME TreeBesidesLoops PROVE Serial => []NothingTwice
<1>1. PICK under, up : IsTree(under, up) BY DEF TreeBesidesLoops
<1>2. SerialInit => OnceInv(under, up) BY <1>1, OnceInit
<1>3. SerialInv /\ OnceInv(under, up) /\ [SerialNext]_serialVars => OnceInv(under, up)' BY <1>1, OnceNext
<1>4. OnceInv(under, up) => NothingTwice BY DEF OnceInv, Yielded, NothingTwice
<1> QED BY <1>2, <1>3, <1>4, SerialInitInv, SerialNextInv, PTL DEF Serial
==============================================================================

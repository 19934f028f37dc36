---------------------------- MODULE ReadDirProofs ----------------------------
(***************************************************************************)
(* What reading a directory gives, for every file tree and every fault:    *)
(* lemmas for the proofs about the walks.                                  *)
(***************************************************************************)
EXTENDS DirEntryIter, OrderProofs

------------------------------------------------------------------------------
(* What reading a directory gives *)

\* A listing whose directories are directories: the walk can go into them.
Sound(list) ==
    /\ \E S : list \in Seq(S)
    /\ \A n \in DOMAIN list : ReadsChildren(list[n]) => list[n].dir \in Dirs

\* The walk starts with what was given as the root, or an error for it.
LEMMA RootFacts ==
    /\ RootDirEntry.name = RootEntry.name /\ RootDirEntry.dir = RootEntry.dir /\ RootDirEntry.depth = 0
    /\ FollowLinks => RootDirEntry.follow_link_ancestors = {Identity(RootEntry)}
    /\ ReadsChildren(RootDirEntry) => RootDirEntry.type = RootEntry.type /\ RootEntry.dir \in Dirs
<1> DEFINE root == AtDepth(RootEntry, 0, IF FollowLinks THEN {Identity(RootEntry)} ELSE {})
           err == [root EXCEPT !.type = "error"]
<1>1. /\ root.name = RootEntry.name /\ root.dir = RootEntry.dir /\ root.depth = 0
      /\ root.type = RootEntry.type
      /\ FollowLinks => root.follow_link_ancestors = {Identity(RootEntry)}
      /\ err.name = RootEntry.name /\ err.dir = RootEntry.dir /\ err.depth = 0 /\ err.type = "error"
      /\ FollowLinks => err.follow_link_ancestors = {Identity(RootEntry)}
  BY DEF AtDepth
<1>2. RootDirEntry = IF RootEntry.type = "broken" THEN err ELSE root BY DEF RootDirEntry
<1> HIDE DEF root, err
<1>3. ReadsChildren(RootDirEntry) => RootDirEntry.type = RootEntry.type BY <1>1, <1>2 DEF ReadsChildren
<1>4. ReadsChildren(RootDirEntry) => RootEntry.dir \in Dirs
  BY <1>3, ListingAssumption DEF ReadsChildren, LeadsToDir
<1> QED BY <1>1, <1>2, <1>3, <1>4

\* The whole listing of a directory is sound: following links makes errors of
\* some entries, and directories of none.
LEMMA EntriesSound ==
    ASSUME NEW spec, spec.dir \in Dirs, NEW depth
    PROVE  /\ Sound(Entries(spec, depth))
           /\ Len(Entries(spec, depth)) = Len(Listing[spec.dir])
           /\ Len(Listing[spec.dir]) \in Nat
<1> DEFINE list == Listing[spec.dir]
           L == Len(list)
           E == Entries(spec, depth)
<1>1. list \in Seq({list[n] : n \in DOMAIN list}) /\ \A n \in DOMAIN list : LeadsToDir(list[n])
  BY ListingAssumption
<1>2. L \in Nat /\ DOMAIN list = 1 .. L
  <2> HIDE DEF list
  <2> QED BY <1>1, LenProperties
<1>3. E = [n \in 1 .. L |-> FollowSymlink(AtDepth(list[n], depth, Ancestors(spec)))]
  BY DEF Entries
<1> HIDE DEF list, L, E
<1>4. E \in [1 .. L -> {FollowSymlink(AtDepth(list[n], depth, Ancestors(spec))) : n \in 1 .. L}]
  BY <1>3
<1>5. \E S : E \in Seq(S) BY <1>2, <1>4, SeqDef
<1>6. DOMAIN E = 1 .. L BY <1>3
<1>7. Len(E) = L BY <1>2, <1>5, <1>6
<1>8. ASSUME NEW n \in DOMAIN E, ReadsChildren(E[n]) PROVE E[n].dir \in Dirs
  <2> DEFINE entry == AtDepth(list[n], depth, Ancestors(spec))
  <2>1. E[n] = FollowSymlink(entry) BY <1>3, <1>6
  <2>2. entry.type = list[n].type /\ entry.dir = list[n].dir BY DEF AtDepth
  <2>3. [entry EXCEPT !.type = "error"].type = "error" BY DEF AtDepth
  <2> HIDE DEF entry
  <2>4. E[n] = entry BY <1>8, <2>1, <2>3 DEF FollowSymlink, ReadsChildren
  <2>5. LeadsToDir(list[n]) BY <1>1, <1>2, <1>6
  <2> QED BY <1>8, <2>2, <2>4, <2>5 DEF ReadsChildren, LeadsToDir
<1> QED BY <1>2, <1>5, <1>7, <1>8 DEF Sound, E, L, list

\* The items of a listing that breaks off, with the error at its end.
LEMMA PartialItems ==
    ASSUME NEW S, NEW list \in Seq(S), NEW k \in 0 .. Len(list), NEW entry,
           NEW all, all = SubSeq(list, 1, k) \o <<entry>>
    PROVE  /\ all \in Seq(S \cup {entry})
           /\ \A i \in DOMAIN all : all[i] = entry \/ (i \in DOMAIN list /\ all[i] = list[i])
<1> DEFINE front == SubSeq(list, 1, k)
<1>1. Len(list) \in Nat /\ DOMAIN list = 1 .. Len(list) BY LenProperties
<1>2. /\ k \in Nat /\ k - 1 + 1 = k /\ (~(1 <= k) => k = 0)
      /\ \A i \in 1 .. k : i \in 1 .. Len(list) /\ 1 + i - 1 = i
  BY <1>1
<1>3. \A i \in 1 .. k : list[i] \in S BY <1>1, <1>2
<1>4. /\ front \in Seq(S) /\ Len(front) = IF 1 <= k THEN k - 1 + 1 ELSE 0
      /\ \A i \in 1 .. (k - 1 + 1) : front[i] = list[1 + i - 1]
  BY <1>2, <1>3, SubSeqProperties
<1> HIDE DEF front
<1>5. Len(front) = k /\ \A i \in 1 .. k : front[i] = list[i] BY <1>2, <1>4
<1>6. front \in Seq(S \cup {entry}) BY <1>4, SeqMonotonic
<1>7. <<entry>> \in Seq(S \cup {entry}) /\ Len(<<entry>>) = 1 /\ <<entry>>[1] = entry OBVIOUS
<1>8. all = front \o <<entry>> BY DEF front
<1>9. /\ all \in Seq(S \cup {entry}) /\ Len(all) = k + 1
      /\ \A i \in 1 .. (k + 1) : all[i] = IF i <= k THEN front[i] ELSE <<entry>>[i - k]
  BY <1>5, <1>6, <1>7, <1>8, ConcatProperties
<1>10. DOMAIN all = 1 .. (k + 1) BY <1>9, LenProperties
<1>11. ASSUME NEW i \in DOMAIN all PROVE all[i] = entry \/ (i \in DOMAIN list /\ all[i] = list[i])
  <2>1. CASE i <= k
    <3>1. i \in 1 .. k BY <1>2, <1>10, <2>1
    <3> QED BY <1>1, <1>2, <1>5, <1>9, <1>10, <2>1, <3>1
  <2>2. CASE ~(i <= k)
    <3>1. i - k = 1 BY <1>2, <1>10, <2>2
    <3> QED BY <1>7, <1>9, <1>10, <2>2, <3>1
  <2> QED BY <2>1, <2>2
<1> QED BY <1>9, <1>11

\* It is sound, too.
LEMMA PartialSound ==
    ASSUME NEW list, Sound(list), NEW k \in 0 .. Len(list), NEW entry, entry.type = "error"
    PROVE  Sound(SubSeq(list, 1, k) \o <<entry>>)
<1> DEFINE all == SubSeq(list, 1, k) \o <<entry>>
<1>1. PICK S : list \in Seq(S) BY DEF Sound
<1>2. all = SubSeq(list, 1, k) \o <<entry>> OBVIOUS
<1> HIDE DEF all
<1>3. /\ all \in Seq(S \cup {entry})
      /\ \A i \in DOMAIN all : all[i] = entry \/ (i \in DOMAIN list /\ all[i] = list[i])
  BY <1>1, <1>2, PartialItems
<1>4. ~ReadsChildren(entry) BY DEF ReadsChildren
<1>5. Sound(all) BY <1>3, <1>4 DEF Sound
<1> QED BY <1>2, <1>5

\* A fault as the models have them: the listing breaks off in its midst.
MayBefall(fault, dir) == fault \in Faults /\ fault.after <= Len(Listing[dir])

\* What retry_transient_io comes to is a sound listing, or none.
LEMMA RetrySound ==
    ASSUME NEW spec, spec.dir \in Dirs, NEW fault, MayBefall(fault, spec.dir), NEW depth,
           NEW first, NEW result, result = RetryTransientIo(spec, depth, fault, first)
    PROVE  Sound(result.list) /\ (~result.ok => result.list = <<>>)
<1> DEFINE E == Entries(spec, depth + 1)
           P == Partial(spec, depth + 1, fault)
<1>1. Sound(<<>>)
  <2>1. <<>> \in Seq({}) /\ DOMAIN <<>> = {} OBVIOUS
  <2> QED BY <2>1 DEF Sound
<1>2. Sound(E) /\ Len(E) = Len(Listing[spec.dir]) /\ Len(Listing[spec.dir]) \in Nat
  BY EntriesSound
<1>3. fault.after \in 0 .. Len(E)
  <2>1. fault.after \in Nat BY DEF MayBefall, Faults
  <2> HIDE DEF E
  <2> QED BY <1>2, <2>1 DEF MayBefall
<1>4. ReadOk(E, 0).list = E /\ ReadOk(E, 0).ok /\ ReadErr.list = <<>> BY DEF ReadOk, ReadErr
<1>5. Sound(P.list) /\ P.ok
  <2> DEFINE entry == AtDepth(ErrorEntry(spec.dir), depth + 1, {})
  <2>1. entry.type = "error" BY DEF AtDepth, ErrorEntry
  <2>2. P.list = SubSeq(E, 1, fault.after) \o <<entry>> /\ P.ok BY DEF Partial, ReadOk
  <2> HIDE DEF E, P, entry
  <2> QED BY <1>2, <1>3, <2>1, <2>2, PartialSound
<1>6. result \in {P, ReadOk(E, 0), ReadErr} BY DEF RetryTransientIo
<1> HIDE DEF E, P
<1> QED BY <1>1, <1>2, <1>4, <1>5, <1>6

\* So is what the read callback gives, whatever goes wrong.
LEMMA ReadSound ==
    ASSUME NEW spec, spec.dir \in Dirs, NEW fault, MayBefall(fault, spec.dir), NEW depth,
           NEW result, result = CoreReadDir(spec, depth, fault)
    PROVE  Sound(result.list) /\ (~result.ok => result.list = <<>>)
<1>1. CASE TooDeep(depth)
  <2>1. <<>> \in Seq({}) /\ DOMAIN <<>> = {} OBVIOUS
  <2>2. Sound(<<>>) BY <2>1 DEF Sound
  <2>3. result.list = <<>> /\ result.ok BY <1>1 DEF CoreReadDir, ReadOk
  <2> QED BY <2>2, <2>3
<1>2. CASE ~TooDeep(depth)
  <2>1. result = RetryTransientIo(spec, depth, fault, 0) BY <1>2 DEF CoreReadDir
  <2> QED BY <2>1, RetrySound
<1> QED BY <1>1, <1>2

\* And what a streaming attempt comes to.  After having streamed subdirectories
\* the result says so.
LEMMA StreamingSound ==
    ASSUME NEW parent, parent.value.dir \in Dirs, NEW fault, MayBefall(fault, parent.value.dir),
           NEW n, NEW result, result = StreamingRead(parent, fault, n)
    PROVE  Sound(result.list) /\ (n > 0 => result.streamed = n)
<1> DEFINE E == Entries(parent.value, Depth(parent) + 1)
           X == ErrorEntry(parent.value.dir)
           T == RetryTransientIo(parent.value, Depth(parent), fault, 1)
<1>1. Sound(<<>>)
  <2>1. <<>> \in Seq({}) /\ DOMAIN <<>> = {} OBVIOUS
  <2> QED BY <2>1 DEF Sound
<1>2. Sound(E) BY EntriesSound
<1>3. Sound(<<X>>)
  <2>1. X.type = "error" BY DEF ErrorEntry, AtDepth
  <2>2. ~ReadsChildren(X) BY <2>1 DEF ReadsChildren
  <2> HIDE DEF X
  <2>3. <<X>> \in Seq({X}) /\ \A k \in DOMAIN <<X>> : <<X>>[k] = X OBVIOUS
  <2> QED BY <2>2, <2>3 DEF Sound
<1>4. Sound(T.list)
  <2> HIDE DEF T
  <2> QED BY RetrySound DEF T
<1>5. /\ ReadOk(E, n).list = E /\ ReadOk(E, n).streamed = n
      /\ ReadOk(<<X>>, n).list = <<X>> /\ ReadOk(<<X>>, n).streamed = n
      /\ ReadErr.list = <<>>
  BY DEF ReadOk, ReadErr
<1>6. \/ result \in {ReadOk(E, n), ReadOk(<<X>>, n)}
      \/ ~(n > 0) /\ result \in {T, ReadErr}
  BY DEF StreamingRead
<1> HIDE DEF E, X, T
<1> QED BY <1>1, <1>2, <1>3, <1>4, <1>5, <1>6

\* The entries that the walk goes into are a sequence.
LEMMA ChildrenSequence ==
    ASSUME NEW list, Sound(list)
    PROVE  Len(ReadChildren(list)) \in Nat /\ DOMAIN ReadChildren(list) = 1 .. Len(ReadChildren(list))
<1> DEFINE P == {n \in DOMAIN list : ReadsChildren(list[n])}
<1>1. PICK S : list \in Seq(S) BY DEF Sound
<1>2. P \in SUBSET (1 .. Len(list)) /\ Len(list) \in Nat BY <1>1, LenProperties
<1>3. ReadChildren(list) = [k \in 1 .. Cardinality(P) |-> list[InOrder(P)[k]]]
  BY DEF ReadChildren, ItemsAt
<1> HIDE DEF P
<1>4. Cardinality(P) \in Nat BY <1>2, InOrderOrders
<1> QED BY <1>3, <1>4

\* The number of subdirectories a streaming enumeration meets is a number.
LEMMA StreamLimitNat ==
    ASSUME NEW dir \in Dirs, NEW fault
    PROVE  StreamLimit(dir, fault) \in Nat
<1> DEFINE list == Listing[dir]
           P == {n \in DOMAIN list : /\ AttemptFails(fault, 0) => n <= fault.after
                                     /\ IsStreamed(list[n])}
<1>1. list \in Seq({list[n] : n \in DOMAIN list}) BY ListingAssumption
<1>2. P \in SUBSET (1 .. Len(list)) /\ Len(list) \in Nat
  <2> HIDE DEF list
  <2> QED BY <1>1, LenProperties
<1>3. StreamLimit(dir, fault) = Cardinality(P) BY DEF StreamLimit
<1> HIDE DEF P, list
<1> QED BY <1>2, <1>3, InOrderOrders

------------------------------------------------------------------------------
(* Where the entries of a listing lead *)

\* The walk goes only where the entry at the same position of d leads.
LeadsAs(list, d) ==
    \A n \in DOMAIN list :
        ReadsChildren(list[n]) =>
            n \in DOMAIN Listing[d] /\ GoesInto(Listing[d][n]) /\ list[n].dir = Listing[d][n].dir

LEMMA EntriesLead ==
    ASSUME NEW spec, spec.dir \in Dirs, NEW depth, depth # 0
    PROVE  LeadsAs(Entries(spec, depth), spec.dir)
<1> DEFINE list == Listing[spec.dir]
           L == Len(list)
           E == Entries(spec, depth)
<1>1. list \in Seq({list[n] : n \in DOMAIN list}) BY ListingAssumption
<1>2. L \in Nat /\ DOMAIN list = 1 .. L
  <2> HIDE DEF list
  <2> QED BY <1>1, LenProperties
<1>3. E = [n \in 1 .. L |-> FollowSymlink(AtDepth(list[n], depth, Ancestors(spec)))] BY DEF Entries
<1> HIDE DEF L, E
<1>4. ASSUME NEW n \in DOMAIN E, ReadsChildren(E[n])
      PROVE  n \in DOMAIN list /\ GoesInto(list[n]) /\ E[n].dir = list[n].dir
  <2> DEFINE entry == AtDepth(list[n], depth, Ancestors(spec))
  <2>1. E[n] = FollowSymlink(entry) /\ n \in DOMAIN list BY <1>2, <1>3
  <2>2. entry.type = list[n].type /\ entry.dir = list[n].dir /\ entry.depth = depth BY DEF AtDepth
  <2>3. [entry EXCEPT !.type = "error"].type = "error" BY DEF AtDepth
  <2> HIDE DEF entry
  <2>4. E[n] = entry BY <1>4, <2>1, <2>3 DEF FollowSymlink, ReadsChildren
  <2> QED BY <1>4, <2>1, <2>2, <2>4 DEF ReadsChildren, GoesInto
<1> QED BY <1>4 DEF LeadsAs, E

LEMMA PartialLeads ==
    ASSUME NEW list, Sound(list), NEW d, LeadsAs(list, d), NEW k \in 0 .. Len(list),
           NEW entry, entry.type = "error"
    PROVE  LeadsAs(SubSeq(list, 1, k) \o <<entry>>, d)
<1> DEFINE all == SubSeq(list, 1, k) \o <<entry>>
<1>1. PICK S : list \in Seq(S) BY DEF Sound
<1>2. all = SubSeq(list, 1, k) \o <<entry>> OBVIOUS
<1> HIDE DEF all
<1>3. \A i \in DOMAIN all : all[i] = entry \/ (i \in DOMAIN list /\ all[i] = list[i])
  BY <1>1, <1>2, PartialItems
<1>4. ~ReadsChildren(entry) BY DEF ReadsChildren
<1>5. LeadsAs(all, d) BY <1>3, <1>4 DEF LeadsAs
<1> QED BY <1>2, <1>5

LEMMA RetryLeads ==
    ASSUME NEW spec, spec.dir \in Dirs, NEW fault, MayBefall(fault, spec.dir), NEW depth, depth + 1 # 0,
           NEW first, NEW result, result = RetryTransientIo(spec, depth, fault, first)
    PROVE  LeadsAs(result.list, spec.dir)
<1> DEFINE E == Entries(spec, depth + 1)
           P == Partial(spec, depth + 1, fault)
<1>1. LeadsAs(<<>>, spec.dir) BY DEF LeadsAs
<1>2. Sound(E) /\ Len(E) = Len(Listing[spec.dir]) /\ Len(Listing[spec.dir]) \in Nat
  BY EntriesSound
<1>3. LeadsAs(E, spec.dir) BY EntriesLead
<1>4. fault.after \in 0 .. Len(E)
  <2>1. fault.after \in Nat BY DEF MayBefall, Faults
  <2> HIDE DEF E
  <2> QED BY <1>2, <2>1 DEF MayBefall
<1>5. ReadOk(E, 0).list = E /\ ReadErr.list = <<>> BY DEF ReadOk, ReadErr
<1>6. LeadsAs(P.list, spec.dir)
  <2> DEFINE entry == AtDepth(ErrorEntry(spec.dir), depth + 1, {})
  <2>1. entry.type = "error" BY DEF AtDepth, ErrorEntry
  <2>2. P.list = SubSeq(E, 1, fault.after) \o <<entry>> BY DEF Partial, ReadOk
  <2> HIDE DEF E, P, entry
  <2> QED BY <1>2, <1>3, <1>4, <2>1, <2>2, PartialLeads
<1>7. result \in {P, ReadOk(E, 0), ReadErr} BY DEF RetryTransientIo
<1> HIDE DEF E, P
<1> QED BY <1>1, <1>3, <1>5, <1>6, <1>7

\* The results of the two ways to read a directory.
LEMMA ReadLeads ==
    ASSUME NEW spec, spec.dir \in Dirs, NEW fault, MayBefall(fault, spec.dir), NEW depth, depth + 1 # 0,
           NEW result, result = CoreReadDir(spec, depth, fault)
    PROVE  LeadsAs(result.list, spec.dir)
<1>1. CASE TooDeep(depth)
  <2>1. result.list = <<>> BY <1>1 DEF CoreReadDir, ReadOk
  <2> QED BY <2>1 DEF LeadsAs
<1>2. CASE ~TooDeep(depth)
  <2>1. result = RetryTransientIo(spec, depth, fault, 0) BY <1>2 DEF CoreReadDir
  <2> QED BY <2>1, RetryLeads
<1> QED BY <1>1, <1>2

LEMMA StreamingLeads ==
    ASSUME NEW parent, parent.value.dir \in Dirs, Depth(parent) + 1 # 0,
           NEW fault, MayBefall(fault, parent.value.dir),
           NEW n, NEW result, result = StreamingRead(parent, fault, n)
    PROVE  LeadsAs(result.list, parent.value.dir)
<1> DEFINE d == parent.value.dir
           E == Entries(parent.value, Depth(parent) + 1)
           X == ErrorEntry(d)
           T == RetryTransientIo(parent.value, Depth(parent), fault, 1)
<1>1. LeadsAs(<<>>, d) BY DEF LeadsAs
<1>2. LeadsAs(E, d) BY EntriesLead
<1>3. LeadsAs(<<X>>, d)
  <2>1. X.type = "error" BY DEF ErrorEntry, AtDepth
  <2>2. ~ReadsChildren(X) BY <2>1 DEF ReadsChildren
  <2> HIDE DEF X
  <2>3. \A k \in DOMAIN <<X>> : <<X>>[k] = X OBVIOUS
  <2> QED BY <2>2, <2>3 DEF LeadsAs
<1>4. LeadsAs(T.list, d)
  <2> HIDE DEF T
  <2> QED BY RetryLeads DEF T
<1>5. /\ ReadOk(E, n).list = E /\ ReadOk(<<X>>, n).list = <<X>> /\ ReadErr.list = <<>>
  BY DEF ReadOk, ReadErr
<1>6. result \in {ReadOk(E, n), ReadOk(<<X>>, n), T, ReadErr} BY DEF StreamingRead
<1> HIDE DEF E, X, T
<1> QED BY <1>1, <1>2, <1>3, <1>4, <1>5, <1>6

\* The specs of the children lead where different entries lead.
LEMMA ChildrenLead ==
    ASSUME NEW list, Sound(list), NEW d, LeadsAs(list, d), NEW p
    PROVE  \E at \in [DOMAIN WeightedChildren(list, p) -> DOMAIN Listing[d]] :
              /\ \A i \in DOMAIN WeightedChildren(list, p) :
                    /\ GoesInto(Listing[d][at[i]])
                    /\ WeightedChildren(list, p)[i].value.dir = Listing[d][at[i]].dir
              /\ \A i, j \in DOMAIN WeightedChildren(list, p) : at[i] = at[j] => i = j
<1> DEFINE P == {n \in DOMAIN list : ReadsChildren(list[n])}
           c == Cardinality(P)
           at == InOrder(P)
           todo == WeightedChildren(list, p)
<1>1. PICK S : list \in Seq(S) BY DEF Sound
<1>2. P \in SUBSET (1 .. Len(list)) /\ Len(list) \in Nat BY <1>1, LenProperties
<1>3. ReadChildren(list) = [k \in 1 .. c |-> list[at[k]]] BY DEF ReadChildren, ItemsAt
<1>4. c \in Nat /\ at \in [1 .. c -> P] /\ \A j, k \in 1 .. c : j < k => at[j] < at[k]
  <2> HIDE DEF P
  <2> QED BY <1>2, InOrderOrders
<1>5. \A n \in P : n \in Nat BY <1>2
<1>6. \A n \in P : n \in DOMAIN Listing[d] /\ GoesInto(Listing[d][n]) /\ list[n].dir = Listing[d][n].dir
  BY DEF LeadsAs
<1> HIDE DEF P, c, at
<1>7. Len(ReadChildren(list)) = c /\ \A k \in 1 .. c : ReadChildren(list)[k] = list[at[k]] BY <1>3, <1>4
<1>8. DOMAIN todo = 1 .. c /\ \A k \in 1 .. c : todo[k].value.dir = list[at[k]].dir
  BY <1>7 DEF WeightedChildren, Weighted, ReadDirSpec
<1> HIDE DEF todo
<1>9. \A i, j \in 1 .. c : at[i] = at[j] => i = j
  <2>1. ASSUME NEW i \in 1 .. c, NEW j \in 1 .. c, at[i] = at[j] PROVE i = j
    <3>1. at[i] \in Nat /\ at[j] \in Nat BY <1>4, <1>5
    <3>2. ~(at[i] < at[j]) /\ ~(at[j] < at[i]) BY <2>1, <3>1
    <3>3. ~(i < j) /\ ~(j < i) BY <1>4, <3>2
    <3> QED BY <3>3
  <2> QED BY <2>1
<1>10. \A k \in 1 .. c : at[k] \in P BY <1>4
<1>11. at \in [DOMAIN todo -> DOMAIN Listing[d]] BY <1>4, <1>6, <1>8, <1>10
<1>12. \A i \in DOMAIN todo : GoesInto(Listing[d][at[i]]) /\ todo[i].value.dir = Listing[d][at[i]].dir
  BY <1>6, <1>8, <1>10
<1> QED BY <1>8, <1>9, <1>11, <1>12 DEF todo

\* So do those of the streamed subdirectories.
LEMMA StreamedLead ==
    ASSUME NEW d \in Dirs, NEW fault, NEW n \in Nat, n < StreamLimit(d, fault)
    PROVE  \E k \in DOMAIN Listing[d] :
              /\ GoesInto(Listing[d][k]) /\ StreamedDirs(d)[n + 1].dir = Listing[d][k].dir
              /\ \A m \in Nat : m < n =>
                    \E j \in DOMAIN Listing[d] :
                       /\ GoesInto(Listing[d][j]) /\ StreamedDirs(d)[m + 1].dir = Listing[d][j].dir
                       /\ j # k
<1> DEFINE list == Listing[d]
           A == {k \in DOMAIN list : IsStreamed(list[k])}
           P == {k \in DOMAIN list : /\ AttemptFails(fault, 0) => k <= fault.after
                                     /\ IsStreamed(list[k])}
           c == Cardinality(A)
           at == InOrder(A)
<1>1. list \in Seq({list[k] : k \in DOMAIN list}) BY ListingAssumption
<1>2. A \in SUBSET (1 .. Len(list)) /\ Len(list) \in Nat
  <2> HIDE DEF list
  <2> QED BY <1>1, LenProperties
<1>3. StreamLimit(d, fault) = Cardinality(P) /\ P \subseteq A BY DEF StreamLimit
<1>4. StreamedDirs(d) = [k \in 1 .. c |-> list[at[k]]] BY DEF StreamedDirs, ItemsAt
<1>5. \A k \in A : k \in DOMAIN list /\ GoesInto(list[k])
  BY DEF IsStreamed, StreamedTypes, GoesInto
<1> HIDE DEF A, P
<1>6. c \in Nat /\ at \in [1 .. c -> A] /\ \A j, k \in 1 .. c : j < k => at[j] < at[k]
  BY <1>2, InOrderOrders
<1>7. \A k \in A : k \in Nat BY <1>2
<1>8. IsFiniteSet(A)
  <2>1. IsFiniteSet(1 .. Len(list)) BY <1>2, FS_Interval
  <2> QED BY <1>2, <2>1, FS_Subset
<1>9. Cardinality(P) \in Nat /\ Cardinality(P) <= c BY <1>3, <1>8, FS_Subset, FS_CardinalityType
<1>10. n < c BY <1>3, <1>6, <1>9
<1> HIDE DEF c, at
<1>11. n + 1 \in 1 .. c /\ \A m \in Nat : m < n => m + 1 \in 1 .. c /\ m + 1 < n + 1 BY <1>6, <1>10
<1>12. \A m \in 1 .. c : /\ at[m] \in DOMAIN list /\ GoesInto(list[at[m]])
                         /\ StreamedDirs(d)[m].dir = list[at[m]].dir
  BY <1>4, <1>5, <1>6
<1>13. \A m \in Nat : m < n => at[m + 1] # at[n + 1]
  <2>1. ASSUME NEW m \in Nat, m < n PROVE at[m + 1] # at[n + 1]
    <3>1. at[m + 1] < at[n + 1] /\ at[m + 1] \in Nat BY <1>6, <1>7, <1>11, <2>1
    <3> QED BY <3>1
  <2> QED BY <2>1
<1>14. ASSUME NEW m \in Nat, m < n
       PROVE  \E j \in DOMAIN list :
                 GoesInto(list[j]) /\ StreamedDirs(d)[m + 1].dir = list[j].dir /\ j # at[n + 1]
  <2>1. m + 1 \in 1 .. c /\ at[m + 1] # at[n + 1] BY <1>11, <1>13, <1>14
  <2> QED BY <1>12, <2>1
<1>15. at[n + 1] \in DOMAIN list /\ GoesInto(list[at[n + 1]])
       /\ StreamedDirs(d)[n + 1].dir = list[at[n + 1]].dir
  BY <1>11, <1>12
<1> QED BY <1>14, <1>15
==============================================================================

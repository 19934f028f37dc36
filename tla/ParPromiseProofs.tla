--------------------------- MODULE ParPromiseProofs --------------------------
(***************************************************************************)
(* The parallel walk keeps the promise of WalkSpec: however the workers    *)
(* interleave, the caller is given each directory followed by its own      *)
(* contents, in depth-first order, and in the end nothing is left over.    *)
(***************************************************************************)
EXTENDS ParWalkProofs

------------------------------------------------------------------------------
(* The tree of the walk *)

\* What reading the directory of an entry gives, in the end.
ReadOf(f, entry) == CoreReadDir(ReadDirSpec(entry), entry.depth, f[entry.dir])

Kids(f, entry) == ReadChildren(ReadOf(f, entry).list)

\* The numbers of q lead along the entries e.
Leads(f, q, e) ==
    /\ q \in Seq(Nat) /\ q # <<>> /\ q[1] = 0
    /\ e[1] = RootDirEntry
    /\ \A k \in 2 .. Len(q) :
          /\ q[k] < Len(Kids(f, e[k - 1]))
          /\ e[k] = Kids(f, e[k - 1])[q[k] + 1]

Trail(f, q) == CHOOSE e : Leads(f, q, e)

OnTree(f, q) == Leads(f, q, Trail(f, q))

EntryAt(f, q) == Trail(f, q)[Len(q)]

\* The result of the directory at q.
ResultAt(f, q) ==
    [value |-> [dir |-> EntryAt(f, q).dir, ok |-> ReadOf(f, EntryAt(f, q)).ok,
                list |-> ReadOf(f, EntryAt(f, q)).list],
     index_path |-> q,
     child_count |-> Len(Kids(f, EntryAt(f, q)))]

TreePaths(f) == {q \in Seq(Nat) : OnTree(f, q)}

TreeResults(f) == {ResultAt(f, q) : q \in TreePaths(f)}

------------------------------------------------------------------------------
(* The inductive invariant *)

\* The specs pushed, and those a worker has still to push.
Known == issued \cup UNION {{task[w].todo[k] : k \in DOMAIN task[w].todo} : w \in Workers}

Path(q) == \E s \in Known : s.index_path = q

KidsKnown(q) == \A i \in Nat : i < ResultAt(faults, q).child_count => Path(Adding(q, i))

Named(s) ==
    OnTree(faults, s.index_path) /\ s.value = ReadDirSpec(EntryAt(faults, s.index_path))

WorkInv ==
    /\ \A s \in Known : Named(s)
    /\ \E s \in issued : s.index_path = <<0>>
    /\ \A s \in issued : \/ Waits(s)
                         \/ \E w \in Workers : AtWork(w) /\ item[w] = s
                         \/ ResultAt(faults, s.index_path) \in sent

TaskInv(w) ==
    /\ task[w].stage = "stream" =>
          /\ use_streaming
          /\ task[w].todo = <<>>
          /\ task[w].streamed <= StreamLimit(item[w].value.dir, DirFault(w))
          /\ \A i \in Nat : i < task[w].streamed => Path(Adding(item[w].index_path, i))
    /\ task[w].stage = "result" =>
          /\ OrderedResult(w) = ResultAt(faults, item[w].index_path)
          /\ KidsKnown(item[w].index_path)
    /\ task[w].stage = "schedule" => ResultAt(faults, item[w].index_path) \in sent

\* The result of a directory that a worker has, or is done with, and whose
\* subdirectories are known.
SentFrom(r) ==
    \E s \in issued :
        /\ r = ResultAt(faults, s.index_path)
        /\ KidsKnown(s.index_path)
        /\ ~Waits(s)
        /\ \A w \in Workers : AtWork(w) /\ item[w] = s => task[w].stage = "schedule"

SentInv == \A r \in sent : SentFrom(r)

WorkersInv ==
    /\ WorkInv
    /\ \A w \in Workers : AtWork(w) => TaskInv(w)
    /\ SentInv

WasReturned(r) == \E i \in DOMAIN returned : returned[i] = r

InResults(r) == \E k \in DOMAIN result_channel : result_channel[k] = r

IsSeq(s) == \E S : s \in Seq(S)

\* A result that was sent is at one place: in the channel, in the buffer, or
\* returned.
PlaceInv ==
    /\ IsSeq(result_channel) /\ IsSeq(returned)
    /\ \A i \in DOMAIN returned : returned[i] \in sent
    /\ result_buffer \subseteq sent
    /\ \A k \in DOMAIN result_channel : result_channel[k] \in sent /\ result_channel[k] \notin result_buffer
    /\ \A j, k \in DOMAIN result_channel : result_channel[j] = result_channel[k] => j = k
    /\ \A r \in sent : WasReturned(r) => r \notin result_buffer /\ ~InResults(r)
    /\ \A r \in sent : WasReturned(r) \/ r \in result_buffer \/ InResults(r)

\* The matcher looks for the path q of the tree, or for none.
Tracks(f, q, stack) ==
    /\ q \in Seq(Nat) /\ stack \in Seq(Nat) /\ Len(stack) = Len(q)
    /\ StackCounts(TreeResults(f), q, stack)

\* What is before looking_for was returned, and nothing else.
MatchInv ==
    /\ Tracks(faults, looking_for, child_count_stack)
    /\ \A q \in TreePaths(faults) :
          WasReturned(ResultAt(faults, q)) <=> looking_for = <<>> \/ Before(q, looking_for)

\* rest is all but the first n of all.
IsRest(rest, all, n) ==
    /\ n \in Nat
    /\ Len(all) = n + Len(rest)
    /\ \A i \in 1 .. Len(rest) : rest[i] = all[n + i]

\* The directories at level l of the path q, and how many of them were gone
\* into.
Siblings(f, q, l) ==
    IF l = 1 THEN <<RootDirEntry>> ELSE Kids(f, EntryAt(f, SubSeq(q, 1, l - 1)))

Gone(q, l) == q[l] + (IF l = Len(q) THEN 0 ELSE 1)

\* What is left to go into at each level of the caller's stack is what the
\* matcher expects there.
Follows(f, q, lists) ==
    /\ IsSeq(lists) /\ \A l \in 1 .. Len(lists) : IsSeq(lists[l])
    /\ Len(q) <= Len(lists)
    /\ \A l \in 1 .. Len(q) : IsRest(ReadChildren(lists[l]), Siblings(f, q, l), Gone(q, l))
    /\ \A l \in (Len(q) + 1) .. Len(lists) : Len(ReadChildren(lists[l])) = 0

StackInv == Follows(faults, looking_for, read_dir_results_stack)

WalkInv ==
    /\ WorkersInv
    /\ PlaceInv
    /\ MatchInv
    /\ StackInv

\* The stacks of a caller that never went into a directory.
RootStacks == {<<<<RootDirEntry>>>>, <<<<>>>>, <<>>}

EmptyInv ==
    /\ issued = {} /\ sent = {} /\ result_channel = <<>> /\ result_buffer = {}
    /\ read_dir_results_stack \in RootStacks

\* A worker leaves only when the iterator has answered None.
Leaves == \A w \in Workers : pc[w] = "exit" => fused

CallerInv ==
    /\ ~stop <=> iter \in {"starting", "expired", "closing", "alive"}
    /\ iter \in {"starting", "expired", "closing", "refusing"} =>
          read_dir_results_stack = <<<<RootDirEntry>>>>
    /\ iter = "refused" => read_dir_results_stack \in RootStacks
    /\ job = "dropped" => iter \in {"closing", "refusing", "refused"}
    /\ ~connected => JobDone
    /\ ~stop => at # "end"
    /\ Leaves

PromiseInv ==
    /\ ParInv
    /\ use_streaming \in StreamingModes
    /\ CallerInv
    /\ ~ReadsChildren(RootDirEntry) => EmptyInv
    /\ ReadsChildren(RootDirEntry) /\ ~stop => WalkInv

------------------------------------------------------------------------------
(* Reading a directory, once more: depths, and streaming *)

\* What the walk goes into from a listing is at the given depth.
AllAt(list, depth) == \A n \in DOMAIN list : ReadsChildren(list[n]) => list[n].depth = depth

LEMMA EntriesAt ==
    ASSUME NEW spec, NEW depth
    PROVE  AllAt(Entries(spec, depth), depth)
<1> DEFINE L == Len(Listing[spec.dir])
           entry(n) == AtDepth(Listing[spec.dir][n], depth, Ancestors(spec))
           E == Entries(spec, depth)
<1>1. E = [n \in 1 .. L |-> FollowSymlink(entry(n))] BY DEF Entries
<1>2. ASSUME NEW n \in DOMAIN E PROVE E[n].depth = depth
  <2>1. E[n] = FollowSymlink(entry(n)) BY <1>1
  <2>2. entry(n).depth = depth /\ [entry(n) EXCEPT !.type = "error"].depth = depth BY DEF AtDepth
  <2> HIDE DEF entry, E
  <2> QED BY <2>1, <2>2 DEF FollowSymlink
<1> QED BY <1>2 DEF AllAt

LEMMA RetryAt ==
    ASSUME NEW spec, spec.dir \in Dirs, NEW fault, MayBefall(fault, spec.dir), NEW depth,
           NEW first, NEW result, result = RetryTransientIo(spec, depth, fault, first)
    PROVE  AllAt(result.list, depth + 1)
<1> DEFINE E == Entries(spec, depth + 1)
           P == Partial(spec, depth + 1, fault)
<1>1. AllAt(<<>>, depth + 1) BY DEF AllAt
<1>2. Sound(E) /\ Len(E) = Len(Listing[spec.dir]) /\ Len(Listing[spec.dir]) \in Nat
  BY EntriesSound
<1>3. AllAt(E, depth + 1) BY EntriesAt
<1>4. fault.after \in 0 .. Len(E)
  <2>1. fault.after \in Nat BY DEF MayBefall, Faults
  <2> HIDE DEF E
  <2> QED BY <1>2, <2>1 DEF MayBefall
<1>5. ReadOk(E, 0).list = E /\ ReadErr.list = <<>> BY DEF ReadOk, ReadErr
<1>6. AllAt(P.list, depth + 1)
  <2> DEFINE entry == AtDepth(ErrorEntry(spec.dir), depth + 1, {})
  <2>1. entry.type = "error" BY DEF AtDepth, ErrorEntry
  <2>2. P.list = SubSeq(E, 1, fault.after) \o <<entry>> BY DEF Partial, ReadOk
  <2> HIDE DEF E, P, entry
  <2>3. ~ReadsChildren(entry) BY <2>1 DEF ReadsChildren
  <2>4. PICK S : E \in Seq(S) BY <1>2 DEF Sound
  <2> DEFINE all == P.list
             k == fault.after
  <2>5. all = SubSeq(E, 1, k) \o <<entry>> /\ k \in 0 .. Len(E) BY <1>4, <2>2
  <2> HIDE DEF all, k
  <2>6. \A i \in DOMAIN all : all[i] = entry \/ (i \in DOMAIN E /\ all[i] = E[i])
    BY <2>4, <2>5, PartialItems
  <2>7. AllAt(all, depth + 1) BY <1>3, <2>3, <2>6 DEF AllAt
  <2> QED BY <2>7 DEF all
<1>7. result \in {P, ReadOk(E, 0), ReadErr} BY DEF RetryTransientIo
<1> HIDE DEF E, P
<1> QED BY <1>1, <1>3, <1>5, <1>6, <1>7

LEMMA ReadAt ==
    ASSUME NEW spec, spec.dir \in Dirs, NEW fault, MayBefall(fault, spec.dir), NEW depth,
           NEW result, result = CoreReadDir(spec, depth, fault)
    PROVE  AllAt(result.list, depth + 1) /\ result.streamed = 0
<1>1. CASE TooDeep(depth)
  <2>1. result.list = <<>> /\ result.streamed = 0 BY <1>1 DEF CoreReadDir, ReadOk
  <2> QED BY <2>1 DEF AllAt
<1>2. CASE ~TooDeep(depth)
  <2>1. result = RetryTransientIo(spec, depth, fault, 0) BY <1>2 DEF CoreReadDir
  <2>2. result.streamed = 0 BY <2>1 DEF RetryTransientIo, Partial, ReadOk, ReadErr
  <2> QED BY <2>1, <2>2, RetryAt
<1> QED BY <1>1, <1>2

\* The items the walk goes into are items of the listing.
LEMMA ChildrenAre ==
    ASSUME NEW list, Sound(list)
    PROVE  /\ Len(ReadChildren(list)) \in Nat
           /\ DOMAIN ReadChildren(list) = 1 .. Len(ReadChildren(list))
           /\ ReadChildren(list) = [k \in 1 .. Len(ReadChildren(list)) |-> ReadChildren(list)[k]]
           /\ \A k \in 1 .. Len(ReadChildren(list)) :
                 \E n \in DOMAIN list : ReadChildren(list)[k] = list[n] /\ ReadsChildren(list[n])
<1> DEFINE P == {n \in DOMAIN list : ReadsChildren(list[n])}
           c == Cardinality(P)
           o == InOrder(P)
           R == ReadChildren(list)
<1>1. PICK S : list \in Seq(S) BY DEF Sound
<1>2. P \in SUBSET (1 .. Len(list)) /\ Len(list) \in Nat BY <1>1, LenProperties
<1>3. R = [k \in 1 .. c |-> list[o[k]]] BY DEF ReadChildren, ItemsAt
<1>4. \A n \in P : n \in DOMAIN list /\ ReadsChildren(list[n]) OBVIOUS
<1> HIDE DEF P
<1>5. c \in Nat /\ o \in [1 .. c -> P] BY <1>2, InOrderOrders
<1> HIDE DEF c, o, R
<1>6. Len(R) = c /\ DOMAIN R = 1 .. c BY <1>3, <1>5
<1>7. R = [k \in 1 .. c |-> R[k]] BY <1>3
<1>8. \A k \in 1 .. c : o[k] \in P /\ R[k] = list[o[k]] BY <1>3, <1>5
<1>9. \A k \in 1 .. c : \E n \in DOMAIN list : R[k] = list[n] /\ ReadsChildren(list[n]) BY <1>4, <1>8
<1> QED BY <1>5, <1>6, <1>7, <1>9 DEF R

\* Streaming changes nothing but the time at which the children are pushed.
LEMMA StreamedRead ==
    ASSUME StreamsCleanly, TRUE \in StreamingModes, NEW f \in FaultCases,
           NEW parent, parent.value.dir \in Dirs, ~TooDeep(Depth(parent)),
           NEW fault, fault = f[parent.value.dir], fault \in Faults,
           NEW n, n = StreamLimit(parent.value.dir, fault),
           NEW result, result = StreamingRead(parent, fault, n),
           NEW core, core = CoreReadDir(parent.value, Depth(parent), fault)
    PROVE  result.ok = core.ok /\ result.list = core.list
           /\ (n > 0 => fault.times = 0) /\ (n = 0 => result.streamed = 0) /\ (n > 0 => result.streamed = n)
<1> DEFINE d == parent.value.dir
           E == Entries(parent.value, Depth(parent) + 1)
<1>1. Platform # "other" BY DEF StreamsCleanly
<1>2. core = RetryTransientIo(parent.value, Depth(parent), fault, 0) BY DEF CoreReadDir
<1>3. fault.times \in Nat /\ MaxRetries \in Nat BY RDAssumption DEF Faults
<1>4. CASE fault.times = 0
  <2>1. ~AttemptFails(fault, 0) BY <1>4 DEF AttemptFails
  <2>2. result = ReadOk(E, n) BY <2>1 DEF StreamingRead
  <2>3. 0 \in 0 .. MaxRetries /\ ~(0 > 0) BY <1>3
  <2>4. core = ReadOk(E, 0) BY <1>1, <1>2, <2>1, <2>3 DEF RetryTransientIo
  <2> HIDE DEF E
  <2> QED BY <1>4, <2>2, <2>4 DEF ReadOk
<1>5. CASE fault.times > 0
  <2>1. AttemptFails(fault, 0) BY <1>5 DEF AttemptFails
  <2>2. \A k \in DOMAIN Listing[d] : k <= fault.after => ~IsStreamed(Listing[d][k])
    BY <1>5 DEF StreamsCleanly
  <2>3. {k \in DOMAIN Listing[d] : /\ AttemptFails(fault, 0) => k <= fault.after
                                   /\ IsStreamed(Listing[d][k])} = {}
    BY <2>1, <2>2
  <2>4. n = 0 BY <2>3, FS_EmptySet DEF StreamLimit
  <2>5. ~(n > 0) BY <2>4
  <2>6. CASE ~IsTransientIoError(fault.error)
    <3>1. result = ReadErr BY <2>1, <2>5, <2>6 DEF StreamingRead
    <3>2. \A k \in 0 .. MaxRetries : k = 0 \/ k > 0 BY <1>3
    <3>3. core = ReadErr BY <1>1, <1>2, <2>1, <2>6, <3>2 DEF RetryTransientIo
    <3>4. ReadErr.streamed = 0 BY DEF ReadErr
    <3> QED BY <2>4, <2>5, <3>1, <3>3, <3>4
  <2>7. CASE IsTransientIoError(fault.error)
    <3>1. result = RetryTransientIo(parent.value, Depth(parent), fault, 1)
      BY <2>1, <2>5, <2>7 DEF StreamingRead
    <3>2. \A k \in 0 .. MaxRetries : k = 0 \/ k \in 1 .. MaxRetries BY <1>3
    <3>3. \A k \in 1 .. MaxRetries : k \in 0 .. MaxRetries BY <1>3
    <3>4. (\E k \in 0 .. MaxRetries : ~AttemptFails(fault, k)) <=> (\E k \in 1 .. MaxRetries : ~AttemptFails(fault, k))
      BY <2>1, <3>2, <3>3
    <3>5. core = IF \E k \in 0 .. MaxRetries : ~AttemptFails(fault, k) THEN ReadOk(E, 0) ELSE ReadErr
      BY <1>1, <1>2, <2>7 DEF RetryTransientIo
    <3>6. result = IF \E k \in 1 .. MaxRetries : ~AttemptFails(fault, k) THEN ReadOk(E, 0) ELSE ReadErr
      BY <1>1, <2>7, <3>1 DEF RetryTransientIo
    <3>7. result = core BY <3>4, <3>5, <3>6
    <3>8. result.streamed = 0
      <4> HIDE DEF E
      <4> QED BY <3>6 DEF ReadOk, ReadErr
    <3> QED BY <2>4, <2>5, <3>7, <3>8
  <2> QED BY <2>6, <2>7
<1> QED BY <1>3, <1>4, <1>5

\* The subdirectories it streams are those the walk goes into.
LEMMA StreamedChildren ==
    ASSUME StreamsCleanly, TRUE \in StreamingModes, NEW f \in FaultCases,
           NEW parent, parent.value.dir \in Dirs, ~TooDeep(Depth(parent)), Depth(parent) \in Nat,
           NEW fault, fault = f[parent.value.dir], fault \in Faults,
           NEW n, n = StreamLimit(parent.value.dir, fault), n > 0,
           NEW core, core = CoreReadDir(parent.value, Depth(parent), fault)
    PROVE  /\ n = Len(ReadChildren(core.list))
           /\ \A i \in 1 .. n :
                 ReadDirSpec(AtDepth(StreamedDirs(parent.value.dir)[i], Depth(parent) + 1,
                                     Ancestors(parent.value)))
                    = ReadDirSpec(ReadChildren(core.list)[i])
<1> DEFINE d == parent.value.dir
           list == Listing[d]
           E == Entries(parent.value, Depth(parent) + 1)
           A == {k \in DOMAIN list : IsStreamed(list[k])}
           P == {k \in DOMAIN E : ReadsChildren(E[k])}
           entry(k) == AtDepth(list[k], Depth(parent) + 1, Ancestors(parent.value))
<1>1. fault.times = 0 BY StreamedRead
<1>2. core.list = E
  <2>1. ~AttemptFails(fault, 0) BY <1>1 DEF AttemptFails
  <2>2. 0 \in 0 .. MaxRetries /\ ~(0 > 0) BY RDAssumption
  <2>3. Platform # "other" BY DEF StreamsCleanly
  <2>4. core = ReadOk(E, 0) BY <2>1, <2>2, <2>3 DEF CoreReadDir, RetryTransientIo
  <2> HIDE DEF E
  <2> QED BY <2>4 DEF ReadOk
<1>3. list \in Seq({list[k] : k \in DOMAIN list}) BY ListingAssumption
<1>4. Len(list) \in Nat /\ DOMAIN list = 1 .. Len(list)
  <2> HIDE DEF list
  <2> QED BY <1>3, LenProperties
<1>5. n = Cardinality(A)
  <2>1. ~AttemptFails(fault, 0) BY <1>1 DEF AttemptFails
  <2>2. {k \in DOMAIN list : /\ AttemptFails(fault, 0) => k <= fault.after
                             /\ IsStreamed(list[k])} = A
    BY <2>1
  <2> QED BY <2>2 DEF StreamLimit
<1>6. A # {}
  <2>1. Cardinality({}) = 0 BY FS_EmptySet
  <2> QED BY <1>5, <2>1
<1>7. \A k \in DOMAIN list : GoesInto(list[k]) => list[k].type = "dir"
  <2>1. \E k \in DOMAIN list : IsStreamed(list[k]) BY <1>6
  <2> QED BY <2>1 DEF StreamsCleanly
<1>8. E = [k \in 1 .. Len(list) |-> FollowSymlink(entry(k))] BY DEF Entries
<1>9. \A k \in DOMAIN list : list[k].type = "dir" => E[k] = entry(k) /\ ReadsChildren(E[k])
  <2>1. ASSUME NEW k \in DOMAIN list, list[k].type = "dir"
        PROVE  E[k] = entry(k) /\ ReadsChildren(E[k])
    <3>1. E[k] = FollowSymlink(entry(k)) BY <1>4, <1>8
    <3>2. entry(k).type = "dir" BY <2>1 DEF AtDepth
    <3> HIDE DEF entry, E
    <3> QED BY <3>1, <3>2 DEF FollowSymlink, ReadsChildren
  <2> QED BY <2>1
<1>10. \A k \in DOMAIN list : IsStreamed(list[k]) => GoesInto(list[k])
  BY DEF IsStreamed, StreamedTypes, GoesInto
<1>11. \A k \in DOMAIN list : list[k].type = "dir" => IsStreamed(list[k])
  BY DEF IsStreamed, StreamedTypes
<1>12. \A k \in DOMAIN E : ReadsChildren(E[k]) => k \in DOMAIN list /\ GoesInto(list[k])
  <2>1. Depth(parent) + 1 # 0 OBVIOUS
  <2>2. LeadsAs(E, d) BY <2>1, EntriesLead
  <2> HIDE DEF E, list
  <2> QED BY <2>2 DEF LeadsAs, list
<1>13. DOMAIN E = DOMAIN list BY <1>4, <1>8
<1>14. A = P /\ \A k \in A : E[k] = entry(k)
  <2> HIDE DEF E, list, entry
  <2> QED BY <1>7, <1>9, <1>10, <1>11, <1>12, <1>13
<1>15. /\ StreamedDirs(d) = [k \in 1 .. Cardinality(A) |-> list[InOrder(A)[k]]]
       /\ ReadChildren(E) = [k \in 1 .. Cardinality(P) |-> E[InOrder(P)[k]]]
  BY DEF StreamedDirs, ReadChildren, ItemsAt
<1>16. A \in SUBSET (1 .. Len(list)) BY <1>4
<1> HIDE DEF A, P, list, E
<1>17. n \in Nat /\ InOrder(A) \in [1 .. n -> A] BY <1>4, <1>5, <1>16, InOrderOrders
<1>18. Len(ReadChildren(E)) = n BY <1>5, <1>14, <1>15, <1>17
<1>19. ASSUME NEW i \in 1 .. n
       PROVE  AtDepth(StreamedDirs(d)[i], Depth(parent) + 1, Ancestors(parent.value)) = ReadChildren(E)[i]
  <2>1. InOrder(A)[i] \in A BY <1>17
  <2>2. StreamedDirs(d)[i] = list[InOrder(A)[i]] /\ ReadChildren(E)[i] = E[InOrder(A)[i]]
    BY <1>5, <1>14, <1>15, <1>19
  <2> QED BY <1>14, <2>1, <2>2
<1> QED BY <1>2, <1>18, <1>19

------------------------------------------------------------------------------
(* The tree of the walk, proved to be one *)

LEMMA FaultCase ==
    ASSUME NEW f \in FaultCases, NEW d \in Dirs
    PROVE  f[d] \in Faults /\ MayBefall(f[d], d)
<1>1. f \in [Dirs -> Faults] /\ f[d].after <= Len(Listing[d]) BY ParAssumption
<1> QED BY <1>1 DEF MayBefall

\* What a directory's listing holds that the walk goes into.
LEMMA KidsAre ==
    ASSUME NEW f \in FaultCases, NEW entry, entry.dir \in Dirs
    PROVE  /\ Sound(ReadOf(f, entry).list)
           /\ ~ReadOf(f, entry).ok => ReadOf(f, entry).list = <<>>
           /\ Len(Kids(f, entry)) \in Nat
           /\ Kids(f, entry) = [k \in 1 .. Len(Kids(f, entry)) |-> Kids(f, entry)[k]]
           /\ \A k \in 1 .. Len(Kids(f, entry)) :
                 /\ ReadsChildren(Kids(f, entry)[k])
                 /\ Kids(f, entry)[k].dir \in Dirs
                 /\ Kids(f, entry)[k].depth = entry.depth + 1
<1> DEFINE read == ReadOf(f, entry)
           list == read.list
           spec == ReadDirSpec(entry)
           K == ReadChildren(list)
<1>1. spec.dir = entry.dir BY DEF ReadDirSpec
<1>2. read = CoreReadDir(spec, entry.depth, f[entry.dir]) BY DEF ReadOf
<1>3. MayBefall(f[entry.dir], entry.dir) BY FaultCase
<1>4. K = Kids(f, entry) BY DEF Kids
<1> HIDE DEF read, spec
<1>5. Sound(list) /\ (~read.ok => list = <<>>) BY <1>1, <1>2, <1>3, ReadSound
<1>6. AllAt(list, entry.depth + 1) BY <1>1, <1>2, <1>3, ReadAt
<1> HIDE DEF list
<1>7. /\ Len(K) \in Nat /\ K = [k \in 1 .. Len(K) |-> K[k]]
      /\ \A k \in 1 .. Len(K) : \E n \in DOMAIN list : K[k] = list[n] /\ ReadsChildren(list[n])
  BY <1>5, ChildrenAre
<1> HIDE DEF K
<1>8. \A k \in 1 .. Len(K) : ReadsChildren(K[k]) /\ K[k].dir \in Dirs /\ K[k].depth = entry.depth + 1
  BY <1>5, <1>6, <1>7 DEF Sound, AllAt
<1> QED BY <1>4, <1>5, <1>7, <1>8 DEF read, list

\* The entries along a trail are directories, each one deeper.
LEMMA TrailGood ==
    ASSUME NEW f \in FaultCases, ReadsChildren(RootDirEntry), NEW q, NEW e, Leads(f, q, e)
    PROVE  \A k \in 1 .. Len(q) : e[k].dir \in Dirs /\ ReadsChildren(e[k]) /\ e[k].depth = k - 1
<1> DEFINE Good(k) == e[k].dir \in Dirs /\ ReadsChildren(e[k]) /\ e[k].depth = k - 1
           Bad == {k \in 1 .. Len(q) : ~Good(k)}
<1>1. q \in Seq(Nat) /\ Len(q) \in Nat BY DEF Leads
<1>2. Good(1)
  <2>1. e[1] = RootDirEntry BY DEF Leads
  <2>2. RootDirEntry.depth = 0 /\ RootDirEntry.dir \in Dirs BY RootFacts
  <2> QED BY <2>1, <2>2
<1>3. ASSUME Bad # {} PROVE FALSE
  <2>1. Bad \in SUBSET Nat BY <1>1
  <2>2. PICK n \in Bad : \A m \in Bad : n <= m
    <3> HIDE DEF Bad
    <3> QED BY <1>3, <2>1, LeastNat
  <2>3. n \in 1 .. Len(q) /\ n # 1 /\ ~Good(n) BY <1>2
  <2> HIDE DEF Good
  <2>4. n \in 2 .. Len(q) /\ n - 1 \in 1 .. Len(q) /\ ~(n <= n - 1) /\ n - 1 = (n - 2) + 1 /\ n \in Nat BY <1>1, <2>3
  <2>5. Good(n - 1) BY <2>2, <2>4
  <2>6. e[n - 1].dir \in Dirs /\ e[n - 1].depth = n - 1 - 1 BY <2>5 DEF Good
  <2>7. q[n] < Len(Kids(f, e[n - 1])) /\ e[n] = Kids(f, e[n - 1])[q[n] + 1] /\ q[n] \in Nat
    BY <1>1, <2>4 DEF Leads
  <2>8. /\ Len(Kids(f, e[n - 1])) \in Nat
        /\ \A k \in 1 .. Len(Kids(f, e[n - 1])) :
              /\ ReadsChildren(Kids(f, e[n - 1])[k])
              /\ Kids(f, e[n - 1])[k].dir \in Dirs
              /\ Kids(f, e[n - 1])[k].depth = e[n - 1].depth + 1
    BY <2>6, KidsAre
  <2>9. q[n] + 1 \in 1 .. Len(Kids(f, e[n - 1])) BY <2>7, <2>8
  <2>10. ReadsChildren(e[n]) /\ e[n].dir \in Dirs /\ e[n].depth = (n - 1 - 1) + 1 BY <2>6, <2>7, <2>8, <2>9
  <2>11. (n - 1 - 1) + 1 = n - 1 BY <2>4
  <2> QED BY <2>3, <2>10, <2>11 DEF Good
<1> QED BY <1>3

\* Paths that begin alike lead along the same entries.
LEMMA SameTrail ==
    ASSUME NEW f, NEW p, NEW q, NEW d, NEW e, Leads(f, p, d), Leads(f, q, e),
           NEW k \in Nat, k <= Len(p), k <= Len(q), \A i \in 1 .. k : p[i] = q[i]
    PROVE  \A i \in 1 .. k : d[i] = e[i]
<1> DEFINE Bad == {i \in 1 .. k : d[i] # e[i]}
<1>1. p \in Seq(Nat) /\ Len(p) \in Nat /\ q \in Seq(Nat) /\ Len(q) \in Nat BY DEF Leads
<1>2. d[1] = e[1] BY DEF Leads
<1>3. ASSUME Bad # {} PROVE FALSE
  <2>1. Bad \in SUBSET Nat OBVIOUS
  <2>2. PICK n \in Bad : \A m \in Bad : n <= m
    <3> HIDE DEF Bad
    <3> QED BY <1>3, <2>1, LeastNat
  <2>3. n \in 1 .. k /\ n # 1 /\ d[n] # e[n] BY <1>2
  <2>4. n \in 2 .. Len(p) /\ n \in 2 .. Len(q) /\ n - 1 \in 1 .. k /\ ~(n <= n - 1) BY <1>1, <2>3
  <2>5. d[n - 1] = e[n - 1] BY <2>2, <2>4
  <2>6. d[n] = Kids(f, d[n - 1])[p[n] + 1] /\ e[n] = Kids(f, e[n - 1])[q[n] + 1] BY <2>4 DEF Leads
  <2> QED BY <2>3, <2>5, <2>6
<1> QED BY <1>3

\* Any trail will do.
LEMMA TrailIs ==
    ASSUME NEW f, NEW q, NEW e, Leads(f, q, e)
    PROVE  OnTree(f, q) /\ EntryAt(f, q) = e[Len(q)] /\ \A i \in 1 .. Len(q) : Trail(f, q)[i] = e[i]
<1>1. Leads(f, q, Trail(f, q)) BY DEF Trail
<1>2. q \in Seq(Nat) /\ q # <<>> BY DEF Leads
<1>3. Len(q) \in Nat /\ Len(q) \in 1 .. Len(q) BY <1>2, EmptySeq
<1>4. \A i \in 1 .. Len(q) : Trail(f, q)[i] = e[i] BY <1>1, <1>3, SameTrail
<1> QED BY <1>1, <1>3, <1>4 DEF OnTree, EntryAt

LEMMA RootOnTree ==
    ASSUME NEW f
    PROVE  OnTree(f, <<0>>) /\ EntryAt(f, <<0>>) = RootDirEntry
<1> DEFINE q == <<0>>
           e == [k \in {1} |-> RootDirEntry]
<1>1. q \in Seq(Nat) /\ q # <<>> /\ q[1] = 0 /\ Len(q) = 1 OBVIOUS
<1>2. e[1] = RootDirEntry OBVIOUS
<1> HIDE DEF q, e
<1>3. Leads(f, q, e) BY <1>1, <1>2 DEF Leads
<1>4. OnTree(f, q) /\ EntryAt(f, q) = e[Len(q)] BY <1>3, TrailIs
<1> QED BY <1>1, <1>2, <1>4 DEF q

\* From a directory to one in it.
LEMMA ChildOnTree ==
    ASSUME NEW f, NEW q, OnTree(f, q), NEW i \in Nat, i < Len(Kids(f, EntryAt(f, q)))
    PROVE  /\ OnTree(f, Adding(q, i))
           /\ EntryAt(f, Adding(q, i)) = Kids(f, EntryAt(f, q))[i + 1]
<1> DEFINE t == Trail(f, q)
           n == Len(q)
           c == Adding(q, i)
           e == [k \in 1 .. (n + 1) |-> IF k = n + 1 THEN Kids(f, t[n])[i + 1] ELSE t[k]]
<1>1. Leads(f, q, t) BY DEF OnTree
<1>2. q \in Seq(Nat) /\ q # <<>> /\ q[1] = 0 /\ t[1] = RootDirEntry BY <1>1 DEF Leads
<1>3. n \in Nat \ {0} BY <1>2, EmptySeq
<1>4. EntryAt(f, q) = t[n] BY DEF EntryAt
<1>5. c = Append(q, i) BY DEF Adding
<1> HIDE DEF n, t, c
<1>6. /\ c \in Seq(Nat) /\ c # <<>> /\ Len(c) = n + 1 /\ c[n + 1] = i
      /\ \A k \in 1 .. n : c[k] = q[k]
  BY <1>2, <1>5, AppendProperties DEF n
<1>7. e[n + 1] = Kids(f, t[n])[i + 1] /\ \A k \in 1 .. n : e[k] = t[k] BY <1>3
<1> HIDE DEF e
<1>8. 1 \in 1 .. n /\ n \in 1 .. n BY <1>3
<1>9. c[1] = 0 /\ e[1] = RootDirEntry BY <1>2, <1>6, <1>7, <1>8
<1>10. ASSUME NEW k \in 2 .. (n + 1)
       PROVE  c[k] < Len(Kids(f, e[k - 1])) /\ e[k] = Kids(f, e[k - 1])[c[k] + 1]
  <2>1. CASE k = n + 1
    <3>1. k - 1 = n /\ e[k - 1] = t[n] BY <1>3, <1>7, <1>8, <2>1
    <3> QED BY <1>4, <1>6, <1>7, <2>1, <3>1
  <2>2. CASE k # n + 1
    <3>1. k \in 2 .. n /\ k \in 1 .. n /\ k - 1 \in 1 .. n BY <1>3, <2>2
    <3>2. q[k] < Len(Kids(f, t[k - 1])) /\ t[k] = Kids(f, t[k - 1])[q[k] + 1]
      BY <1>1, <3>1 DEF Leads, n
    <3> QED BY <1>6, <1>7, <3>1, <3>2
  <2> QED BY <2>1, <2>2
<1>11. Leads(f, c, e) BY <1>6, <1>9, <1>10 DEF Leads
<1>12. OnTree(f, c) /\ EntryAt(f, c) = e[n + 1] BY <1>6, <1>11, TrailIs
<1> QED BY <1>4, <1>7, <1>12 DEF c

\* From a directory to one it is in.
LEMMA PrefixOnTree ==
    ASSUME NEW f, NEW q, OnTree(f, q), NEW k \in 1 .. Len(q)
    PROVE  /\ SubSeq(q, 1, k) \in Seq(Nat) /\ Len(SubSeq(q, 1, k)) = k
           /\ OnTree(f, SubSeq(q, 1, k))
           /\ EntryAt(f, SubSeq(q, 1, k)) = Trail(f, q)[k]
<1> DEFINE t == Trail(f, q)
           p == SubSeq(q, 1, k)
<1>1. Leads(f, q, t) BY DEF OnTree
<1>2. q \in Seq(Nat) /\ q[1] = 0 /\ t[1] = RootDirEntry /\ Len(q) \in Nat BY <1>1 DEF Leads
<1>3. k \in 0 .. Len(q) /\ k \in Nat /\ 1 \in 1 .. k BY <1>2
<1>4. p \in Seq(Nat) /\ Len(p) = k /\ \A i \in 1 .. k : p[i] = q[i] BY <1>2, <1>3, Prefix
<1> HIDE DEF t, p
<1>5. p # <<>> /\ p[1] = 0 BY <1>2, <1>3, <1>4, EmptySeq
<1>6. \A i \in 2 .. k : i \in 2 .. Len(q) /\ i \in 1 .. k BY <1>2, <1>3
<1>7. \A i \in 2 .. k : p[i] < Len(Kids(f, t[i - 1])) /\ t[i] = Kids(f, t[i - 1])[p[i] + 1]
  BY <1>1, <1>4, <1>6 DEF Leads
<1>8. Leads(f, p, t) BY <1>2, <1>4, <1>5, <1>7 DEF Leads
<1>9. OnTree(f, p) /\ EntryAt(f, p) = t[k] BY <1>4, <1>8, TrailIs
<1> QED BY <1>4, <1>9 DEF p, t

\* What is at a path of the tree.
LEMMA NodeGood ==
    ASSUME NEW f \in FaultCases, ReadsChildren(RootDirEntry), NEW q, OnTree(f, q)
    PROVE  /\ q \in Seq(Nat) /\ q # <<>> /\ q[1] = 0 /\ Len(q) \in Nat \ {0}
           /\ EntryAt(f, q).dir \in Dirs
           /\ ReadsChildren(EntryAt(f, q))
           /\ EntryAt(f, q).depth = Len(q) - 1
<1>1. Leads(f, q, Trail(f, q)) BY DEF OnTree
<1>2. q \in Seq(Nat) /\ q # <<>> /\ q[1] = 0 BY <1>1 DEF Leads
<1>3. Len(q) \in Nat \ {0} /\ Len(q) \in 1 .. Len(q) BY <1>2, EmptySeq
<1>4. \A k \in 1 .. Len(q) : /\ Trail(f, q)[k].dir \in Dirs
                             /\ ReadsChildren(Trail(f, q)[k])
                             /\ Trail(f, q)[k].depth = k - 1
  BY <1>1, TrailGood
<1> QED BY <1>2, <1>3, <1>4 DEF EntryAt

LEMMA ResultIs ==
    ASSUME NEW f, NEW q
    PROVE  /\ ResultAt(f, q).index_path = q
           /\ ResultAt(f, q).child_count = Len(Kids(f, EntryAt(f, q)))
           /\ ResultAt(f, q).value.dir = EntryAt(f, q).dir
           /\ ResultAt(f, q).value.ok = ReadOf(f, EntryAt(f, q)).ok
           /\ ResultAt(f, q).value.list = ReadOf(f, EntryAt(f, q)).list
BY DEF ResultAt

\* The results of the directories are a tree of results, as the OrderedQueue
\* takes them to be.
LEMMA ResultsAreTree ==
    ASSUME NEW f \in FaultCases, ReadsChildren(RootDirEntry)
    PROVE  ResultTree(TreeResults(f))
<1> DEFINE R == TreeResults(f)
<1>1. \A r \in R : OnTree(f, r.index_path) /\ r = ResultAt(f, r.index_path) /\ r.index_path \in Seq(Nat)
  BY ResultIs DEF TreeResults, TreePaths
<1>2. \A q : OnTree(f, q) => ResultAt(f, q) \in R /\ ResultAt(f, q).index_path = q
  <2>1. \A q : OnTree(f, q) => q \in Seq(Nat) BY DEF OnTree, Leads
  <2> QED BY <2>1, ResultIs DEF TreeResults, TreePaths
<1> HIDE DEF R
<1>3. ASSUME NEW r \in R
      PROVE  /\ r.index_path \in Paths \ {<<>>}
             /\ r.child_count \in Nat
             /\ r.index_path[1] = 0
             /\ \A k \in 1 .. (Len(r.index_path) - 1) : \E s \in R :
                   /\ s.index_path = SubSeq(r.index_path, 1, k)
                   /\ r.index_path[k + 1] < s.child_count
             /\ \A i \in 0 .. (r.child_count - 1) :
                   \E s \in R : s.index_path = Adding(r.index_path, i)
  <2> DEFINE q == r.index_path
  <2>1. OnTree(f, q) /\ r = ResultAt(f, q) BY <1>1
  <2> HIDE DEF q
  <2>2. q \in Seq(Nat) /\ q # <<>> /\ q[1] = 0 /\ Len(q) \in Nat \ {0} /\ EntryAt(f, q).dir \in Dirs
    BY <2>1, NodeGood
  <2>3. r.child_count = Len(Kids(f, EntryAt(f, q))) BY <2>1, ResultIs
  <2>4. r.child_count \in Nat BY <2>2, <2>3, KidsAre
  <2>5. ASSUME NEW k \in 1 .. (Len(q) - 1)
        PROVE  \E s \in R : s.index_path = SubSeq(q, 1, k) /\ q[k + 1] < s.child_count
    <3> DEFINE p == SubSeq(q, 1, k)
               s == ResultAt(f, p)
    <3>1. k \in 1 .. Len(q) /\ k + 1 \in 2 .. Len(q) /\ (k + 1) - 1 = k BY <2>2
    <3>2. OnTree(f, p) /\ EntryAt(f, p) = Trail(f, q)[k] BY <2>1, <3>1, PrefixOnTree
    <3>3. q[k + 1] < Len(Kids(f, Trail(f, q)[(k + 1) - 1])) BY <2>1, <3>1 DEF OnTree, Leads
    <3>4. s \in R /\ s.index_path = p /\ s.child_count = Len(Kids(f, EntryAt(f, p)))
      BY <1>2, <3>2, ResultIs
    <3> QED BY <3>1, <3>2, <3>3, <3>4
  <2>6. ASSUME NEW i \in 0 .. (r.child_count - 1)
        PROVE  \E s \in R : s.index_path = Adding(q, i)
    <3>1. i \in Nat /\ i < Len(Kids(f, EntryAt(f, q))) BY <2>3, <2>4
    <3>2. OnTree(f, Adding(q, i)) BY <2>1, <3>1, ChildOnTree
    <3> QED BY <1>2, <3>2
  <2> QED BY <2>2, <2>4, <2>5, <2>6 DEF Paths, q
<1>4. \A r, s \in R : r.index_path = s.index_path => r = s BY <1>1
<1>5. \E r \in R : r.index_path = <<0>> BY <1>2, RootOnTree
<1> QED BY <1>3, <1>4, <1>5 DEF ResultTree, R

------------------------------------------------------------------------------
(* The listings the caller consumes *)

\* Consuming an entry: the directories left in the listing.
LEMMA ChildrenOfTail ==
    ASSUME NEW S, NEW list \in Seq(S), list # <<>>
    PROVE  /\ Len(ReadChildren(list)) \in Nat /\ Len(ReadChildren(Tail(list))) \in Nat
           /\ ReadsChildren(Head(list)) =>
                 /\ Len(ReadChildren(list)) = Len(ReadChildren(Tail(list))) + 1
                 /\ ReadChildren(list)[1] = Head(list)
                 /\ \A i \in 1 .. Len(ReadChildren(Tail(list))) :
                       ReadChildren(Tail(list))[i] = ReadChildren(list)[i + 1]
           /\ ~ReadsChildren(Head(list)) =>
                 /\ Len(ReadChildren(list)) = Len(ReadChildren(Tail(list)))
                 /\ \A i \in 1 .. Len(ReadChildren(Tail(list))) :
                       ReadChildren(Tail(list))[i] = ReadChildren(list)[i]
<1> DEFINE rest == Tail(list)
           n == Len(list)
           P == {k \in DOMAIN list : ReadsChildren(list[k])}
           R == {k \in DOMAIN rest : ReadsChildren(rest[k])}
           o == InOrder(R)
           c == Cardinality(R)
<1>1. /\ n \in Nat \ {0} /\ DOMAIN list = 1 .. n /\ Head(list) = list[1]
      /\ rest \in Seq(S) /\ Len(rest) = n - 1
      /\ \A k \in 1 .. (n - 1) : rest[k] = list[k + 1]
  BY EmptySeq, LenProperties, HeadTailProperties
<1> HIDE DEF rest
<1>2. DOMAIN rest = 1 .. (n - 1) BY <1>1, LenProperties
<1>3. ReadChildren(list) = [k \in 1 .. Cardinality(P) |-> list[InOrder(P)[k]]]
      /\ ReadChildren(rest) = [k \in 1 .. c |-> rest[o[k]]]
  BY DEF ReadChildren, ItemsAt
<1> HIDE DEF n
<1>4. P \in SUBSET (1 .. n) /\ R \in SUBSET (1 .. (n - 1)) /\ n \in Nat /\ n - 1 \in Nat BY <1>1, <1>2
<1>5. \A k \in 1 .. (n - 1) : k \in R <=> k + 1 \in P BY <1>1, <1>2
<1>6. 1 \in P <=> ReadsChildren(Head(list)) BY <1>1
<1>6a. \A k \in P : k = 1 \/ k - 1 \in R
  <2>1. \A k \in 1 .. n : k = 1 \/ (k - 1 \in 1 .. (n - 1) /\ (k - 1) + 1 = k) BY <1>1
  <2> HIDE DEF P, R
  <2> QED BY <1>4, <1>5, <2>1
<1> HIDE DEF P, R
<1>7. c \in Nat /\ Ascends(o, c, R) BY <1>4, InOrderOrders DEF Ascends
<1> HIDE DEF o, c
<1>8. /\ \A k \in 1 .. c : o[k] \in R /\ o[k] \in 1 .. (n - 1)
      /\ \A m \in R : \E k \in 1 .. c : o[k] = m
      /\ \A j, k \in 1 .. c : j < k => o[j] < o[k]
  BY <1>4, <1>7 DEF Ascends
<1>9. Len(ReadChildren(rest)) = c BY <1>3, <1>7
<1>10. CASE ReadsChildren(Head(list))
  <2> DEFINE g == [k \in 1 .. (c + 1) |-> IF k = 1 THEN 1 ELSE o[k - 1] + 1]
  <2>1. \A k \in 1 .. (c + 1) : k = 1 \/ (k - 1 \in 1 .. c /\ k # 1) BY <1>7
  <2>2. \A k \in 1 .. c : k + 1 \in 1 .. (c + 1) /\ k + 1 # 1 /\ (k + 1) - 1 = k BY <1>7
  <2>3. g[1] = 1 /\ \A k \in 1 .. c : g[k + 1] = o[k] + 1
    <3>1. 1 \in 1 .. (c + 1) BY <1>7
    <3> QED BY <2>2, <3>1
  <2>4. \A k \in 1 .. c : o[k] + 1 \in P BY <1>5, <1>8
  <2>5. g \in [1 .. (c + 1) -> P] BY <1>6, <1>10, <2>1, <2>4
  <2> HIDE DEF g
  <2>6. \A m \in P : \E k \in 1 .. (c + 1) : g[k] = m
    <3>1. ASSUME NEW m \in P, m # 1 PROVE \E k \in 1 .. (c + 1) : g[k] = m
      <4>1. PICK k \in 1 .. c : o[k] = m - 1 BY <1>6a, <1>8, <3>1
      <4>2. m \in Nat /\ (m - 1) + 1 = m BY <1>4
      <4> QED BY <2>2, <2>3, <4>1, <4>2
    <3>2. 1 \in 1 .. (c + 1) BY <1>7
    <3> QED BY <2>3, <3>1, <3>2
  <2>7. ASSUME NEW j \in 1 .. (c + 1), NEW k \in 1 .. (c + 1), j < k PROVE g[j] < g[k]
    <3>1. k - 1 \in 1 .. c /\ (k - 1) + 1 = k BY <1>7, <2>7
    <3>2. g[k] = o[k - 1] + 1 /\ o[k - 1] \in 1 .. (n - 1) BY <1>8, <2>3, <3>1
    <3>3. CASE j = 1 BY <1>4, <2>3, <3>2, <3>3
    <3>4. CASE j # 1
      <4>1. j - 1 \in 1 .. c /\ (j - 1) + 1 = j /\ j - 1 < k - 1 BY <1>7, <2>7, <3>4
      <4>2. g[j] = o[j - 1] + 1 /\ o[j - 1] \in 1 .. (n - 1) BY <1>8, <2>3, <4>1
      <4>3. o[j - 1] < o[k - 1] BY <1>8, <3>1, <4>1
      <4> QED BY <1>4, <3>2, <4>2, <4>3
    <3> QED BY <3>3, <3>4
  <2>8. c + 1 = Cardinality(P) /\ InOrder(P) = g
    <3>1. Ascends(g, c + 1, P) BY <2>5, <2>6, <2>7 DEF Ascends
    <3>2. c + 1 \in Nat BY <1>7
    <3> QED BY <1>4, <3>1, <3>2, OneOrder
  <2>9. ReadChildren(list) = [k \in 1 .. (c + 1) |-> list[g[k]]] BY <1>3, <2>8
  <2>10. Len(ReadChildren(list)) = c + 1 BY <1>7, <2>9
  <2>11. ReadChildren(list)[1] = list[1]
    <3>1. 1 \in 1 .. (c + 1) BY <1>7
    <3> QED BY <2>3, <2>9, <3>1
  <2>12. ASSUME NEW i \in 1 .. c PROVE ReadChildren(rest)[i] = ReadChildren(list)[i + 1]
    <3>1. ReadChildren(rest)[i] = rest[o[i]] BY <1>3
    <3>2. ReadChildren(list)[i + 1] = list[o[i] + 1] BY <2>2, <2>3, <2>9
    <3> QED BY <1>1, <1>8, <3>1, <3>2
  <2> QED BY <1>1, <1>7, <1>9, <1>10, <2>10, <2>11, <2>12 DEF rest
<1>11. CASE ~ReadsChildren(Head(list))
  <2> DEFINE g == [k \in 1 .. c |-> o[k] + 1]
  <2>1. \A k \in 1 .. c : g[k] = o[k] + 1 /\ o[k] + 1 \in P BY <1>5, <1>8
  <2>2. g \in [1 .. c -> P] BY <2>1
  <2> HIDE DEF g
  <2>3. \A m \in P : \E k \in 1 .. c : g[k] = m
    <3>1. ASSUME NEW m \in P PROVE \E k \in 1 .. c : g[k] = m
      <4>1. m # 1 BY <1>6, <1>11
      <4>2. PICK k \in 1 .. c : o[k] = m - 1 BY <1>6a, <1>8, <4>1
      <4>3. m \in Nat /\ (m - 1) + 1 = m BY <1>4
      <4> QED BY <2>1, <4>2, <4>3
    <3> QED BY <3>1
  <2>4. ASSUME NEW j \in 1 .. c, NEW k \in 1 .. c, j < k PROVE g[j] < g[k]
    <3>1. o[j] < o[k] /\ o[j] \in 1 .. (n - 1) /\ o[k] \in 1 .. (n - 1) BY <1>8, <2>4
    <3> QED BY <1>4, <2>1, <3>1
  <2>5. c = Cardinality(P) /\ InOrder(P) = g
    <3>1. Ascends(g, c, P) BY <2>2, <2>3, <2>4 DEF Ascends
    <3> QED BY <1>4, <1>7, <3>1, OneOrder
  <2>6. ReadChildren(list) = [k \in 1 .. c |-> list[g[k]]] BY <1>3, <2>5
  <2>7. Len(ReadChildren(list)) = c BY <1>7, <2>6
  <2>8. ASSUME NEW i \in 1 .. c PROVE ReadChildren(rest)[i] = ReadChildren(list)[i]
    <3>1. ReadChildren(rest)[i] = rest[o[i]] BY <1>3
    <3>2. ReadChildren(list)[i] = list[o[i] + 1] BY <2>1, <2>6
    <3> QED BY <1>1, <1>8, <3>1, <3>2
  <2> QED BY <1>7, <1>9, <1>11, <2>7, <2>8 DEF rest
<1> QED BY <1>10, <1>11

\* Nothing is in an empty listing.
LEMMA NoChildren == ReadChildren(<<>>) = <<>>
<1> DEFINE P == {n \in DOMAIN <<>> : ReadsChildren(<<>>[n])}
<1>1. P = {} OBVIOUS
<1>2. ReadChildren(<<>>) = [k \in 1 .. Cardinality(P) |-> <<>>[InOrder(P)[k]]]
  BY DEF ReadChildren, ItemsAt
<1> HIDE DEF P
<1>3. Cardinality(P) = 0 BY <1>1, FS_EmptySet
<1>4. 1 .. 0 = {} OBVIOUS
<1>5. DOMAIN ReadChildren(<<>>) = {} /\ ReadChildren(<<>>) = [k \in {} |-> <<>>[InOrder(P)[k]]]
  BY <1>2, <1>3, <1>4
<1> QED BY <1>5

------------------------------------------------------------------------------
(* Steps of the workers *)

\* More specs known: what was said of them stays.
LEMMA KnownGrows ==
    ASSUME faults' = faults, Known \subseteq Known'
    PROVE  /\ \A q : Path(q) => Path(q)'
           /\ \A q : KidsKnown(q) => KidsKnown(q)'
           /\ \A s : Named(s)' <=> Named(s)
<1>1. \A q : Path(q) => Path(q)' BY DEF Path
<1>2. \A q : KidsKnown(q) => KidsKnown(q)' BY <1>1 DEF KidsKnown
<1>3. \A s : Named(s)' <=> Named(s) BY DEF Named
<1> QED BY <1>1, <1>2, <1>3

(***************************************************************************)
(* What a step of a worker has to show for the invariant: the specs it     *)
(* makes known are named as in the tree and, when pushed, wait; a spec     *)
(* that waited waits or is with the worker; the spec it has stays with it, *)
(* or its result is sent; its task is in order; what it sends is the       *)
(* result of its spec.                                                     *)
(***************************************************************************)
LEMMA WorkersStep ==
    ASSUME WorkersInv, UNCHANGED <<faults, use_streaming>>, NEW w \in Workers,
           Known \subseteq Known', \A s \in Known' : s \in Known \/ Named(s),
           issued \subseteq issued', \A s \in issued' : s \in issued \/ Waits(s)',
           sent \subseteq sent', \A r \in sent' : r \in sent \/ SentFrom(r)',
           \A v \in Workers \ {w} :
              (AtWork(v)' <=> AtWork(v)) /\ item'[v] = item[v] /\ task'[v] = task[v],
           \A s \in issued : Waits(s) => Waits(s)' \/ (AtWork(w)' /\ item'[w] = s),
           \A s \in issued : Waits(s)' => Waits(s),
           AtWork(w) => \/ AtWork(w)' /\ item'[w] = item[w]
                        \/ ResultAt(faults, item[w].index_path) \in sent',
           AtWork(w)' => \/ /\ AtWork(w) /\ item'[w] = item[w]
                            /\ task[w].stage = "schedule" => task'[w].stage = "schedule"
                         \/ Waits(item'[w]),
           AtWork(w)' => TaskInv(w)'
    PROVE  WorkersInv'
<1>1. /\ \A q : Path(q) => Path(q)'
      /\ \A q : KidsKnown(q) => KidsKnown(q)'
      /\ \A s : Named(s)' <=> Named(s)
  BY KnownGrows
<1>2. WorkInv /\ SentInv /\ \A v \in Workers : AtWork(v) => TaskInv(v) BY DEF WorkersInv
<1>3. WorkInv'
  <2>1. \A s \in Known' : Named(s)' BY <1>1, <1>2 DEF WorkInv
  <2>2. \E s \in issued' : s.index_path = <<0>> BY <1>2 DEF WorkInv
  <2>3. ASSUME NEW s \in issued
        PROVE  \/ Waits(s)'
               \/ \E v \in Workers : AtWork(v)' /\ item'[v] = s
               \/ ResultAt(faults, s.index_path) \in sent'
    <3>1. CASE Waits(s) BY <3>1
    <3>2. ASSUME NEW v \in Workers, AtWork(v), item[v] = s
          PROVE  \/ \E u \in Workers : AtWork(u)' /\ item'[u] = s
                 \/ ResultAt(faults, s.index_path) \in sent'
      <4>1. CASE v = w BY <3>2, <4>1
      <4>2. CASE v # w BY <3>2, <4>2
      <4> QED BY <4>1, <4>2
    <3>3. CASE ResultAt(faults, s.index_path) \in sent BY <3>3
    <3> QED BY <1>2, <3>1, <3>2, <3>3 DEF WorkInv
  <2>4. \A s \in issued' : \/ Waits(s)'
                           \/ \E v \in Workers : AtWork(v)' /\ item'[v] = s
                           \/ ResultAt(faults', s.index_path) \in sent'
    BY <2>3
  <2> QED BY <2>1, <2>2, <2>4 DEF WorkInv
<1>4. ASSUME NEW v \in Workers, AtWork(v)' PROVE TaskInv(v)'
  <2>1. CASE v = w BY <1>4, <2>1
  <2>2. CASE v # w
    <3>1. TaskInv(v) /\ task'[v] = task[v] /\ item'[v] = item[v] BY <1>2, <1>4, <2>2
    <3>2. OrderedResult(v)' = OrderedResult(v) /\ DirFault(v)' = DirFault(v)
      BY <3>1 DEF OrderedResult, DirFault
    <3>3. use_streaming' = use_streaming /\ faults' = faults OBVIOUS
    <3> QED BY <1>1, <3>1, <3>2, <3>3 DEF TaskInv
  <2> QED BY <2>1, <2>2
<1>5. ASSUME NEW r \in sent PROVE SentFrom(r)'
  <2>1. PICK s \in issued :
           /\ r = ResultAt(faults, s.index_path)
           /\ KidsKnown(s.index_path)
           /\ ~Waits(s)
           /\ \A v \in Workers : AtWork(v) /\ item[v] = s => task[v].stage = "schedule"
    BY <1>2 DEF SentInv, SentFrom
  <2>2. r = ResultAt(faults', s.index_path) /\ KidsKnown(s.index_path)' /\ ~Waits(s)' /\ s \in issued'
    BY <1>1, <2>1
  <2>3. ASSUME NEW v \in Workers, AtWork(v)', item'[v] = s PROVE task'[v].stage = "schedule"
    <3>1. CASE v = w BY <2>1, <2>3, <3>1
    <3>2. CASE v # w BY <2>1, <2>3, <3>2
    <3> QED BY <3>1, <3>2
  <2> QED BY <2>2, <2>3 DEF SentFrom
<1>6. SentInv' BY <1>5 DEF SentInv
<1> QED BY <1>3, <1>4, <1>6 DEF WorkersInv

\* Nothing of the workers changes.
LEMMA WorkersAlone ==
    ASSUME WorkersInv, UNCHANGED <<faults, use_streaming, specVars, task, sent>>
    PROVE  WorkersInv'
<1>1. Known' = Known /\ issued' = issued /\ item' = item /\ task' = task /\ sent' = sent /\ faults' = faults
      /\ use_streaming' = use_streaming
  BY DEF Known, specVars
<1>2. \A s : Waits(s)' <=> Waits(s) BY DEF Waits, specVars
<1>3. \A v \in Workers : AtWork(v)' <=> AtWork(v) BY DEF AtWork, specVars
<1>4. /\ \A q : Path(q)' <=> Path(q)
      /\ \A s : Named(s)' <=> Named(s)
  BY <1>1 DEF Path, Named
<1>5. \A q : KidsKnown(q)' <=> KidsKnown(q) BY <1>1, <1>4 DEF KidsKnown
<1>6. \A v \in Workers : OrderedResult(v)' = OrderedResult(v) /\ DirFault(v)' = DirFault(v)
  BY <1>1 DEF OrderedResult, DirFault
<1>7. WorkInv' BY <1>1, <1>2, <1>3, <1>4 DEF WorkersInv, WorkInv
<1>8. \A v \in Workers : TaskInv(v) => TaskInv(v)' BY <1>1, <1>4, <1>5, <1>6 DEF TaskInv
<1>9. \A r : SentFrom(r) => SentFrom(r)' BY <1>1, <1>2, <1>3, <1>5 DEF SentFrom
<1> QED BY <1>1, <1>3, <1>7, <1>8, <1>9 DEF WorkersInv, SentInv

\* What a worker is about to read: its spec is that of an entry in the tree.
LEMMA ReadsNamed ==
    ASSUME ParInv, WorkersInv, ReadsChildren(RootDirEntry), NEW w \in Workers, AtWork(w)
    PROVE  /\ item[w] \in issued /\ item[w] \in Known
           /\ OnTree(faults, item[w].index_path)
           /\ item[w].value = ReadDirSpec(EntryAt(faults, item[w].index_path))
           /\ item[w].value.dir = EntryAt(faults, item[w].index_path).dir
           /\ item[w].value.dir \in Dirs
           /\ Depth(item[w]) = EntryAt(faults, item[w].index_path).depth
           /\ Depth(item[w]) \in Nat
           /\ faults \in FaultCases /\ DirFault(w) = faults[item[w].value.dir]
           /\ CoreReadDir(item[w].value, Depth(item[w]), DirFault(w))
                 = ReadOf(faults, EntryAt(faults, item[w].index_path))
<1> DEFINE p == item[w]
           e == EntryAt(faults, p.index_path)
<1>1. p \in issued /\ p \in Known BY ReadsDirectory DEF Known
<1>2. OnTree(faults, p.index_path) /\ p.value = ReadDirSpec(e) BY <1>1 DEF WorkersInv, WorkInv, Named
<1>3. faults \in FaultCases BY DEF ParInv
<1>4. /\ Len(p.index_path) \in Nat \ {0} /\ e.dir \in Dirs /\ e.depth = Len(p.index_path) - 1
  BY <1>2, <1>3, NodeGood
<1>5. p.value.dir = e.dir BY <1>2 DEF ReadDirSpec
<1>6. Depth(p) = e.depth BY <1>4 DEF Depth
<1>7. Depth(p) \in Nat BY <1>4 DEF Depth
<1>8. DirFault(w) = faults[p.value.dir] BY DEF DirFault
<1>9. CoreReadDir(p.value, Depth(p), DirFault(w)) = ReadOf(faults, e)
  BY <1>2, <1>5, <1>6, <1>8 DEF ReadOf
<1> QED BY <1>1, <1>2, <1>3, <1>4, <1>5, <1>6, <1>7, <1>8, <1>9

\* The members of Known.
LEMMA KnownAre ==
    /\ issued \subseteq Known
    /\ \A v \in Workers : \A k \in DOMAIN task[v].todo : task[v].todo[k] \in Known
    /\ \A s \in Known : s \in issued \/ \E v \in Workers : \E k \in DOMAIN task[v].todo : task[v].todo[k] = s
    /\ issued' \subseteq Known'
    /\ \A v \in Workers : \A k \in DOMAIN task'[v].todo : task'[v].todo[k] \in Known'
    /\ \A s \in Known' : s \in issued' \/ \E v \in Workers : \E k \in DOMAIN task'[v].todo : task'[v].todo[k] = s
BY DEF Known

\* A step of a worker that leaves the queue alone.
LEMMA TaskMoves ==
    ASSUME ParInv, WorkersInv, UNCHANGED <<faults, use_streaming, specVars>>,
           NEW w \in Workers, AtWork(w), \A v \in Workers \ {w} : task'[v] = task[v],
           Known \subseteq Known', \A s \in Known' : s \in Known \/ Named(s),
           sent \subseteq sent', \A r \in sent' : r \in sent \/ SentFrom(r)',
           task[w].stage # "schedule", TaskInv(w)'
    PROVE  WorkersInv'
<1>1. issued' = issued /\ item' = item BY DEF specVars
<1>2. \A s : Waits(s)' <=> Waits(s) BY DEF Waits, specVars
<1>3. \A v \in Workers : AtWork(v)' <=> AtWork(v) BY DEF AtWork, specVars
<1>4. UNCHANGED <<faults, use_streaming>> OBVIOUS
<1> QED BY <1>1, <1>2, <1>3, <1>4, WorkersStep

\* The read is over: the worker has the result of its directory, and knows
\* its subdirectories.
LEMMA ResultKnown ==
    ASSUME ParInv, WorkersInv, ReadsChildren(RootDirEntry),
           UNCHANGED <<faults, use_streaming, specVars, sent>>,
           NEW w \in Workers, AtWork(w), task[w].todo = <<>>, task[w].stage # "schedule",
           NEW result, HaveResult(w, result),
           NEW read, read = ReadOf(faults, EntryAt(faults, item[w].index_path)),
           result.ok = read.ok, result.list = read.list,
           NEW n, n = Len(ReadChildren(read.list)),
           \/ result.streamed = 0
           \/ /\ result.streamed = n /\ n > 0
              /\ \A i \in Nat : i < n => Path(Adding(item[w].index_path, i))
    PROVE  WorkersInv'
<1>0. PICK path : path = item[w].index_path OBVIOUS
<1> DEFINE p == item[w]
           e == EntryAt(faults, path)
           R == ResultAt(faults, path)
           kids == Kids(faults, e)
           todo == IF result.ok /\ result.streamed = 0 THEN WeightedChildren(result.list, p) ELSE <<>>
<1>1. p \in Known /\ OnTree(faults, path) /\ e.dir \in Dirs /\ p.value.dir = e.dir /\ faults \in FaultCases
  BY <1>0, ReadsNamed
<1>2. (~read.ok => read.list = <<>>) /\ Len(kids) \in Nat BY <1>0, <1>1, KidsAre
<1>3. kids = ReadChildren(read.list) /\ n = Len(kids) /\ n \in Nat BY <1>0, <1>2 DEF Kids
<1>4. DOMAIN task = Workers /\ IsTask(task[w]) BY DEF ParInv, TasksInv
<1>5. /\ DOMAIN task' = Workers /\ \A v \in Workers \ {w} : task'[v] = task[v]
      /\ task'[w] = [stage |-> "result", streamed |-> task[w].streamed, result |-> result, todo |-> todo]
  BY <1>4 DEF HaveResult, IsTask
<1>6. task'[w].stage = "result" /\ task'[w].result = result /\ task'[w].todo = todo BY <1>5
<1>7. item' = item /\ issued' = issued /\ faults' = faults /\ sent' = sent BY DEF specVars
<1>8. R = [value |-> [dir |-> e.dir, ok |-> read.ok, list |-> read.list], index_path |-> path,
           child_count |-> n]
  BY <1>0, <1>3 DEF ResultAt
<1> HIDE DEF p, todo, kids, e
<1>9. Known \subseteq Known'
  <2>1. \A v \in Workers : \A k \in DOMAIN task[v].todo : v # w
    <3>1. DOMAIN task[w].todo = {} OBVIOUS
    <3> QED BY <3>1
  <2>2. ASSUME NEW s \in Known PROVE s \in Known'
    <3>1. CASE s \in issued BY <1>7, <3>1, KnownAre
    <3>2. ASSUME NEW v \in Workers, NEW k \in DOMAIN task[v].todo, task[v].todo[k] = s PROVE s \in Known'
      <4>1. task'[v] = task[v] BY <1>5, <2>1, <3>2
      <4> QED BY <3>2, <4>1, KnownAre
    <3> QED BY <3>1, <3>2, KnownAre
  <2> QED BY <2>2
<1>10. OrderedResult(w)' = [value |-> [dir |-> p.value.dir, ok |-> result.ok, list |-> result.list],
                            index_path |-> path, child_count |-> result.streamed + Len(todo)]
  BY <1>0, <1>6, <1>7 DEF OrderedResult, p
<1>11. ASSUME Len(todo) + result.streamed = n, Len(todo) \in Nat, result.streamed \in Nat,
              \A i \in Nat : i < n => Path(Adding(path, i))'
       PROVE  TaskInv(w)'
  <2>1. result.streamed + Len(todo) = n BY <1>11
  <2>2. OrderedResult(w)' = R BY <1>1, <1>8, <1>10, <2>1
  <2>3. KidsKnown(path)' BY <1>7, <1>8, <1>11 DEF KidsKnown
  <2>4. item'[w].index_path = path BY <1>0, <1>7
  <2>5. ResultAt(faults', item'[w].index_path) = R BY <1>7, <2>4
  <2> QED BY <1>6, <2>2, <2>3, <2>4, <2>5 DEF TaskInv
<1>12. CASE result.ok /\ result.streamed = 0
  <2>1. todo = WeightedChildren(result.list, p) BY <1>12 DEF todo
  <2>2. todo = [k \in 1 .. n |-> Weighted(ReadDirSpec(kids[k]), Adding(path, k - 1), p.weight + Len(result.list))]
    BY <1>0, <1>3, <2>1 DEF WeightedChildren, p
  <2>3. DOMAIN todo = 1 .. n /\ Len(todo) = n BY <1>3, <2>2
  <2>4. \A k \in 1 .. n : todo[k].value = ReadDirSpec(kids[k]) /\ todo[k].index_path = Adding(path, k - 1)
    BY <2>2 DEF Weighted
  <2>5. ASSUME NEW k \in 1 .. n PROVE Named(todo[k])
    <3>1. k - 1 \in Nat /\ k - 1 < n /\ (k - 1) + 1 = k BY <1>3
    <3> DEFINE i == k - 1
    <3> HIDE DEF i
    <3>2. i \in Nat /\ i < Len(Kids(faults, EntryAt(faults, path))) /\ i + 1 = k BY <1>3, <3>1 DEF i, e, kids
    <3>3. OnTree(faults, Adding(path, i)) /\ EntryAt(faults, Adding(path, i)) = Kids(faults, EntryAt(faults, path))[i + 1]
      BY <1>1, <3>2, ChildOnTree
    <3>4. todo[k].index_path = Adding(path, i) /\ todo[k].value = ReadDirSpec(kids[k]) BY <2>4 DEF i
    <3> QED BY <3>2, <3>3, <3>4 DEF Named, kids, e
  <2>6. \A s \in Known' : s \in Known \/ Named(s)
    <3>1. ASSUME NEW v \in Workers, NEW k \in DOMAIN task'[v].todo
          PROVE  task'[v].todo[k] \in Known \/ Named(task'[v].todo[k])
      <4>1. CASE v = w BY <1>6, <2>3, <2>5, <4>1
      <4>2. CASE v # w BY <1>5, <4>2, KnownAre
      <4> QED BY <4>1, <4>2
    <3> QED BY <1>7, <3>1, KnownAre
  <2>7. ASSUME NEW i \in Nat, i < n PROVE Path(Adding(path, i))'
    <3>1. i + 1 \in 1 .. n /\ (i + 1) - 1 = i BY <1>3, <2>7
    <3>2. todo[i + 1] \in Known' BY <1>6, <2>3, <3>1, KnownAre
    <3>3. todo[i + 1].index_path = Adding(path, (i + 1) - 1) BY <2>4, <3>1
    <3> QED BY <3>1, <3>2, <3>3 DEF Path
  <2>8. TaskInv(w)'
    <3>1. Len(todo) + result.streamed = n /\ Len(todo) \in Nat /\ result.streamed \in Nat BY <1>3, <1>12, <2>3
    <3> QED BY <1>11, <2>7, <3>1
  <2> QED BY <1>5, <1>7, <1>9, <2>6, <2>8, TaskMoves
<1>13. CASE ~(result.ok /\ result.streamed = 0)
  <2>1. todo = <<>> BY <1>13 DEF todo
  <2>2. Len(todo) = 0 /\ DOMAIN todo = {} BY <2>1
  <2>3. \A s \in Known' : s \in Known \/ Named(s)
    <3>1. ASSUME NEW v \in Workers, NEW k \in DOMAIN task'[v].todo
          PROVE  task'[v].todo[k] \in Known
      <4>1. v # w BY <1>6, <2>2
      <4> QED BY <1>5, <4>1, KnownAre
    <3> QED BY <1>7, <3>1, KnownAre
  <2>4. result.streamed = n /\ \A i \in Nat : i < n => Path(Adding(path, i))
    <3>1. CASE result.streamed = 0
      <4>1. n = 0
        <5>1. Len(<<>>) = 0 OBVIOUS
        <5> QED BY <1>2, <1>3, <1>13, <3>1, <5>1, NoChildren
      <4> QED BY <3>1, <4>1
    <3>2. CASE result.streamed # 0 BY <1>0, <3>2
    <3> QED BY <3>1, <3>2
  <2>5. TaskInv(w)'
    <3>1. Len(todo) + result.streamed = n /\ Len(todo) \in Nat /\ result.streamed \in Nat BY <1>3, <2>2, <2>4
    <3>2. \A q : Path(q) => Path(q)' BY <1>7, <1>9, KnownGrows
    <3> QED BY <1>11, <2>4, <3>1, <3>2
  <2> QED BY <1>5, <1>7, <1>9, <2>3, <2>5, TaskMoves
<1> QED BY <1>12, <1>13

LEMMA StartReadWorks ==
    ASSUME ParInv, WorkersInv, ReadsChildren(RootDirEntry), NEW w \in Workers, StartRead(w)
    PROVE  WorkersInv'
<1> DEFINE p == item[w]
           core == CoreReadDir(p.value, Depth(p), DirFault(w))
           read == ReadOf(faults, EntryAt(faults, p.index_path))
<1>1. AtWork(w) /\ task[w].stage = "start" BY DEF StartRead, Walking, AtWork
<1>2. /\ UNCHANGED <<faults, use_streaming, specVars, sent>>
      /\ \/ use_streaming /\ task' = [task EXCEPT ![w].stage = "stream"]
         \/ HaveResult(w, core)
  BY DEF StartRead, config, resultVars
<1>3. DOMAIN task = Workers /\ task[w] = NoTask BY <1>1 DEF ParInv, TasksInv, Underway
<1>4. task[w].todo = <<>> /\ task[w].stage # "schedule" BY <1>3 DEF NoTask
<1>5. CASE use_streaming /\ task' = [task EXCEPT ![w].stage = "stream"]
  <2>1. /\ \A v \in Workers \ {w} : task'[v] = task[v]
        /\ task'[w].stage = "stream" /\ task'[w].todo = <<>> /\ task'[w].streamed = 0
    BY <1>3, <1>5 DEF NoTask
  <2>2. \A v \in Workers : task'[v].todo = task[v].todo BY <1>4, <2>1
  <2>3. Known' = Known BY <1>2, <2>2 DEF Known, specVars
  <2>4. TaskInv(w)'
    <3>1. item'[w] = item[w] /\ DirFault(w)' = DirFault(w) BY <1>2 DEF specVars, DirFault
    <3>2. StreamLimit(item[w].value.dir, DirFault(w)) \in Nat BY <1>1, ReadsDirectory, StreamLimitNat
    <3>3. 0 <= StreamLimit(item[w].value.dir, DirFault(w)) BY <3>2
    <3>4. \A i \in Nat : ~(i < 0) OBVIOUS
    <3>5. use_streaming' BY <1>2, <1>5
    <3> QED BY <2>1, <3>1, <3>3, <3>4, <3>5 DEF TaskInv
  <2> QED BY <1>1, <1>2, <1>4, <2>1, <2>3, <2>4, TaskMoves
<1>6. CASE HaveResult(w, core)
  <2>1. core = read /\ p.value.dir \in Dirs BY <1>1, ReadsNamed
  <2>2. core.streamed = 0
    <3>1. MayBefall(DirFault(w), p.value.dir) BY <1>1, ReadsDirectory
    <3> QED BY <2>1, <3>1, ReadAt
  <2> HIDE DEF core, read
  <2>3. core.ok = read.ok /\ core.list = read.list BY <2>1
  <2> QED BY <1>1, <1>2, <1>4, <1>6, <2>2, <2>3, ResultKnown DEF read
<1> QED BY <1>2, <1>5, <1>6

\* The subdirectories of a directory that is streamed.
LEMMA StreamsKids ==
    ASSUME StreamsCleanly, ParInv, use_streaming \in StreamingModes, WorkersInv,
           ReadsChildren(RootDirEntry), NEW w \in Workers, AtWork(w), task[w].stage = "stream",
           NEW n, n = StreamLimit(item[w].value.dir, DirFault(w)),
           NEW kids, kids = Kids(faults, EntryAt(faults, item[w].index_path)),
           NEW read, read = ReadOf(faults, EntryAt(faults, item[w].index_path)),
           NEW result, result = StreamingRead(item[w], DirFault(w), n)
    PROVE  /\ n \in Nat /\ result.ok = read.ok /\ result.list = read.list
           /\ (n = 0 => result.streamed = 0) /\ (n > 0 => result.streamed = n)
           /\ n > 0 => /\ Len(kids) = n
                       /\ \A i \in Nat : i < n =>
                             StreamedChild(item[w], i)
                               = Weighted(ReadDirSpec(kids[i + 1]), Adding(item[w].index_path, i), item[w].weight + 1)
<1> DEFINE p == item[w]
           fault == DirFault(w)
           core == CoreReadDir(p.value, Depth(p), fault)
<1>1. TRUE \in StreamingModes
  <2>1. use_streaming \in BOOLEAN BY ParAssumption
  <2>2. use_streaming BY DEF WorkersInv, TaskInv
  <2>3. use_streaming = TRUE BY <2>1, <2>2
  <2> QED BY <2>3
<1>2. ~TooDeep(Depth(p)) BY DEF ParInv, TasksInv, Underway, NoTask
<1>3. /\ p.value.dir \in Dirs /\ Depth(p) \in Nat /\ faults \in FaultCases
      /\ fault = faults[p.value.dir] /\ core = read
  BY ReadsNamed
<1>4. fault \in Faults BY <1>3, FaultCase
<1>5. n \in Nat BY <1>3, StreamLimitNat
<1> HIDE DEF p, fault, core
<1>6. n = StreamLimit(p.value.dir, fault) /\ result = StreamingRead(p, fault, n)
      /\ core = CoreReadDir(p.value, Depth(p), fault)
  BY DEF p, fault, core
<1>7. /\ result.ok = core.ok /\ result.list = core.list
      /\ (n = 0 => result.streamed = 0) /\ (n > 0 => result.streamed = n)
  BY <1>1, <1>2, <1>3, <1>4, <1>6, StreamedRead
<1>8. ASSUME n > 0
      PROVE  /\ Len(kids) = n
             /\ \A i \in Nat : i < n =>
                   StreamedChild(p, i)
                     = Weighted(ReadDirSpec(kids[i + 1]), Adding(p.index_path, i), p.weight + 1)
  <2>1. kids = ReadChildren(core.list) BY <1>3 DEF Kids
  <2>2. /\ Len(ReadChildren(core.list)) = n
        /\ \A i \in 1 .. n :
              ReadDirSpec(AtDepth(StreamedDirs(p.value.dir)[i], Depth(p) + 1, Ancestors(p.value)))
                = ReadDirSpec(ReadChildren(core.list)[i])
    BY <1>1, <1>2, <1>3, <1>4, <1>6, <1>8, StreamedChildren
  <2>3. ASSUME NEW i \in Nat, i < n
        PROVE  StreamedChild(p, i)
                 = Weighted(ReadDirSpec(kids[i + 1]), Adding(p.index_path, i), p.weight + 1)
    <3>1. i + 1 \in 1 .. n BY <1>5, <2>3
    <3>2. ReadDirSpec(AtDepth(StreamedDirs(p.value.dir)[i + 1], Depth(p) + 1, Ancestors(p.value)))
            = ReadDirSpec(kids[i + 1])
      BY <2>1, <2>2, <3>1
    <3> QED BY <3>2 DEF StreamedChild
  <2> QED BY <2>1, <2>2, <2>3
<1> QED BY <1>3, <1>5, <1>7, <1>8 DEF p

LEMMA EndStreamWorks ==
    ASSUME StreamsCleanly, ParInv, use_streaming \in StreamingModes, WorkersInv,
           ReadsChildren(RootDirEntry), ~stop, NEW w \in Workers, EndStream(w)
    PROVE  WorkersInv'
<1> DEFINE n == task[w].streamed
           result == StreamingRead(item[w], DirFault(w), n)
           read == ReadOf(faults, EntryAt(faults, item[w].index_path))
           kids == Kids(faults, EntryAt(faults, item[w].index_path))
<1>1. AtWork(w) /\ task[w].stage = "stream" BY DEF EndStream, Walking, AtWork
<1>2. UNCHANGED <<faults, use_streaming, specVars, sent>> /\ HaveResult(w, result)
  BY DEF EndStream, config, resultVars
<1>3. n = StreamLimit(item[w].value.dir, DirFault(w)) BY DEF EndStream
<1>4. task[w].todo = <<>> /\ \A i \in Nat : i < n => Path(Adding(item[w].index_path, i))
  BY <1>1 DEF WorkersInv, TaskInv
<1>5. task[w].stage # "schedule" BY <1>1
<1> HIDE DEF n, result, read, kids
<1>6. /\ n \in Nat /\ result.ok = read.ok /\ result.list = read.list
      /\ (n = 0 => result.streamed = 0) /\ (n > 0 => result.streamed = n) /\ (n > 0 => Len(kids) = n)
  <2>1. result = StreamingRead(item[w], DirFault(w), n) BY DEF result
  <2>2. kids = Kids(faults, EntryAt(faults, item[w].index_path))
        /\ read = ReadOf(faults, EntryAt(faults, item[w].index_path))
    BY DEF kids, read
  <2> QED BY <1>1, <1>3, <2>1, <2>2, StreamsKids
<1>7. kids = ReadChildren(read.list) BY DEF kids, read, Kids
<1>8. \/ result.streamed = 0
      \/ /\ result.streamed = Len(ReadChildren(read.list)) /\ Len(ReadChildren(read.list)) > 0
         /\ \A i \in Nat : i < Len(ReadChildren(read.list)) => Path(Adding(item[w].index_path, i))
  BY <1>4, <1>6, <1>7
<1> QED BY <1>1, <1>2, <1>4, <1>5, <1>6, <1>8, ResultKnown DEF read

LEMMA SendResultWorks ==
    ASSUME ParInv, WorkersInv, ReadsChildren(RootDirEntry), ~ReceiverGone, NEW w \in Workers, SendResult(w)
    PROVE  /\ WorkersInv'
           /\ sent' = sent \cup {OrderedResult(w)} /\ OrderedResult(w) \notin sent
           /\ result_channel' = Append(result_channel, OrderedResult(w))
           /\ UNCHANGED <<result_buffer, looking_for, child_count_stack, connected, at, returned>>
<1>0. PICK p : p = item[w] OBVIOUS
<1> DEFINE path == p.index_path
<1>1. AtWork(w) /\ task[w].stage = "result" BY DEF SendResult, Walking, AtWork
<1>2. /\ UNCHANGED <<faults, use_streaming, specVars>>
      /\ sent' = sent \cup {OrderedResult(w)} /\ result_channel' = Append(result_channel, OrderedResult(w))
      /\ UNCHANGED <<result_buffer, looking_for, child_count_stack, connected, at, returned>>
      /\ task' = [task EXCEPT ![w].stage = "schedule"]
  BY DEF SendResult, OQ!SendResult, config
<1>3. DOMAIN task = Workers /\ IsTask(task[w]) BY DEF ParInv, TasksInv
<1>4. /\ \A v \in Workers \ {w} : task'[v] = task[v]
      /\ task'[w].stage = "schedule" /\ task'[w].todo = task[w].todo
  BY <1>2, <1>3 DEF IsTask
<1>5. \A v \in Workers : task'[v].todo = task[v].todo BY <1>4
<1>6. Known' = Known BY <1>2, <1>5 DEF Known, specVars
<1>7. OrderedResult(w) = ResultAt(faults, path) /\ KidsKnown(path)
  BY <1>0, <1>1 DEF WorkersInv, TaskInv
<1>8. item' = item /\ issued' = issued /\ faults' = faults BY <1>2 DEF specVars
<1>9. /\ p \in issued /\ ~Waits(p)
      /\ \A v \in Workers : AtWork(v) /\ item[v] = p => v = w
      /\ Unique(issued)
  BY <1>0, <1>1, QueueFacts DEF ParInv, PathsInv
<1>10. OrderedResult(w) \notin sent
  <2>1. ASSUME OrderedResult(w) \in sent PROVE FALSE
    <3>1. PICK s \in issued :
             /\ OrderedResult(w) = ResultAt(faults, s.index_path)
             /\ \A v \in Workers : AtWork(v) /\ item[v] = s => task[v].stage = "schedule"
      BY <2>1 DEF WorkersInv, SentInv, SentFrom
    <3>2. s.index_path = path
      <4>1. ResultAt(faults, s.index_path).index_path = s.index_path BY ResultIs
      <4>2. ResultAt(faults, path).index_path = path BY ResultIs
      <4> QED BY <1>7, <3>1, <4>1, <4>2
    <3>3. s = p BY <1>9, <3>2 DEF Unique
    <3> QED BY <1>0, <1>1, <3>1, <3>3
  <2> QED BY <2>1
<1>11. TaskInv(w)'
  <2>1. task'[w].stage # "stream" /\ task'[w].stage # "result" BY <1>4
  <2>2. ResultAt(faults', item'[w].index_path) \in sent' BY <1>0, <1>2, <1>7, <1>8
  <2> QED BY <2>1, <2>2 DEF TaskInv
<1>12. SentFrom(ResultAt(faults, path))'
  <2>1. ~Waits(p)' BY <1>2, <1>9 DEF Waits, specVars
  <2>2. \A v \in Workers : AtWork(v)' <=> AtWork(v) BY <1>2 DEF AtWork, specVars
  <2>3. KidsKnown(path)' BY <1>6, <1>7, <1>8, KnownGrows
  <2>4. \A v \in Workers : AtWork(v)' /\ item'[v] = p => task'[v].stage = "schedule"
    BY <1>4, <1>8, <1>9, <2>2
  <2>5. ResultAt(faults, path)' = ResultAt(faults', p.index_path) OBVIOUS
  <2> QED BY <1>8, <1>9, <2>1, <2>3, <2>4, <2>5 DEF SentFrom
<1>13. \A r \in sent' : r \in sent \/ SentFrom(r)'
  <2>1. PICK x : x = ResultAt(faults, path) OBVIOUS
  <2>2. SentFrom(x)' BY <1>8, <1>12, <2>1
  <2> QED BY <1>2, <1>7, <2>1, <2>2
<1>14. WorkersInv'
  <2>1. task[w].stage # "schedule" BY <1>1
  <2> QED BY <1>1, <1>2, <1>4, <1>6, <1>11, <1>13, <2>1, TaskMoves
<1> QED BY <1>2, <1>10, <1>14

\* What a push does to what waits.
LEMMA PushWaits ==
    ASSUME ParInv, NEW w \in Workers, NEW c, PQ!PushCount(w, c)
    PROVE  /\ issued' = issued \cup {c} /\ item' = item
           /\ AtWork(w) /\ AtWork(w)' /\ \A v \in Workers : AtWork(v)' <=> AtWork(v)
           /\ Waits(c)' /\ \A s : Waits(s)' <=> Waits(s) \/ s = c
<1>1. /\ pc \in [Workers -> {"stop", "drain", "pop", "load", "wait", "lock", "walk", "send", "exit"}]
      /\ sending \in [Workers -> SpecSet \cup {NoSpec}]
  BY QueueFacts DEF ParInv
<1>2. /\ issued' = issued \cup {c} /\ item' = item
      /\ channel' = channel /\ receive_buffer' = receive_buffer
      /\ pc[w] = "walk" /\ pc'[w] = "send" /\ \A v \in Workers \ {w} : pc'[v] = pc[v]
      /\ sending'[w] = c /\ \A v \in Workers \ {w} : sending'[v] = sending[v]
  BY <1>1 DEF PQ!PushCount, PQ!Goto
<1>3. AtWork(w) /\ AtWork(w)' /\ \A v \in Workers : AtWork(v)' <=> AtWork(v) BY <1>2 DEF AtWork
<1>4. Waits(c)' BY <1>2 DEF Waits
<1>5. \A s : Waits(s) => Waits(s)' BY <1>2 DEF Waits
<1>6. \A s : Waits(s)' => Waits(s) \/ s = c BY <1>2 DEF Waits
<1> QED BY <1>2, <1>3, <1>4, <1>5, <1>6

\* A push, by the worker of the parent.
LEMMA PushWorks ==
    ASSUME ParInv, ParInv', WorkersInv, UNCHANGED <<faults, use_streaming, sent>>,
           NEW w \in Workers, NEW c, PQ!PushCount(w, c), c \notin issued,
           \A v \in Workers \ {w} : task'[v] = task[v], task'[w].stage = task[w].stage,
           Known \subseteq Known', \A s \in Known' : s \in Known \/ Named(s), TaskInv(w)'
    PROVE  WorkersInv'
<1>1. /\ issued' = issued \cup {c} /\ item' = item
      /\ AtWork(w) /\ AtWork(w)' /\ \A v \in Workers : AtWork(v)' <=> AtWork(v)
      /\ Waits(c)' /\ \A s : Waits(s)' <=> Waits(s) \/ s = c
  BY PushWaits
<1>2. issued \subseteq issued' /\ sent \subseteq sent' /\ UNCHANGED <<faults, use_streaming>> BY <1>1
<1>3. (\A s \in issued' : s \in issued \/ Waits(s)') /\ \A r \in sent' : r \in sent \/ SentFrom(r)' BY <1>1
<1>4. \A v \in Workers \ {w} : (AtWork(v)' <=> AtWork(v)) /\ item'[v] = item[v] /\ task'[v] = task[v] BY <1>1
<1>5. /\ \A s \in issued : Waits(s) => Waits(s)' \/ (AtWork(w)' /\ item'[w] = s)
      /\ \A s \in issued : Waits(s)' => Waits(s)
  BY <1>1
<1>6. item'[w] = item[w] BY <1>1
<1> QED BY <1>1, <1>2, <1>3, <1>4, <1>5, <1>6, WorkersStep

LEMMA StreamChildWorks ==
    ASSUME StreamsCleanly, ParInv, ParInv', use_streaming \in StreamingModes, WorkersInv,
           ReadsChildren(RootDirEntry), NEW w \in Workers, StreamChild(w)
    PROVE  WorkersInv'
<1>0. PICK p, n, c : p = item[w] /\ n = task[w].streamed /\ c = StreamedChild(p, n) OBVIOUS
<1> DEFINE path == p.index_path
           e == EntryAt(faults, path)
           kids == Kids(faults, e)
           limit == StreamLimit(p.value.dir, DirFault(w))
<1>1. AtWork(w) /\ task[w].stage = "stream" BY DEF StreamChild, Walking, AtWork
<1>2. /\ n < limit /\ PQ!PushCount(w, c) /\ UNCHANGED <<faults, use_streaming, sent>>
      /\ task' = [task EXCEPT ![w].streamed = n + 1]
  BY <1>0 DEF StreamChild, config, resultVars
<1>3. /\ n \in Nat /\ Fresh(issued, path, n) /\ DOMAIN task = Workers /\ IsTask(task[w])
  BY <1>0, <1>1 DEF ParInv, TasksInv, Underway, NoTask
<1>4. /\ use_streaming /\ task[w].todo = <<>>
      /\ \A i \in Nat : i < n => Path(Adding(path, i))
  BY <1>0, <1>1 DEF WorkersInv, TaskInv
<1>5. OnTree(faults, path) /\ p.value.dir \in Dirs BY <1>0, <1>1, ReadsNamed
<1>6. /\ \A v \in Workers \ {w} : task'[v] = task[v]
      /\ task'[w].stage = "stream" /\ task'[w].streamed = n + 1 /\ task'[w].todo = task[w].todo
  BY <1>1, <1>2, <1>3 DEF IsTask
<1>7. limit \in Nat BY <1>5, StreamLimitNat
<1> HIDE DEF limit
<1>8. /\ Len(kids) = limit
      /\ \A i \in Nat : i < limit =>
            StreamedChild(p, i) = Weighted(ReadDirSpec(kids[i + 1]), Adding(path, i), p.weight + 1)
  <2>1. limit = StreamLimit(item[w].value.dir, DirFault(w)) BY <1>0 DEF limit
  <2>2. limit > 0 BY <1>2, <1>3, <1>7
  <2>3. kids = Kids(faults, EntryAt(faults, item[w].index_path)) BY <1>0
  <2>4. PICK read, result : /\ read = ReadOf(faults, EntryAt(faults, item[w].index_path))
                            /\ result = StreamingRead(item[w], DirFault(w), limit)
    OBVIOUS
  <2> HIDE DEF kids
  <2>5. /\ Len(kids) = limit
        /\ \A i \in Nat : i < limit =>
              StreamedChild(item[w], i)
                = Weighted(ReadDirSpec(kids[i + 1]), Adding(item[w].index_path, i), item[w].weight + 1)
    BY <1>1, <2>1, <2>2, <2>3, <2>4, StreamsKids
  <2> QED BY <1>0, <2>5
<1>9. c = Weighted(ReadDirSpec(kids[n + 1]), Adding(path, n), p.weight + 1) BY <1>0, <1>2, <1>3, <1>8
<1>10. c.index_path = Adding(path, n) /\ c.value = ReadDirSpec(kids[n + 1]) BY <1>9 DEF Weighted
<1>11. c \notin issued
  <2>1. n >= n BY <1>3
  <2> QED BY <1>3, <1>10, <2>1 DEF Fresh
<1>12. Named(c)
  <2>1. n < Len(Kids(faults, EntryAt(faults, path))) BY <1>2, <1>8
  <2>2. OnTree(faults, Adding(path, n)) /\ EntryAt(faults, Adding(path, n)) = kids[n + 1]
    BY <1>3, <1>5, <2>1, ChildOnTree
  <2> QED BY <1>10, <2>2 DEF Named
<1>13. issued' = issued \cup {c} /\ item' = item BY <1>2, PushWaits
<1>14. \A v \in Workers : task'[v].todo = task[v].todo BY <1>6
<1>15. Known' = Known \cup {c} BY <1>13, <1>14 DEF Known
<1>16. Known \subseteq Known' /\ \A s \in Known' : s \in Known \/ Named(s) BY <1>12, <1>15
<1>17. TaskInv(w)'
  <2>1. item'[w] = p /\ DirFault(w)' = DirFault(w) BY <1>0, <1>2, <1>13 DEF DirFault
  <2>2. n + 1 <= limit BY <1>2, <1>3, <1>7
  <2>3. \A q : Path(q) => Path(q)' BY <1>2, <1>16, KnownGrows
  <2>4. Path(Adding(path, n))' BY <1>10, <1>15 DEF Path
  <2>5. ASSUME NEW i \in Nat, i < n + 1 PROVE Path(Adding(path, i))'
    <3>1. i < n \/ i = n BY <1>3, <2>5
    <3> QED BY <1>4, <2>3, <2>4, <3>1
  <2>6. use_streaming' BY <1>2, <1>4
  <2>7. task'[w].todo = <<>> BY <1>4, <1>6
  <2>8. n + 1 <= StreamLimit(item'[w].value.dir, DirFault(w)') BY <2>1, <2>2 DEF limit
  <2>9. \A i \in Nat : i < task'[w].streamed => Path(Adding(item[w].index_path, i))' BY <1>6, <2>1, <2>5
  <2>10. task'[w].stage # "result" /\ task'[w].stage # "schedule" BY <1>6
  <2> QED BY <1>6, <2>6, <2>7, <2>8, <2>9, <2>10 DEF TaskInv
<1>18. task'[w].stage = task[w].stage BY <1>1, <1>6
<1> QED BY <1>2, <1>6, <1>11, <1>16, <1>17, <1>18, PushWorks

LEMMA ScheduleChildWorks ==
    ASSUME ParInv, ParInv', WorkersInv, NEW w \in Workers, ScheduleChild(w)
    PROVE  WorkersInv'
<1>0. PICK todo, c : todo = task[w].todo /\ c = Head(todo) OBVIOUS
<1>1. AtWork(w) /\ task[w].stage = "schedule" BY DEF ScheduleChild, Walking, AtWork
<1>2. /\ todo # <<>> /\ PQ!PushCount(w, c) /\ UNCHANGED <<faults, use_streaming, sent>>
      /\ task' = [task EXCEPT ![w].todo = Tail(todo)]
  BY <1>0 DEF ScheduleChild, config, resultVars
<1>3. /\ todo \in Seq(SpecSet) /\ DOMAIN task = Workers /\ IsTask(task[w])
      /\ \E m \in Nat : /\ Fresh(issued, item[w].index_path, m)
                        /\ \A k \in DOMAIN todo :
                              todo[k].index_path = Adding(item[w].index_path, (m + k) - 1)
  BY <1>0, <1>1 DEF ParInv, TasksInv, Underway, NoTask
<1>4. /\ \A v \in Workers \ {w} : task'[v] = task[v]
      /\ task'[w].stage = "schedule" /\ task'[w].todo = Tail(todo)
  BY <1>1, <1>2, <1>3 DEF IsTask
<1>5. /\ Len(todo) \in Nat \ {0} /\ DOMAIN todo = 1 .. Len(todo) /\ c = todo[1]
      /\ Tail(todo) \in Seq(SpecSet) /\ Len(Tail(todo)) = Len(todo) - 1
      /\ \A k \in 1 .. (Len(todo) - 1) : Tail(todo)[k] = todo[k + 1]
  BY <1>0, <1>2, <1>3, EmptySeq, LenProperties, HeadTailProperties
<1>6. DOMAIN Tail(todo) = 1 .. (Len(todo) - 1) BY <1>5, LenProperties
<1>7. 1 \in DOMAIN todo BY <1>5
<1>8. c \notin issued
  <2>1. PICK m \in Nat : /\ Fresh(issued, item[w].index_path, m)
                         /\ \A k \in DOMAIN todo :
                               todo[k].index_path = Adding(item[w].index_path, (m + k) - 1)
    BY <1>3
  <2>2. (m + 1) - 1 = m /\ m >= m OBVIOUS
  <2>3. c.index_path = Adding(item[w].index_path, (m + 1) - 1) BY <1>5, <1>7, <2>1
  <2> QED BY <2>1, <2>2, <2>3 DEF Fresh
<1>9. issued' = issued \cup {c} /\ item' = item BY <1>2, PushWaits
<1>10. Known' = Known
  <2>1. ASSUME NEW s \in Known PROVE s \in Known'
    <3>1. CASE s \in issued BY <1>9, <3>1, KnownAre
    <3>2. ASSUME NEW v \in Workers, NEW k \in DOMAIN task[v].todo, task[v].todo[k] = s PROVE s \in Known'
      <4>1. CASE v # w BY <1>4, <3>2, <4>1, KnownAre
      <4>2. CASE v = w /\ k = 1
        <5>1. s = c BY <1>0, <1>5, <3>2, <4>2
        <5> QED BY <1>9, <5>1, KnownAre
      <4>3. CASE v = w /\ k # 1
        <5>1. k \in 1 .. Len(todo) BY <1>0, <1>5, <3>2, <4>3
        <5>2. k - 1 \in 1 .. (Len(todo) - 1) /\ (k - 1) + 1 = k BY <1>5, <4>3, <5>1
        <5>3. Tail(todo)[k - 1] = s /\ k - 1 \in DOMAIN Tail(todo) BY <1>0, <1>5, <1>6, <3>2, <4>3, <5>2
        <5> QED BY <1>4, <5>3, KnownAre
      <4> QED BY <4>1, <4>2, <4>3
    <3> QED BY <3>1, <3>2, KnownAre
  <2>2. ASSUME NEW s \in Known' PROVE s \in Known
    <3>1. CASE s \in issued'
      <4>1. c \in Known BY <1>0, <1>5, <1>7, KnownAre
      <4> QED BY <1>9, <3>1, <4>1, KnownAre
    <3>2. ASSUME NEW v \in Workers, NEW k \in DOMAIN task'[v].todo, task'[v].todo[k] = s PROVE s \in Known
      <4>1. CASE v # w BY <1>4, <3>2, <4>1, KnownAre
      <4>2. CASE v = w
        <5>1. k \in 1 .. (Len(todo) - 1) /\ Tail(todo)[k] = s BY <1>4, <1>6, <3>2, <4>2
        <5>2. k + 1 \in DOMAIN todo /\ todo[k + 1] = s BY <1>5, <5>1
        <5> QED BY <1>0, <5>2, KnownAre
      <4> QED BY <4>1, <4>2
    <3> QED BY <3>1, <3>2, KnownAre
  <2> QED BY <2>1, <2>2
<1>11. TaskInv(w)'
  <2>1. ResultAt(faults, item[w].index_path) \in sent BY <1>1 DEF WorkersInv, TaskInv
  <2>2. ResultAt(faults', item'[w].index_path) \in sent' BY <1>2, <1>9, <2>1
  <2>3. task'[w].stage # "stream" /\ task'[w].stage # "result" BY <1>4
  <2> QED BY <2>2, <2>3 DEF TaskInv
<1>12. task'[w].stage = task[w].stage BY <1>1, <1>4
<1> QED BY <1>2, <1>4, <1>8, <1>10, <1>11, <1>12, PushWorks

LEMMA FinishWorks ==
    ASSUME ParInv, WorkersInv, NEW w \in Workers, Finish(w)
    PROVE  WorkersInv'
<1>1. AtWork(w) /\ task[w].stage = "schedule" /\ task[w].todo = <<>>
  BY DEF Finish, Walking, AtWork
<1>2. PQ!CompleteItem(w) /\ UNCHANGED <<faults, use_streaming, sent>> /\ task' = [task EXCEPT ![w] = NoTask]
  BY DEF Finish, config, resultVars
<1>3. /\ pc \in [Workers -> {"stop", "drain", "pop", "load", "wait", "lock", "walk", "send", "exit"}]
      /\ item \in [Workers -> SpecSet \cup {NoSpec}] /\ DOMAIN task = Workers
  BY QueueFacts DEF ParInv, TasksInv
<1>4. /\ issued' = issued /\ channel' = channel /\ receive_buffer' = receive_buffer
      /\ sending' = sending /\ pc[w] = "walk" /\ pc'[w] = "lock"
      /\ \A v \in Workers \ {w} : pc'[v] = pc[v] /\ item'[v] = item[v]
  BY <1>2, <1>3 DEF PQ!CompleteItem, PQ!Goto
<1>5. task'[w] = NoTask /\ \A v \in Workers \ {w} : task'[v] = task[v] BY <1>2, <1>3
<1>6. \A s : Waits(s)' <=> Waits(s) BY <1>4 DEF Waits
<1>7. ~AtWork(w)' /\ \A v \in Workers \ {w} : AtWork(v)' <=> AtWork(v) BY <1>4 DEF AtWork
<1>8. \A v \in Workers : task'[v].todo = task[v].todo BY <1>1, <1>5 DEF NoTask
<1>9. Known' = Known BY <1>4, <1>8 DEF Known
<1>10. ResultAt(faults, item[w].index_path) \in sent' BY <1>1, <1>2 DEF WorkersInv, TaskInv
<1>11. UNCHANGED <<faults, use_streaming>> /\ sent' = sent BY <1>2
<1> QED BY <1>4, <1>5, <1>6, <1>7, <1>9, <1>10, <1>11, WorkersStep

\* A worker in next(): what waits goes on waiting, or is the worker's.
LEMMA TakeNextWaits ==
    ASSUME ParInv, NEW w \in Workers, PQ!TakeNext(w)
    PROVE  /\ issued' = issued /\ ~AtWork(w)
           /\ \A v \in Workers \ {w} : (AtWork(v)' <=> AtWork(v)) /\ item'[v] = item[v]
           /\ \A s : Waits(s)' => Waits(s)
           /\ \A s : Waits(s) => Waits(s)' \/ (AtWork(w)' /\ item'[w] = s)
           /\ AtWork(w)' => Waits(item'[w])
<1>1. /\ pc \in [Workers -> {"stop", "drain", "pop", "load", "wait", "lock", "walk", "send", "exit"}]
      /\ item \in [Workers -> SpecSet \cup {NoSpec}]
      /\ channel \in Seq(SpecSet)
  BY QueueFacts DEF ParInv
<1> USE DEF PQ!Goto
<1>2. CASE PQ!Pop(w) /\ pc'[w] = "walk"
  <2>1. PICK top \in receive_buffer :
           item' = [item EXCEPT ![w] = top] /\ receive_buffer' = receive_buffer \ {top}
    BY <1>1, <1>2 DEF PQ!Pop
  <2>2. /\ issued' = issued /\ channel' = channel /\ sending' = sending
        /\ pc[w] = "pop" /\ pc' = [pc EXCEPT ![w] = "walk"]
    BY <1>1, <1>2 DEF PQ!Pop
  <2>3. /\ item'[w] = top
        /\ \A v \in Workers \ {w} : pc'[v] = pc[v] /\ item'[v] = item[v]
    BY <1>1, <2>1, <2>2
  <2>4. Waits(top) BY DEF Waits
  <2>5. \A s : Waits(s)' => Waits(s) BY <1>2, <2>1, <2>2, <2>3 DEF Waits
  <2>6. \A s : Waits(s) => Waits(s)' \/ s = top BY <1>2, <2>1, <2>2, <2>3 DEF Waits
  <2>7. ~AtWork(w) /\ AtWork(w)' /\ \A v \in Workers \ {w} : AtWork(v)' <=> AtWork(v)
    BY <1>2, <2>2, <2>3 DEF AtWork
  <2> QED BY <2>2, <2>3, <2>4, <2>5, <2>6, <2>7
<1>3. CASE ~(PQ!Pop(w) /\ pc'[w] = "walk")
  <2>1. /\ issued' = issued /\ item' = item /\ sending' = sending
        /\ pc[w] \notin {"walk", "send"} /\ pc'[w] \notin {"walk", "send"}
        /\ \A v \in Workers \ {w} : pc'[v] = pc[v]
        /\ \/ PQ!Receive
           \/ UNCHANGED <<channel, receive_buffer>>
    BY <1>1, <1>3 DEF PQ!TakeNext, PQ!Lock, PQ!CheckStop, PQ!TryRecv, PQ!Pop, PQ!LoadPending,
                      PQ!RecvTimeout, PQ!Disconnected
  <2>2. \A s : Waits(s)' <=> Waits(s)
    <3>1. CASE PQ!Receive
      <4>1. channel # <<>> /\ channel' = Tail(channel)
            /\ receive_buffer' = receive_buffer \cup {Head(channel)}
        BY <3>1 DEF PQ!Receive
      <4>2. /\ Len(channel) \in Nat \ {0} /\ DOMAIN channel = 1 .. Len(channel)
            /\ Head(channel) = channel[1]
            /\ Tail(channel) \in Seq(SpecSet) /\ Len(Tail(channel)) = Len(channel) - 1
            /\ \A k \in 1 .. (Len(channel) - 1) : Tail(channel)[k] = channel[k + 1]
        BY <1>1, <4>1, EmptySeq, LenProperties, HeadTailProperties
      <4>3. DOMAIN Tail(channel) = 1 .. (Len(channel) - 1) BY <4>2, LenProperties
      <4>4. 1 \in DOMAIN channel /\ \A k \in 1 .. (Len(channel) - 1) : k + 1 \in DOMAIN channel BY <4>2
      <4>5. \A k \in DOMAIN Tail(channel) : \E j \in DOMAIN channel : Tail(channel)[k] = channel[j]
        BY <4>2, <4>3, <4>4
      <4>6. ASSUME NEW k \in DOMAIN channel
            PROVE  channel[k] = Head(channel) \/ \E j \in DOMAIN Tail(channel) : Tail(channel)[j] = channel[k]
        <5>1. CASE k = 1 BY <4>2, <5>1
        <5>2. CASE k # 1
          <6>1. k - 1 \in 1 .. (Len(channel) - 1) /\ (k - 1) + 1 = k BY <4>2, <5>2
          <6> QED BY <4>2, <4>3, <6>1
        <5> QED BY <5>1, <5>2
      <4>7. \A s : (\E v \in Workers : pc'[v] = "send" /\ sending'[v] = s)
                      <=> (\E v \in Workers : pc[v] = "send" /\ sending[v] = s)
        BY <2>1
      <4>8. \A s : (\/ \E k \in DOMAIN channel' : channel'[k] = s
                    \/ s \in receive_buffer')
                      <=> (\/ \E k \in DOMAIN channel : channel[k] = s
                           \/ s \in receive_buffer)
        BY <4>1, <4>2, <4>4, <4>5, <4>6
      <4> QED BY <4>7, <4>8 DEF Waits
    <3>2. CASE UNCHANGED <<channel, receive_buffer>> BY <2>1, <3>2 DEF Waits
    <3> QED BY <2>1, <3>1, <3>2
  <2>3. ~AtWork(w) /\ ~AtWork(w)' /\ \A v \in Workers \ {w} : AtWork(v)' <=> AtWork(v) BY <2>1 DEF AtWork
  <2> QED BY <2>1, <2>2, <2>3
<1> QED BY <1>2, <1>3

\* The second half of a push.
LEMMA PushSendWaits ==
    ASSUME ParInv, NEW w \in Workers, PQ!PushSend(w)
    PROVE  /\ issued' = issued /\ item' = item
           /\ \A v \in Workers : AtWork(v)' <=> AtWork(v)
           /\ \A s : Waits(s)' <=> Waits(s)
           /\ AtWork(w)
<1>2. /\ pc \in [Workers -> {"stop", "drain", "pop", "load", "wait", "lock", "walk", "send", "exit"}]
      /\ sending \in [Workers -> SpecSet \cup {NoSpec}]
      /\ channel \in Seq(SpecSet) /\ issued \subseteq SpecSet
      /\ \A s : Waits(s) => s \in issued
  BY QueueFacts DEF ParInv
<1>4. /\ issued' = issued /\ item' = item /\ receive_buffer' = receive_buffer
      /\ pc[w] = "send" /\ pc'[w] = "walk" /\ \A v \in Workers \ {w} : pc'[v] = pc[v]
      /\ \A v \in Workers \ {w} : sending'[v] = sending[v]
      /\ channel' = Append(channel, sending[w])
  BY <1>2 DEF PQ!PushSend, PQ!Goto
<1>5. Waits(sending[w]) BY <1>4 DEF Waits
<1>6. sending[w] \in SpecSet BY <1>2, <1>5
<1>7. /\ DOMAIN channel \subseteq DOMAIN channel' /\ \A k \in DOMAIN channel : channel'[k] = channel[k]
      /\ \E k \in DOMAIN channel' : channel'[k] = sending[w]
      /\ \A k \in DOMAIN channel' : channel'[k] = sending[w] \/ (k \in DOMAIN channel /\ channel'[k] = channel[k])
  <2>1. /\ channel' \in Seq(SpecSet) /\ Len(channel') = Len(channel) + 1
        /\ \A k \in 1 .. Len(channel) : channel'[k] = channel[k]
        /\ channel'[Len(channel) + 1] = sending[w]
    BY <1>2, <1>4, <1>6, AppendProperties
  <2>2. Len(channel) \in Nat /\ DOMAIN channel = 1 .. Len(channel) BY <1>2, LenProperties
  <2>3. DOMAIN channel' = 1 .. (Len(channel) + 1) BY <2>1, LenProperties
  <2>4. /\ \A k \in 1 .. (Len(channel) + 1) : k = Len(channel) + 1 \/ k \in 1 .. Len(channel)
        /\ \A k \in 1 .. Len(channel) : k \in 1 .. (Len(channel) + 1)
        /\ Len(channel) + 1 \in 1 .. (Len(channel) + 1)
    BY <2>2
  <2> QED BY <2>1, <2>2, <2>3, <2>4
<1>8. \A s : Waits(s)' => Waits(s) BY <1>4, <1>5, <1>7 DEF Waits
<1>9. ASSUME NEW s, Waits(s) PROVE Waits(s)'
  <2>1. CASE \E k \in DOMAIN channel : channel[k] = s BY <1>7, <2>1 DEF Waits
  <2>2. CASE s \in receive_buffer BY <1>4, <2>2 DEF Waits
  <2>3. ASSUME NEW v \in Workers, pc[v] = "send", sending[v] = s PROVE Waits(s)'
    <3>1. CASE v = w BY <1>7, <2>3, <3>1 DEF Waits
    <3>2. CASE v # w BY <1>4, <2>3, <3>2 DEF Waits
    <3> QED BY <3>1, <3>2
  <2> QED BY <1>9, <2>1, <2>2, <2>3 DEF Waits
<1>10. AtWork(w) /\ \A v \in Workers : AtWork(v)' <=> AtWork(v) BY <1>4 DEF AtWork
<1> QED BY <1>4, <1>8, <1>9, <1>10

LEMMA QueueWorks ==
    ASSUME ParInv, WorkersInv, NEW w \in Workers, Queue(w)
    PROVE  WorkersInv'
<1>1. UNCHANGED <<faults, use_streaming, sent, task>> BY DEF Queue, config, resultVars
<1>2. UNCHANGED <<faults, use_streaming>> /\ sent' = sent /\ task' = task BY <1>1
<1>3. CASE PQ!TakeNext(w)
  <2>1. /\ issued' = issued /\ ~AtWork(w)
        /\ \A v \in Workers \ {w} : (AtWork(v)' <=> AtWork(v)) /\ item'[v] = item[v]
        /\ \A s : Waits(s)' => Waits(s)
        /\ \A s : Waits(s) => Waits(s)' \/ (AtWork(w)' /\ item'[w] = s)
        /\ AtWork(w)' => Waits(item'[w])
    BY <1>3, TakeNextWaits
  <2>2. Known' = Known BY <1>2, <2>1 DEF Known
  <2>3. task[w] = NoTask BY <2>1 DEF ParInv, TasksInv
  <2>4. task'[w].stage = "start" BY <1>2, <2>3 DEF NoTask
  <2>5. TaskInv(w)' BY <2>4 DEF TaskInv
  <2> QED BY <1>2, <2>1, <2>2, <2>5, WorkersStep
<1>4. CASE PQ!PushSend(w)
  <2>1. /\ issued' = issued /\ item' = item /\ AtWork(w)
        /\ \A v \in Workers : AtWork(v)' <=> AtWork(v)
        /\ \A s : Waits(s)' <=> Waits(s)
    BY <1>4, PushSendWaits
  <2>2. Known' = Known BY <1>2, <2>1 DEF Known
  <2>3. TaskInv(w)'
    <3>1. TaskInv(w) BY <2>1 DEF WorkersInv
    <3>2. (\A q : Path(q) => Path(q)') /\ \A q : KidsKnown(q) => KidsKnown(q)' BY <1>2, <2>2, KnownGrows
    <3>3. OrderedResult(w)' = OrderedResult(w) /\ DirFault(w)' = DirFault(w)
      BY <1>2, <2>1 DEF OrderedResult, DirFault
    <3>4. use_streaming' = use_streaming /\ faults' = faults /\ item'[w] = item[w] /\ task'[w] = task[w]
      BY <1>2, <2>1
    <3> QED BY <1>2, <3>1, <3>2, <3>3, <3>4 DEF TaskInv
  <2> QED BY <1>2, <2>1, <2>2, <2>3, WorkersStep
<1> QED BY <1>3, <1>4 DEF Queue

LEMMA WorkerLeaves ==
    ASSUME ParInv, Leaves, NEW w \in Workers, Worker(w)
    PROVE  Leaves'
<1>1. pc \in [Workers -> {"stop", "drain", "pop", "load", "wait", "lock", "walk", "send", "exit"}]
  BY QueueFacts DEF ParInv
<1> USE DEF PQ!Goto
<1>2. CASE Queue(w)
  <2>1. CASE PQ!TakeNext(w)
    BY <1>1, <2>1 DEF Leaves, PQ!TakeNext, PQ!Lock, PQ!CheckStop, PQ!TryRecv, PQ!Pop, PQ!LoadPending,
                      PQ!RecvTimeout, PQ!Disconnected
  <2>2. CASE PQ!PushSend(w) BY <1>1, <2>2 DEF Leaves, PQ!PushSend
  <2> QED BY <1>2, <2>1, <2>2 DEF Queue
<1>3. CASE UNCHANGED specVars BY <1>3 DEF specVars, Leaves
<1>4. CASE StartRead(w) \/ EndStream(w) \/ SendResult(w)
  BY <1>3, <1>4 DEF StartRead, EndStream, SendResult
<1>5. CASE Stopped(w) \/ Finish(w)
  BY <1>1, <1>5 DEF Stopped, Finish, PQ!CompleteItem, Leaves
<1>6. CASE StreamChild(w) \/ ScheduleChild(w)
  BY <1>1, <1>6 DEF StreamChild, ScheduleChild, PQ!PushCount, Leaves
<1> QED BY <1>2, <1>4, <1>5, <1>6 DEF Worker

\* While the walk is not stopped.
LEMMA WorkerWorks ==
    ASSUME StreamsCleanly, ParInv, ParInv', use_streaming \in StreamingModes, WorkersInv,
           ReadsChildren(RootDirEntry), ~stop, ~ReceiverGone, NEW w \in Workers, Worker(w)
    PROVE  WorkersInv'
<1>1. ~Stopped(w) BY DEF Stopped
<1> QED BY <1>1, QueueWorks, StartReadWorks, StreamChildWorks, EndStreamWorks, SendResultWorks,
           ScheduleChildWorks, FinishWorks DEF Worker

------------------------------------------------------------------------------
(* Where the results are *)

LEMMA SeqLength ==
    ASSUME NEW s, IsSeq(s)
    PROVE  Len(s) \in Nat /\ DOMAIN s = 1 .. Len(s) /\ (s = <<>> <=> Len(s) = 0)
<1>1. PICK S : s \in Seq(S) BY DEF IsSeq
<1> QED BY <1>1, LenProperties, EmptySeq

\* t is s and then x; t is s without its first.
Extended(s, x, t) == t = Append(s, x)

Shortened(s, t) == s # <<>> /\ t = Tail(s)

LEMMA Appended ==
    ASSUME NEW s, IsSeq(s), NEW x, NEW t, Extended(s, x, t), NEW n, n = Len(s) + 1
    PROVE  /\ IsSeq(t) /\ Len(t) = n /\ t[n] = x
           /\ \A k \in DOMAIN s : k \in DOMAIN t /\ t[k] = s[k] /\ k # n
           /\ \A k \in DOMAIN t : k = n \/ k \in DOMAIN s
           /\ n \in DOMAIN t
<1>1. PICK S : s \in Seq(S) BY DEF IsSeq
<1>2. s \in Seq(S \cup {x}) /\ x \in S \cup {x} BY <1>1, SeqMonotonic
<1>3. /\ t \in Seq(S \cup {x}) /\ Len(t) = Len(s) + 1 /\ t[Len(s) + 1] = x
      /\ \A k \in 1 .. Len(s) : t[k] = s[k]
  BY <1>2, AppendProperties DEF Extended
<1>4. /\ Len(s) \in Nat /\ DOMAIN s = 1 .. Len(s) /\ DOMAIN t = 1 .. (Len(s) + 1)
  BY <1>1, <1>3, LenProperties
<1>5. /\ \A k \in 1 .. Len(s) : k \in 1 .. (Len(s) + 1) /\ k # Len(s) + 1
      /\ \A k \in 1 .. (Len(s) + 1) : k = Len(s) + 1 \/ k \in 1 .. Len(s)
      /\ Len(s) + 1 \in 1 .. (Len(s) + 1)
  BY <1>4
<1>6. IsSeq(t) BY <1>3 DEF IsSeq
<1> QED BY <1>3, <1>4, <1>5, <1>6

LEMMA Split ==
    ASSUME NEW s, IsSeq(s), NEW t, Shortened(s, t)
    PROVE  /\ IsSeq(t) /\ Len(s) = Len(t) + 1 /\ Head(s) = s[1] /\ 1 \in DOMAIN s
           /\ \A k \in DOMAIN t : k + 1 \in DOMAIN s /\ t[k] = s[k + 1] /\ k + 1 # 1
           /\ \A k \in DOMAIN s : k = 1 \/ (k - 1 \in DOMAIN t /\ t[k - 1] = s[k])
           /\ \A j, k \in DOMAIN t : j + 1 = k + 1 => j = k
<1>1. PICK S : s \in Seq(S) BY DEF IsSeq
<1>2. /\ Len(s) \in Nat \ {0} /\ DOMAIN s = 1 .. Len(s) /\ Head(s) = s[1]
      /\ t \in Seq(S) /\ Len(t) = Len(s) - 1
      /\ \A k \in 1 .. (Len(s) - 1) : t[k] = s[k + 1]
  BY <1>1, EmptySeq, LenProperties, HeadTailProperties DEF Shortened
<1>3. DOMAIN t = 1 .. (Len(s) - 1) BY <1>2, LenProperties
<1>4. /\ Len(s) = (Len(s) - 1) + 1 /\ 1 \in 1 .. Len(s)
      /\ \A k \in 1 .. (Len(s) - 1) : k + 1 \in 1 .. Len(s) /\ k + 1 # 1
      /\ \A k \in 1 .. Len(s) : k = 1 \/ (k - 1 \in 1 .. (Len(s) - 1) /\ (k - 1) + 1 = k)
      /\ \A j, k \in 1 .. (Len(s) - 1) : j + 1 = k + 1 => j = k
  BY <1>2
<1>5. IsSeq(t) BY <1>2 DEF IsSeq
<1>6. \A k \in 1 .. Len(s) : k = 1 \/ (k - 1 \in 1 .. (Len(s) - 1) /\ t[k - 1] = s[k])
  BY <1>2, <1>4
<1>7. \A k \in 1 .. (Len(s) - 1) : k + 1 \in 1 .. Len(s) /\ t[k] = s[k + 1] /\ k + 1 # 1
  BY <1>2, <1>4
<1>8. Len(s) = Len(t) + 1 BY <1>2
<1> QED BY <1>2, <1>3, <1>4, <1>5, <1>6, <1>7, <1>8

LEMMA PlaceAlone ==
    ASSUME PlaceInv, UNCHANGED <<result_channel, result_buffer, sent, returned>>
    PROVE  PlaceInv' /\ \A r : WasReturned(r)' <=> WasReturned(r)
<1>1. \A r : WasReturned(r)' <=> WasReturned(r) BY DEF WasReturned
<1>2. \A r : InResults(r)' <=> InResults(r) BY DEF InResults
<1>3. result_channel' = result_channel /\ result_buffer' = result_buffer /\ sent' = sent /\ returned' = returned
  OBVIOUS
<1> QED BY <1>1, <1>2, <1>3 DEF PlaceInv

LEMMA PlaceSend ==
    ASSUME PlaceInv, NEW r, r \notin sent, sent' = sent \cup {r},
           result_channel' = Append(result_channel, r), UNCHANGED <<result_buffer, returned>>
    PROVE  PlaceInv' /\ \A x : WasReturned(x)' <=> WasReturned(x)
<1>0. PICK a, b, n : a = result_channel /\ b = result_channel' /\ n = Len(a) + 1 OBVIOUS
<1>1. IsSeq(a) /\ Extended(a, r, b) BY <1>0 DEF PlaceInv, Extended
<1>2. /\ IsSeq(b) /\ b[n] = r
      /\ \A k \in DOMAIN a : k \in DOMAIN b /\ b[k] = a[k] /\ k # n
      /\ \A k \in DOMAIN b : k = n \/ k \in DOMAIN a
      /\ n \in DOMAIN b
  BY <1>0, <1>1, Appended
<1>3. \A x : WasReturned(x)' <=> WasReturned(x) BY DEF WasReturned
<1>4. /\ \A x : InResults(x)' <=> InResults(x) \/ x = r
      /\ \A k \in DOMAIN a : InResults(a[k])
  BY <1>0, <1>2 DEF InResults
<1>5. ~WasReturned(r) /\ r \notin result_buffer /\ \A k \in DOMAIN a : a[k] # r
  BY <1>0 DEF PlaceInv, WasReturned
<1>6. \A k \in DOMAIN b : b[k] \in sent' /\ b[k] \notin result_buffer
  BY <1>0, <1>2, <1>5 DEF PlaceInv
<1>7. \A j, k \in DOMAIN b : b[j] = b[k] => j = k BY <1>0, <1>2, <1>5 DEF PlaceInv
<1>8. \A x \in sent' : WasReturned(x)' => x \notin result_buffer' /\ ~InResults(x)'
  BY <1>3, <1>4, <1>5 DEF PlaceInv
<1>9. \A x \in sent' : WasReturned(x)' \/ x \in result_buffer' \/ InResults(x)' BY <1>3, <1>4 DEF PlaceInv
<1>10. IsSeq(returned) /\ (\A i \in DOMAIN returned : returned[i] \in sent') /\ result_buffer \subseteq sent'
  BY DEF PlaceInv
<1>11. returned' = returned /\ result_buffer' = result_buffer OBVIOUS
<1>12. PlaceInv' BY <1>0, <1>2, <1>6, <1>7, <1>8, <1>9, <1>10, <1>11 DEF PlaceInv
<1> QED BY <1>3, <1>12

LEMMA PlaceTake ==
    ASSUME PlaceInv, OQ!TakeResult, UNCHANGED <<sent, returned>>
    PROVE  PlaceInv' /\ \A x : WasReturned(x)' <=> WasReturned(x)
<1>0. PICK a, b, r : a = result_channel /\ b = result_channel' /\ r = Head(a) OBVIOUS
<1>1. IsSeq(a) BY <1>0 DEF PlaceInv
<1>2. Shortened(a, b) /\ result_buffer' = result_buffer \cup {r}
  BY <1>0 DEF OQ!TakeResult, Shortened
<1>3. /\ IsSeq(b) /\ r = a[1] /\ 1 \in DOMAIN a
      /\ \A k \in DOMAIN b : k + 1 \in DOMAIN a /\ b[k] = a[k + 1] /\ k + 1 # 1
      /\ \A k \in DOMAIN a : k = 1 \/ (k - 1 \in DOMAIN b /\ b[k - 1] = a[k])
      /\ \A j, k \in DOMAIN b : j + 1 = k + 1 => j = k
  BY <1>0, <1>1, <1>2, Split
<1>4. \A x : WasReturned(x)' <=> WasReturned(x) BY DEF WasReturned
<1>5. /\ \A x : InResults(x) => InResults(x)' \/ x = r
      /\ \A x : InResults(x)' => InResults(x)
      /\ InResults(r)
  BY <1>0, <1>3 DEF InResults
<1>6. /\ r \in sent /\ ~WasReturned(r) BY <1>0, <1>3, <1>5 DEF PlaceInv
<1>7. \A j, k \in DOMAIN a : a[j] = a[k] => j = k BY <1>0 DEF PlaceInv
<1>8. \A k \in DOMAIN b : b[k] \in sent /\ b[k] \notin result_buffer /\ b[k] # r
  BY <1>0, <1>3, <1>7 DEF PlaceInv
<1>9. \A j, k \in DOMAIN b : b[j] = b[k] => j = k BY <1>3, <1>7
<1>10. returned' = returned /\ sent' = sent OBVIOUS
<1>11. \A x \in sent : WasReturned(x)' => x \notin result_buffer' /\ ~InResults(x)'
  BY <1>2, <1>4, <1>5, <1>6 DEF PlaceInv
<1>12. \A x \in sent : WasReturned(x)' \/ x \in result_buffer' \/ InResults(x)' BY <1>2, <1>4, <1>5 DEF PlaceInv
<1>13. IsSeq(returned) /\ (\A i \in DOMAIN returned : returned[i] \in sent) /\ result_buffer' \subseteq sent
  BY <1>2, <1>6 DEF PlaceInv
<1>14. \A k \in DOMAIN b : b[k] \in sent /\ b[k] \notin result_buffer' BY <1>2, <1>8
<1>15. PlaceInv' BY <1>0, <1>3, <1>9, <1>10, <1>11, <1>12, <1>13, <1>14 DEF PlaceInv
<1> QED BY <1>4, <1>15

LEMMA PlaceReturn ==
    ASSUME PlaceInv, NEW r \in result_buffer, OQ!Return(r), UNCHANGED <<sent, result_channel>>
    PROVE  PlaceInv' /\ \A x : WasReturned(x)' <=> WasReturned(x) \/ x = r
<1>0. PICK a, b, n : a = returned /\ b = returned' /\ n = Len(a) + 1 OBVIOUS
<1>1. IsSeq(a) BY <1>0 DEF PlaceInv
<1>2. Extended(a, r, b) /\ result_buffer' = result_buffer \ {r} BY <1>0 DEF OQ!Return, Extended
<1>3. /\ IsSeq(b) /\ b[n] = r
      /\ \A k \in DOMAIN a : k \in DOMAIN b /\ b[k] = a[k] /\ k # n
      /\ \A k \in DOMAIN b : k = n \/ k \in DOMAIN a
      /\ n \in DOMAIN b
  BY <1>0, <1>1, <1>2, Appended
<1>4. \A x : WasReturned(x)' <=> WasReturned(x) \/ x = r BY <1>0, <1>3 DEF WasReturned
<1>5. \A x : InResults(x)' <=> InResults(x) BY DEF InResults
<1>6. r \in sent /\ \A k \in DOMAIN result_channel : result_channel[k] # r BY DEF PlaceInv
<1>7. ~InResults(r) BY <1>6 DEF InResults
<1>8. \A i \in DOMAIN b : b[i] \in sent BY <1>0, <1>3, <1>6 DEF PlaceInv
<1>9. result_channel' = result_channel /\ sent' = sent OBVIOUS
<1>10. \A x \in sent : WasReturned(x)' => x \notin result_buffer' /\ ~InResults(x)'
  BY <1>2, <1>4, <1>5, <1>7 DEF PlaceInv
<1>11. \A x \in sent : WasReturned(x)' \/ x \in result_buffer' \/ InResults(x)' BY <1>2, <1>4, <1>5 DEF PlaceInv
<1>12. /\ IsSeq(result_channel) /\ result_buffer' \subseteq sent
       /\ \A k \in DOMAIN result_channel : result_channel[k] \in sent /\ result_channel[k] \notin result_buffer'
       /\ \A j, k \in DOMAIN result_channel : result_channel[j] = result_channel[k] => j = k
  BY <1>2 DEF PlaceInv
<1>13. PlaceInv' BY <1>0, <1>3, <1>8, <1>9, <1>10, <1>11, <1>12 DEF PlaceInv
<1> QED BY <1>4, <1>13

------------------------------------------------------------------------------
(* The caller's stack follows the matcher *)

LEMMA LenReadChildren ==
    ASSUME NEW list, IsSeq(list)
    PROVE  Len(ReadChildren(list)) \in Nat
<1>1. PICK S : list \in Seq(S) BY DEF IsSeq
<1>2. CASE list = <<>>
  <2>1. Len(<<>>) = 0 OBVIOUS
  <2> QED BY <1>2, <2>1, NoChildren
<1>3. CASE list # <<>> BY <1>1, <1>3, ChildrenOfTail
<1> QED BY <1>2, <1>3

\* A path is its front and its last number.
LEMMA FrontAndLast ==
    ASSUME NEW q \in Seq(Nat), NEW n \in Nat \ {0}, n = Len(q)
    PROVE  /\ SubSeq(q, 1, n - 1) \in Seq(Nat)
           /\ q = Adding(SubSeq(q, 1, n - 1), q[n])
           /\ q[n] \in Nat
<1> DEFINE p == SubSeq(q, 1, n - 1)
           c == Append(p, q[n])
<1>1. n - 1 \in 0 .. Len(q) /\ q[n] \in Nat OBVIOUS
<1>2. p \in Seq(Nat) /\ Len(p) = n - 1 /\ \A i \in 1 .. (n - 1) : p[i] = q[i] BY <1>1, Prefix
<1> HIDE DEF p
<1>3. /\ c \in Seq(Nat) /\ Len(c) = Len(p) + 1 /\ c[Len(p) + 1] = q[n]
      /\ \A i \in 1 .. Len(p) : c[i] = p[i]
  BY <1>1, <1>2, AppendProperties
<1> HIDE DEF c
<1>4. Len(c) = n /\ c[n] = q[n] BY <1>2, <1>3
<1>5. \A i \in 1 .. n : c[i] = q[i]
  <2>1. \A i \in 1 .. n : i = n \/ i \in 1 .. (n - 1) OBVIOUS
  <2> QED BY <1>2, <1>3, <1>4, <2>1
<1>6. c = q BY <1>3, <1>4, <1>5, SeqEqual
<1> QED BY <1>1, <1>2, <1>6 DEF Adding, c, p

\* The path looked for is one of the tree.
LEMMA LookedFor ==
    ASSUME NEW f \in FaultCases, ReadsChildren(RootDirEntry), NEW q, NEW stack, Tracks(f, q, stack), q # <<>>,
           NEW n, n = Len(q)
    PROVE  /\ n \in Nat \ {0} /\ OnTree(f, q) /\ q[n] \in Nat
           /\ Len(Siblings(f, q, n)) \in Nat
           /\ q[n] < Len(Siblings(f, q, n))
           /\ EntryAt(f, q) = Siblings(f, q, n)[q[n] + 1]
<1>1. q \in Seq(Nat) /\ StackCounts(TreeResults(f), q, stack) BY DEF Tracks
<1>2. n \in Nat \ {0} /\ n \in 1 .. n BY <1>1, EmptySeq
<1>3. q[1] = 0 /\ stack[n] > 0 BY <1>1 DEF StackCounts
<1>4. CASE n = 1
  <2>1. q = <<0>>
    <3>1. <<0>> \in Seq(Nat) /\ Len(<<0>>) = 1 /\ <<0>>[1] = 0 OBVIOUS
    <3>2. PICK z : z = <<0>> OBVIOUS
    <3>3. z \in Seq(Nat) /\ Len(z) = Len(q) /\ \A i \in 1 .. Len(q) : q[i] = z[i] BY <1>3, <1>4, <3>1, <3>2
    <3>4. q = z BY <1>1, <3>3, SeqEqual
    <3> QED BY <3>2, <3>4
  <2>2. Siblings(f, q, n) = <<RootDirEntry>> BY <1>4 DEF Siblings
  <2>3. Len(<<RootDirEntry>>) = 1 /\ <<RootDirEntry>>[0 + 1] = RootDirEntry OBVIOUS
  <2> QED BY <1>2, <1>3, <1>4, <2>1, <2>2, <2>3, RootOnTree
<1>5. CASE n # 1
  <2>1. n \in 2 .. n BY <1>2, <1>5
  <2>2. PICK s \in TreeResults(f) : s.index_path = SubSeq(q, 1, n - 1) /\ stack[n] = s.child_count - q[n] - 0
    BY <1>1, <2>1 DEF StackCounts
  <2>3. PICK p \in TreePaths(f) : s = ResultAt(f, p) BY DEF TreeResults
  <2>4. s.index_path = p /\ s.child_count = Len(Kids(f, EntryAt(f, p))) BY <2>3, ResultIs
  <2>5. p = SubSeq(q, 1, n - 1) /\ OnTree(f, p) BY <2>2, <2>4 DEF TreePaths
  <2>6. q = Adding(p, q[n]) /\ q[n] \in Nat BY <1>1, <1>2, <2>5, FrontAndLast
  <2>7. Len(Kids(f, EntryAt(f, p))) \in Nat BY <2>5, NodeGood, KidsAre
  <2>8. q[n] < Len(Kids(f, EntryAt(f, p))) BY <1>3, <2>2, <2>4, <2>6, <2>7
  <2>9. Siblings(f, q, n) = Kids(f, EntryAt(f, p)) BY <1>5, <2>5 DEF Siblings
  <2>10. PICK i : i = q[n] OBVIOUS
  <2>11. OnTree(f, Adding(p, i)) /\ EntryAt(f, Adding(p, i)) = Kids(f, EntryAt(f, p))[i + 1]
    BY <2>5, <2>6, <2>8, <2>10, ChildOnTree
  <2> QED BY <1>2, <2>6, <2>7, <2>8, <2>9, <2>10, <2>11
<1> QED BY <1>4, <1>5

\* A used-up listing is at no level the matcher expects anything at.
LEMMA PopFollows ==
    ASSUME NEW f \in FaultCases, ReadsChildren(RootDirEntry), NEW q, NEW stack, Tracks(f, q, stack),
           NEW lists, Follows(f, q, lists), lists # <<>>, NEW n, n = Len(lists), lists[n] = <<>>,
           NEW next, next = SubSeq(lists, 1, n - 1)
    PROVE  Follows(f, q, next)
<1>1. IsSeq(lists) /\ Len(q) <= n /\ q \in Seq(Nat) BY DEF Follows, Tracks
<1>2. n \in Nat \ {0} /\ DOMAIN lists = 1 .. n /\ Len(q) \in Nat BY <1>1, SeqLength
<1>3. /\ IsSeq(next) /\ Len(next) = n - 1 /\ \A k \in 1 .. (n - 1) : next[k] = lists[k]
  <2>1. PICK S : lists \in Seq(S) BY <1>1 DEF IsSeq
  <2>2. \A i \in 1 .. (n - 1) : lists[i] \in S BY <1>2, <2>1
  <2>3. Len(SubSeq(lists, 1, n - 1)) = IF 1 <= n - 1 THEN (n - 1) - 1 + 1 ELSE 0 BY <2>1, <2>2, <1>2, SubSeqProperties
  <2>4. \A i \in 1 .. ((n - 1) - 1 + 1) : SubSeq(lists, 1, n - 1)[i] = lists[1 + i - 1]
    BY <2>1, <2>2, <1>2, SubSeqProperties
  <2>5. next \in Seq(S) BY <2>1, <2>2, <1>2, SubSeqProperties
  <2>6. IsSeq(next) BY <2>5 DEF IsSeq
  <2>7. (n - 1) - 1 + 1 = n - 1 /\ \A i \in 1 .. (n - 1) : 1 + i - 1 = i BY <1>2
  <2>8. Len(next) = n - 1 BY <1>2, <2>3
  <2> QED BY <2>4, <2>6, <2>7, <2>8
<1>4. Len(q) # n
  <2>1. ASSUME Len(q) = n PROVE FALSE
    <3>1. n \in 1 .. Len(q) /\ q # <<>> BY <1>1, <1>2, <2>1, EmptySeq
    <3>2. IsRest(ReadChildren(lists[n]), Siblings(f, q, n), Gone(q, n)) BY <3>1 DEF Follows
    <3>3. Len(ReadChildren(lists[n])) = 0
      <4>1. Len(<<>>) = 0 OBVIOUS
      <4> QED BY <4>1, NoChildren
    <3>4. /\ q[n] \in Nat /\ Len(Siblings(f, q, n)) \in Nat
          /\ q[n] < Len(Siblings(f, q, n))
      BY <2>1, <3>1, LookedFor
    <3>5. Gone(q, n) = q[n] BY <2>1, <3>4 DEF Gone
    <3> QED BY <3>2, <3>3, <3>4, <3>5 DEF IsRest
  <2> QED BY <2>1
<1>5. Len(q) <= n - 1 BY <1>1, <1>2, <1>4
<1>6. \A l \in 1 .. (n - 1) : l \in 1 .. n BY <1>2
<1>7. \A l \in 1 .. Len(q) : l \in 1 .. (n - 1) BY <1>2, <1>5
<1>8. \A l \in (Len(q) + 1) .. (n - 1) : l \in (Len(q) + 1) .. n /\ l \in 1 .. (n - 1) BY <1>2
<1> QED BY <1>3, <1>5, <1>6, <1>7, <1>8 DEF Follows

\* Consuming the head of the top listing.
ConsumesTop(lists, next, n, top) ==
    /\ n = Len(lists) /\ lists # <<>> /\ top = lists[n] /\ top # <<>>
    /\ next = [lists EXCEPT ![n] = Tail(top)]

LEMMA Consuming ==
    ASSUME NEW f, NEW q, NEW lists, Follows(f, q, lists), NEW next, NEW n, NEW top, ConsumesTop(lists, next, n, top)
    PROVE  /\ n \in Nat \ {0} /\ n \in 1 .. n /\ IsSeq(next) /\ Len(next) = n /\ IsSeq(top) /\ IsSeq(next[n])
           /\ next[n] = Tail(top) /\ \A l \in 1 .. n : IsSeq(next[l]) /\ (l # n => next[l] = lists[l])
<1>1. IsSeq(lists) /\ n = Len(lists) /\ lists # <<>> /\ \A l \in 1 .. n : IsSeq(lists[l])
  BY DEF Follows, ConsumesTop
<1>2. n \in Nat \ {0} /\ DOMAIN lists = 1 .. n BY <1>1, SeqLength
<1>3. n \in 1 .. n BY <1>2
<1>4. IsSeq(top) /\ top # <<>> /\ top = lists[n] BY <1>1, <1>3 DEF ConsumesTop
<1>5. Shortened(top, Tail(top)) BY <1>4 DEF Shortened
<1>6. IsSeq(Tail(top)) BY <1>4, <1>5, Split
<1>7. PICK S : lists \in Seq(S) BY <1>1 DEF IsSeq
<1>8. lists \in Seq(S \cup {Tail(top)}) BY <1>7, SeqMonotonic
<1>9. /\ next \in Seq(S \cup {Tail(top)}) /\ Len(next) = n
      /\ \A l \in 1 .. n : next[l] = IF l = n THEN Tail(top) ELSE lists[l]
  <2>1. next = [lists EXCEPT ![n] = Tail(top)] BY DEF ConsumesTop
  <2>2. Tail(top) \in S \cup {Tail(top)} OBVIOUS
  <2> HIDE DEF ConsumesTop
  <2> QED BY <1>1, <1>3, <1>8, <2>1, <2>2, ExceptSeq
<1>10. IsSeq(next) BY <1>9 DEF IsSeq
<1>11. next[n] = Tail(top) BY <1>3, <1>9
<1>12. \A l \in 1 .. n : l # n => next[l] = lists[l] BY <1>9
<1>13. \A l \in 1 .. n : IsSeq(next[l]) BY <1>1, <1>6, <1>11, <1>12
<1> QED BY <1>2, <1>3, <1>4, <1>6, <1>9, <1>10, <1>11, <1>12, <1>13

\* An entry the walk does not go into.
LEMMA SkipFollows ==
    ASSUME NEW f, NEW q \in Seq(Nat), NEW lists, Follows(f, q, lists), NEW next, NEW n, NEW top,
           ConsumesTop(lists, next, n, top), ~ReadsChildren(Head(top))
    PROVE  Follows(f, q, next)
<1>1. /\ n \in Nat \ {0} /\ n \in 1 .. n /\ IsSeq(next) /\ Len(next) = n /\ IsSeq(top)
      /\ next[n] = Tail(top) /\ \A l \in 1 .. n : IsSeq(next[l]) /\ (l # n => next[l] = lists[l])
  BY Consuming
<1>2. top # <<>> /\ n = Len(lists) /\ top = lists[n] BY DEF ConsumesTop
<1>3. PICK S : top \in Seq(S) BY <1>1 DEF IsSeq
<1>4. /\ Len(ReadChildren(top)) = Len(ReadChildren(Tail(top)))
      /\ \A i \in 1 .. Len(ReadChildren(Tail(top))) : ReadChildren(Tail(top))[i] = ReadChildren(top)[i]
  BY <1>2, <1>3, ChildrenOfTail
<1>5. Len(q) <= n /\ Len(q) \in Nat BY <1>2 DEF Follows
<1>6. ASSUME NEW l \in 1 .. Len(q)
      PROVE  IsRest(ReadChildren(next[l]), Siblings(f, q, l), Gone(q, l))
  <2>1. l \in 1 .. n BY <1>1, <1>5
  <2>2. IsRest(ReadChildren(lists[l]), Siblings(f, q, l), Gone(q, l)) BY DEF Follows
  <2>3. CASE l # n BY <1>1, <2>1, <2>2, <2>3
  <2>4. CASE l = n
    <3>1. IsRest(ReadChildren(top), Siblings(f, q, n), Gone(q, n)) BY <1>2, <2>2, <2>4
    <3>2. IsRest(ReadChildren(Tail(top)), Siblings(f, q, n), Gone(q, n)) BY <1>4, <3>1 DEF IsRest
    <3> QED BY <1>1, <2>4, <3>2
  <2> QED BY <2>3, <2>4
<1>7. ASSUME NEW l \in (Len(q) + 1) .. n PROVE Len(ReadChildren(next[l])) = 0
  <2>1. l \in 1 .. n BY <1>1, <1>5
  <2>2. Len(ReadChildren(lists[l])) = 0 BY <1>2 DEF Follows
  <2>3. CASE l # n BY <1>1, <2>1, <2>2, <2>3
  <2>4. CASE l = n BY <1>1, <1>2, <1>4, <2>2, <2>4
  <2> QED BY <2>3, <2>4
<1> QED BY <1>1, <1>5, <1>6, <1>7 DEF Follows

\* A directory at the head of the top listing is the one looked for.
LEMMA NextIsLookedFor ==
    ASSUME NEW f \in FaultCases, ReadsChildren(RootDirEntry), NEW q, NEW stack, Tracks(f, q, stack),
           NEW lists, Follows(f, q, lists), NEW next, NEW n, NEW top,
           ConsumesTop(lists, next, n, top), ReadsChildren(Head(top))
    PROVE  /\ q # <<>> /\ Len(q) = n /\ OnTree(f, q)
           /\ Head(top) = EntryAt(f, q)
           /\ \A l \in 1 .. n : IsRest(ReadChildren(next[l]), Siblings(f, q, l), q[l] + 1)
<1>1. /\ n \in Nat \ {0} /\ n \in 1 .. n /\ IsSeq(next) /\ Len(next) = n /\ IsSeq(top)
      /\ next[n] = Tail(top) /\ \A l \in 1 .. n : IsSeq(next[l]) /\ (l # n => next[l] = lists[l])
  BY Consuming
<1>2. top # <<>> /\ n = Len(lists) /\ top = lists[n] BY DEF ConsumesTop
<1>3. PICK S : top \in Seq(S) BY <1>1 DEF IsSeq
<1>4. /\ Len(ReadChildren(top)) \in Nat /\ Len(ReadChildren(Tail(top))) \in Nat
      /\ Len(ReadChildren(top)) = Len(ReadChildren(Tail(top))) + 1
      /\ ReadChildren(top)[1] = Head(top)
      /\ \A i \in 1 .. Len(ReadChildren(Tail(top))) : ReadChildren(Tail(top))[i] = ReadChildren(top)[i + 1]
  BY <1>2, <1>3, ChildrenOfTail
<1>5. Len(q) <= n /\ Len(q) \in Nat /\ q \in Seq(Nat) BY <1>2 DEF Follows, Tracks
<1>6. Len(q) = n
  <2>1. ASSUME Len(q) # n PROVE FALSE
    <3>1. n \in (Len(q) + 1) .. n BY <1>1, <1>5, <2>1
    <3>2. Len(ReadChildren(top)) = 0 BY <1>2, <3>1 DEF Follows
    <3> QED BY <1>4, <3>2
  <2> QED BY <2>1
<1>7. q # <<>> BY <1>1, <1>5, <1>6, EmptySeq
<1>8. /\ OnTree(f, q) /\ q[n] \in Nat /\ EntryAt(f, q) = Siblings(f, q, n)[q[n] + 1]
  BY <1>6, <1>7, LookedFor
<1>9. Gone(q, n) = q[n] BY <1>6, <1>8 DEF Gone
<1>10. IsRest(ReadChildren(top), Siblings(f, q, n), q[n]) BY <1>1, <1>2, <1>6, <1>9 DEF Follows
<1>11. Head(top) = EntryAt(f, q)
  <2>1. 1 \in 1 .. Len(ReadChildren(top)) BY <1>4
  <2> QED BY <1>4, <1>8, <1>10, <2>1 DEF IsRest
<1>12. ASSUME NEW l \in 1 .. n PROVE IsRest(ReadChildren(next[l]), Siblings(f, q, l), q[l] + 1)
  <2>1. CASE l # n
    <3>1. Gone(q, l) = q[l] + 1 BY <1>6, <2>1 DEF Gone
    <3>2. next[l] = lists[l] BY <1>1, <2>1
    <3> QED BY <1>6, <3>1, <3>2 DEF Follows
  <2>2. CASE l = n
    <3>1. PICK all, rest, more, g : /\ all = Siblings(f, q, n) /\ rest = ReadChildren(Tail(top))
                                    /\ more = ReadChildren(top) /\ g = q[n]
      OBVIOUS
    <3>2. g \in Nat /\ Len(all) = g + Len(more) /\ \A i \in 1 .. Len(more) : more[i] = all[g + i]
      BY <1>8, <1>10, <3>1 DEF IsRest
    <3>3. /\ Len(rest) \in Nat /\ Len(more) = Len(rest) + 1
          /\ \A i \in 1 .. Len(rest) : rest[i] = more[i + 1]
      BY <1>4, <3>1
    <3>4. Len(all) = (g + 1) + Len(rest) /\ g + 1 \in Nat BY <3>2, <3>3
    <3>5. \A i \in 1 .. Len(rest) : i + 1 \in 1 .. Len(more) /\ g + (i + 1) = (g + 1) + i BY <3>2, <3>3
    <3>6. \A i \in 1 .. Len(rest) : rest[i] = all[(g + 1) + i] BY <3>2, <3>3, <3>5
    <3>7. IsRest(rest, all, g + 1) BY <3>4, <3>6 DEF IsRest
    <3> QED BY <1>1, <2>2, <3>1, <3>7
  <2> QED BY <2>1, <2>2
<1> QED BY <1>6, <1>7, <1>8, <1>11, <1>12

LEMMA SameSiblings ==
    ASSUME NEW f, NEW p \in Seq(Nat), NEW q \in Seq(Nat), NEW l \in Nat \ {0},
           l - 1 <= Len(p), l - 1 <= Len(q), \A i \in 1 .. (l - 1) : p[i] = q[i]
    PROVE  Siblings(f, p, l) = Siblings(f, q, l)
<1>1. l - 1 \in Nat OBVIOUS
<1>2. SubSeq(p, 1, l - 1) = SubSeq(q, 1, l - 1) BY <1>1, SamePrefix
<1> QED BY <1>2 DEF Siblings

\* At each level of the path looked for, the matcher counts the directories
\* the caller has left there.
LEMMA LeftAtLevels ==
    ASSUME NEW f \in FaultCases, ReadsChildren(RootDirEntry), NEW q, NEW stack, Tracks(f, q, stack), q # <<>>,
           NEW lists, \A l \in 1 .. Len(q) : IsRest(ReadChildren(lists[l]), Siblings(f, q, l), q[l] + 1),
           \A l \in 1 .. Len(q) : IsSeq(lists[l]),
           NEW rest, rest = DecrementRemaining(stack)
    PROVE  rest \in Seq(Nat) /\ Len(rest) = Len(q)
           /\ \A l \in 1 .. Len(q) : Len(ReadChildren(lists[l])) = rest[l]
<1>1. q \in Seq(Nat) /\ stack \in Seq(Nat) /\ Len(stack) = Len(q) /\ StackCounts(TreeResults(f), q, stack)
  BY DEF Tracks
<1>2. ResultTree(TreeResults(f)) BY ResultsAreTree
<1>3. LeftBehind(TreeResults(f), q, rest) BY <1>1, <1>2, LevelsLeft
<1>4. rest \in Seq(Nat) /\ Len(rest) = Len(q) /\ rest[1] = 0 BY <1>3 DEF LeftBehind
<1>5. q[1] = 0 /\ Len(q) \in Nat BY <1>1 DEF StackCounts
<1>6. ASSUME NEW l \in 1 .. Len(q) PROVE Len(ReadChildren(lists[l])) = rest[l]
  <2>1. Len(Siblings(f, q, l)) = (q[l] + 1) + Len(ReadChildren(lists[l])) BY DEF IsRest
  <2>2. Len(ReadChildren(lists[l])) \in Nat /\ q[l] \in Nat BY <1>1, LenReadChildren
  <2>3. CASE l = 1
    <3>1. Siblings(f, q, l) = <<RootDirEntry>> BY <2>3 DEF Siblings
    <3>2. Len(<<RootDirEntry>>) = 1 OBVIOUS
    <3>3. Len(Siblings(f, q, l)) = 1 BY <3>1, <3>2
    <3>4. q[l] = 0 /\ rest[l] = 0 BY <1>4, <1>5, <2>3
    <3>5. PICK a, b, c : a = Len(Siblings(f, q, l)) /\ b = q[l] /\ c = Len(ReadChildren(lists[l])) OBVIOUS
    <3>6. c \in Nat /\ b = 0 /\ a = 1 /\ a = (b + 1) + c BY <2>1, <2>2, <3>3, <3>4, <3>5
    <3>7. c = 0 BY <3>6
    <3> QED BY <3>4, <3>5, <3>7
  <2>4. CASE l # 1
    <3>1. l \in 2 .. Len(q) BY <1>5, <2>4
    <3>2. PICK s \in TreeResults(f) : s.index_path = SubSeq(q, 1, l - 1) /\ rest[l] = s.child_count - q[l] - 1
      BY <1>3, <3>1 DEF LeftBehind
    <3>3. PICK p \in TreePaths(f) : s = ResultAt(f, p) BY DEF TreeResults
    <3>4. s.index_path = p /\ s.child_count = Len(Kids(f, EntryAt(f, p))) BY <3>3, ResultIs
    <3>5. s.child_count = Len(Siblings(f, q, l)) BY <2>4, <3>2, <3>4 DEF Siblings
    <3>6. s.child_count \in Nat BY <1>2, ResultPaths
    <3> QED BY <2>1, <2>2, <3>2, <3>5, <3>6
  <2> QED BY <2>3, <2>4
<1> QED BY <1>4, <1>6

\* A directory that is gone into: the caller's stack, and the matcher.
LEMMA EnterFollows ==
    ASSUME NEW f \in FaultCases, ReadsChildren(RootDirEntry), NEW q, NEW stack, Tracks(f, q, stack),
           NEW lists, Follows(f, q, lists), NEW mid, NEW n, NEW top,
           ConsumesTop(lists, mid, n, top), ReadsChildren(Head(top)),
           NEW r, r = ResultAt(f, q),
           NEW next, next = IF r.value.ok THEN Append(mid, r.value.list) ELSE mid,
           NEW p, p = AdvancePath(q, stack, r.child_count),
           NEW left, left = AdvanceStack(stack, r.child_count)
    PROVE  Tracks(f, p, left) /\ Follows(f, p, next)
<1>1. /\ q # <<>> /\ Len(q) = n /\ OnTree(f, q)
      /\ \A l \in 1 .. n : IsRest(ReadChildren(mid[l]), Siblings(f, q, l), q[l] + 1)
  BY NextIsLookedFor
<1>2. /\ n \in Nat \ {0} /\ IsSeq(mid) /\ Len(mid) = n /\ \A l \in 1 .. n : IsSeq(mid[l])
  BY Consuming
<1>3. /\ q \in Seq(Nat) /\ stack \in Seq(Nat) /\ Len(stack) = n /\ StackCounts(TreeResults(f), q, stack)
  BY <1>1 DEF Tracks
<1>4. ResultTree(TreeResults(f)) BY ResultsAreTree
<1>5. r \in TreeResults(f) /\ r.index_path = q
  <2>1. q \in TreePaths(f) BY <1>1, <1>3 DEF TreePaths
  <2> QED BY <2>1, ResultIs DEF TreeResults
<1>6. p \in Seq(Nat) /\ left \in Seq(Nat) /\ Len(left) = Len(p) /\ StackCounts(TreeResults(f), p, left)
  BY <1>1, <1>3, <1>4, <1>5, AdvanceCounts
<1>7. Tracks(f, p, left) BY <1>6 DEF Tracks
<1> DEFINE list == r.value.list
           cc == r.child_count
           K == Kids(f, EntryAt(f, q))
<1>8. K = ReadChildren(list) /\ cc = Len(K) /\ cc \in Nat /\ IsSeq(list) /\ (~r.value.ok => cc = 0)
  <2>1. EntryAt(f, q).dir \in Dirs BY <1>1, NodeGood
  <2>2. /\ Sound(ReadOf(f, EntryAt(f, q)).list)
        /\ ~ReadOf(f, EntryAt(f, q)).ok => ReadOf(f, EntryAt(f, q)).list = <<>>
        /\ Len(K) \in Nat
    BY <2>1, KidsAre
  <2>3. /\ cc = Len(K) /\ r.value.ok = ReadOf(f, EntryAt(f, q)).ok /\ list = ReadOf(f, EntryAt(f, q)).list
    BY ResultIs
  <2>4. IsSeq(list) BY <2>2, <2>3 DEF Sound, IsSeq
  <2>5. K = ReadChildren(list) BY <2>3 DEF Kids
  <2> HIDE DEF list, cc, K
  <2>6. Len(<<>>) = 0 OBVIOUS
  <2>7. ~r.value.ok => cc = 0 BY <2>2, <2>3, <2>5, <2>6, NoChildren
  <2> QED BY <2>2, <2>3, <2>4, <2>5, <2>7
<1>9. /\ p = AdvancePath(q, stack, cc) /\ next = IF r.value.ok THEN Append(mid, list) ELSE mid OBVIOUS
<1> HIDE DEF list, cc, K
<1>10. /\ IsSeq(next) /\ Len(next) \in {n, n + 1} /\ \A l \in 1 .. n : next[l] = mid[l]
       /\ Len(next) = n + 1 => next[n + 1] = list
       /\ Len(next) = n => cc = 0
  <2>1. CASE r.value.ok
    <3>1. Extended(mid, list, next) BY <1>9, <2>1 DEF Extended
    <3>2. DOMAIN mid = 1 .. n BY <1>2, SeqLength
    <3>3. PICK k, x : k = Len(mid) + 1 /\ x = list OBVIOUS
    <3>a. Extended(mid, x, next) /\ IsSeq(mid) /\ k = Len(mid) + 1 BY <1>2, <3>1, <3>3
    <3>b. /\ IsSeq(next) /\ Len(next) = k /\ next[k] = x
          /\ \A j \in DOMAIN mid : j \in DOMAIN next /\ next[j] = mid[j] /\ j # k
      BY ONLY <3>a, Appended
    <3>4. IsSeq(next) /\ Len(next) = k /\ next[k] = x /\ \A l \in DOMAIN mid : next[l] = mid[l]
      BY <3>b
    <3>5. k = n + 1 /\ n # n + 1 BY <1>2, <3>3
    <3> QED BY <3>2, <3>3, <3>4, <3>5
  <2>2. CASE ~r.value.ok
    <3>1. next = mid /\ n # n + 1 BY <1>2, <1>9, <2>2
    <3> QED BY <1>2, <1>8, <2>2, <3>1
  <2> QED BY <2>1, <2>2
<1>11. \A l \in 1 .. Len(next) : IsSeq(next[l])
  <2>1. \A l \in 1 .. Len(next) : l \in 1 .. n \/ (l = n + 1 /\ Len(next) = n + 1) BY <1>2, <1>10
  <2> QED BY <1>2, <1>8, <1>10, <2>1
<1>12. CASE cc > 0
  <2>1. p = Append(q, 0) BY <1>9, <1>12 DEF AdvancePath, Adding
  <2>2. Len(p) = n + 1 /\ p[n + 1] = 0 /\ \A l \in 1 .. n : p[l] = q[l] BY <1>1, <1>3, <2>1, AppendProperties
  <2>3. Len(next) = n + 1 BY <1>8, <1>10, <1>12
  <2>4. ASSUME NEW l \in 1 .. (n + 1) PROVE IsRest(ReadChildren(next[l]), Siblings(f, p, l), Gone(p, l))
    <3>1. CASE l = n + 1
      <4>1. next[l] = list /\ Gone(p, l) = 0 BY <1>10, <2>2, <2>3, <3>1 DEF Gone
      <4>2. SubSeq(p, 1, l - 1) = q
        <5>1. n \in 0 .. Len(p) /\ l - 1 = n BY <1>2, <2>2, <3>1
        <5>2. /\ SubSeq(p, 1, n) \in Seq(Nat) /\ Len(SubSeq(p, 1, n)) = n
              /\ \A i \in 1 .. n : SubSeq(p, 1, n)[i] = p[i]
          BY <1>6, <5>1, Prefix
        <5>3. SubSeq(p, 1, n) = q BY <1>1, <1>3, <2>2, <5>2, SeqEqual
        <5> QED BY <5>1, <5>3
      <4>3. Siblings(f, p, l) = K
        <5>1. l # 1 BY <1>2, <3>1
        <5> QED BY <4>2, <5>1 DEF Siblings, K
      <4>4. IsRest(K, K, 0)
        <5>1. Len(K) \in Nat BY <1>8
        <5>2. Len(K) = 0 + Len(K) /\ \A i \in 1 .. Len(K) : 0 + i = i BY <5>1
        <5> QED BY <5>2 DEF IsRest
      <4> QED BY <1>8, <4>1, <4>3, <4>4
    <3>2. CASE l # n + 1
      <4>1. l \in 1 .. n /\ l \in Nat \ {0} /\ l - 1 <= Len(p) /\ l - 1 <= Len(q)
            /\ \A i \in 1 .. (l - 1) : i \in 1 .. n
        BY <1>1, <1>2, <2>2, <3>2
      <4>a. /\ p \in Seq(Nat) /\ q \in Seq(Nat) /\ l \in Nat \ {0} /\ l - 1 <= Len(p) /\ l - 1 <= Len(q)
            /\ \A i \in 1 .. (l - 1) : p[i] = q[i]
        BY <1>3, <1>6, <2>2, <4>1
      <4>2. Siblings(f, p, l) = Siblings(f, q, l) BY ONLY <4>a, SameSiblings
      <4>3. Gone(p, l) = q[l] + 1 BY <2>2, <3>2, <4>1 DEF Gone
      <4> QED BY <1>1, <1>10, <4>1, <4>2, <4>3
    <3> QED BY <3>1, <3>2
  <2>5. \A l \in (Len(p) + 1) .. Len(next) : FALSE BY <1>2, <2>2, <2>3
  <2>6. Len(p) <= Len(next) BY <1>2, <2>2, <2>3
  <2> QED BY <1>7, <1>10, <1>11, <2>2, <2>4, <2>5, <2>6 DEF Follows
<1>13. CASE ~(cc > 0)
  <2> DEFINE rest == DecrementRemaining(stack)
             d == Deepest(rest)
  <2>1. rest \in Seq(Nat) /\ Len(rest) = n /\ \A l \in 1 .. n : Len(ReadChildren(mid[l])) = rest[l]
    BY <1>1, <1>2, LeftAtLevels
  <2>2. p = IF d = 0 THEN <<>> ELSE IncrementLast(SubSeq(q, 1, d)) BY <1>9, <1>13 DEF AdvancePath
  <2> HIDE DEF rest
  <2>3. d \in 0 .. n /\ \A l \in (d + 1) .. n : rest[l] = 0 BY <2>1, DeepestLevel
  <2> HIDE DEF d
  <2>4. /\ Len(p) = d
        /\ \A l \in 1 .. d : l # d => p[l] = q[l]
        /\ d # 0 => p[d] = q[d] + 1
    <3>1. CASE d = 0 BY <2>2, <3>1
    <3>2. CASE d # 0
      <4> DEFINE s == SubSeq(q, 1, d)
      <4>1. d \in 0 .. Len(q) /\ d \in 1 .. d BY <1>1, <1>2, <2>3, <3>2
      <4>2. s \in Seq(Nat) /\ Len(s) = d /\ \A i \in 1 .. d : s[i] = q[i] BY <1>3, <4>1, Prefix
      <4>3. p = IncrementLast(s) BY <2>2, <3>2
      <4> HIDE DEF s
      <4>4. p = [s EXCEPT ![d] = s[d] + 1] BY <4>2, <4>3 DEF IncrementLast
      <4>5. s[d] + 1 \in Nat BY <4>1, <4>2
      <4>6. Len(p) = d /\ \A l \in 1 .. d : p[l] = IF l = d THEN s[d] + 1 ELSE s[l]
        BY <4>1, <4>2, <4>4, <4>5, ExceptSeq
      <4> QED BY <4>1, <4>2, <4>6
    <3> QED BY <3>1, <3>2
  <2>5. Len(p) <= Len(next) BY <1>2, <1>10, <2>3, <2>4
  <2>6. ASSUME NEW l \in 1 .. d PROVE IsRest(ReadChildren(next[l]), Siblings(f, p, l), Gone(p, l))
    <3>1. l \in 1 .. n /\ l \in Nat \ {0} /\ l - 1 <= Len(p) /\ l - 1 <= Len(q) /\ d # 0
          /\ \A i \in 1 .. (l - 1) : i \in 1 .. d /\ i # d
      BY <1>1, <1>2, <2>3, <2>4
    <3>a. \A i \in 1 .. (l - 1) : p[i] = q[i] BY <2>4, <3>1
    <3>b. l \in Nat \ {0} /\ l - 1 <= Len(p) /\ l - 1 <= Len(q) /\ p \in Seq(Nat) /\ q \in Seq(Nat)
      BY <1>3, <1>6, <3>1
    <3>2. Siblings(f, p, l) = Siblings(f, q, l) BY ONLY <3>a, <3>b, SameSiblings
    <3>3. Gone(p, l) = q[l] + 1
      <4>1. q[l] \in Nat BY <1>1, <1>3, <3>1
      <4>2. CASE l = d BY <2>4, <3>1, <4>1, <4>2 DEF Gone
      <4>3. CASE l # d BY <2>4, <4>3 DEF Gone
      <4> QED BY <4>2, <4>3
    <3> QED BY <1>1, <1>10, <3>1, <3>2, <3>3
  <2>7. ASSUME NEW l \in (d + 1) .. Len(next) PROVE Len(ReadChildren(next[l])) = 0
    <3>1. (l \in (d + 1) .. n /\ l \in 1 .. n) \/ (l = n + 1 /\ Len(next) = n + 1) BY <1>2, <1>10, <2>3
    <3>2. CASE l \in (d + 1) .. n /\ l \in 1 .. n
      <4>1. next[l] = mid[l] /\ Len(ReadChildren(mid[l])) = rest[l] /\ rest[l] = 0 BY <1>10, <2>1, <2>3, <3>2
      <4> QED BY <4>1
    <3>3. CASE l = n + 1 /\ Len(next) = n + 1
      <4>1. cc = 0 BY <1>8, <1>13
      <4> QED BY <1>8, <1>10, <3>3, <4>1
    <3> QED BY <3>1, <3>2, <3>3
  <2> QED BY <1>7, <1>10, <1>11, <2>4, <2>5, <2>6, <2>7 DEF Follows
<1> QED BY <1>8, <1>12, <1>13

\* The matcher only goes forward.
LEMMA AdvancesForward ==
    ASSUME NEW q \in Seq(Nat), NEW stack, NEW cc, NEW p, p = AdvancePath(q, stack, cc), p # <<>>,
           NEW rest, rest = DecrementRemaining(stack), rest \in Seq(Nat), Len(rest) = Len(q)
    PROVE  Before(q, p)
<1>1. CASE cc > 0
  <2>1. p = Append(q, 0) BY <1>1 DEF AdvancePath, Adding
  <2>2. Len(p) = Len(q) + 1 /\ \A i \in 1 .. Len(q) : p[i] = q[i] BY <2>1, AppendProperties
  <2>3. Len(q) < Len(p) /\ \A i \in 1 .. Len(q) : q[i] = p[i] BY <2>2
  <2> QED BY <2>3 DEF Before
<1>2. CASE ~(cc > 0)
  <2>0. PICK d, s : d = Deepest(rest) /\ s = SubSeq(q, 1, d) OBVIOUS
  <2>1. d \in 0 .. Len(q) BY <2>0, DeepestLevel
  <2>2. p = IF d = 0 THEN <<>> ELSE IncrementLast(s) BY <1>2, <2>0 DEF AdvancePath
  <2>3. d # 0 /\ p = IncrementLast(s) BY <2>2
  <2>4. s \in Seq(Nat) /\ Len(s) = d /\ \A i \in 1 .. d : s[i] = q[i] BY <2>0, <2>1, Prefix
  <2>5. p = [s EXCEPT ![d] = s[d] + 1] BY <2>3, <2>4 DEF IncrementLast
  <2>6. d \in 1 .. d /\ d \in 1 .. Len(q) BY <2>1, <2>3
  <2>7. s[d] + 1 \in Nat BY <2>4, <2>6
  <2>8. Len(p) = d /\ \A l \in 1 .. d : p[l] = IF l = d THEN s[d] + 1 ELSE s[l]
    BY <2>4, <2>5, <2>6, <2>7, ExceptSeq
  <2>9. p[d] = q[d] + 1 /\ q[d] \in Nat BY <2>4, <2>6, <2>8
  <2>10. \A j \in 1 .. (d - 1) : q[j] = p[j]
    <3>1. \A j \in 1 .. (d - 1) : j \in 1 .. d /\ j # d BY <2>6
    <3> QED BY <2>4, <2>8, <3>1
  <2>11. d <= Len(p) /\ q[d] < p[d] BY <2>1, <2>8, <2>9
  <2> QED BY <2>6, <2>10, <2>11 DEF Before
<1> QED BY <1>1, <1>2

\* After the result at q the matcher looks for its successor: what is before
\* that is what was before q, and q.
LEMMA AdvanceReturns ==
    ASSUME NEW f \in FaultCases, ReadsChildren(RootDirEntry), NEW q, NEW stack, Tracks(f, q, stack),
           OnTree(f, q), NEW p, p = AdvancePath(q, stack, ResultAt(f, q).child_count),
           NEW left, left = AdvanceStack(stack, ResultAt(f, q).child_count), Tracks(f, p, left),
           NEW x \in TreePaths(f)
    PROVE  (p = <<>> \/ Before(x, p)) <=> (Before(x, q) \/ x = q)
<1> DEFINE R == TreeResults(f)
           r == ResultAt(f, q)
           y == ResultAt(f, x)
<1>1. ResultTree(R) /\ q \in Seq(Nat) /\ stack \in Seq(Nat) /\ Len(stack) = Len(q) /\ StackCounts(R, q, stack)
      /\ p \in Seq(Nat)
  BY ResultsAreTree DEF Tracks
<1>2. q \in TreePaths(f) /\ x \in Seq(Nat) BY <1>1 DEF TreePaths
<1>3. r \in R /\ r.index_path = q /\ y \in R /\ y.index_path = x BY <1>2, ResultIs DEF TreeResults
<1>4. p = AdvancePath(q, stack, r.child_count) OBVIOUS
<1> HIDE DEF R, r, y
<1>5. Before(q, x) => p # <<>> /\ ~Before(x, p)
  BY <1>1, <1>3, <1>4, AdvanceSkipsNone
<1>6. x # q => Before(x, q) \/ Before(q, x) BY <1>1, <1>2, BeforeTotal DEF Paths
<1>7. Before(x, q) => ~Before(q, x) BY <1>1, <1>2, BeforeAsymmetric DEF Paths
<1>8. ~Before(q, q) BY <1>1, BeforeAsymmetric DEF Paths
<1>9. p # <<>> => Before(q, p)
  <2>1. PICK rest : rest = DecrementRemaining(stack) OBVIOUS
  <2>2. q # <<>> BY <1>1, <1>3, ResultPaths
  <2>3. rest \in Seq(Nat) /\ Len(rest) = Len(q) BY <1>1, <2>1, <2>2, LevelsLeft DEF LeftBehind
  <2> QED BY <1>1, <1>4, <2>1, <2>3, AdvancesForward
<1>10. Before(x, q) /\ Before(q, p) => Before(x, p) BY <1>1, <1>2, BeforeTransitive DEF Paths
<1> QED BY <1>5, <1>6, <1>7, <1>8, <1>9, <1>10

------------------------------------------------------------------------------
(* The steps of the walk *)

\* The matcher of the walk's OrderedQueue is the one of the lemmas.
LEMMA SameMatcher ==
    /\ \A path, stack, n : OQ!AdvancePath(path, stack, n) = AdvancePath(path, stack, n)
    /\ \A stack, n : OQ!AdvanceStack(stack, n) = AdvanceStack(stack, n)
    /\ \A p, q : OQ!Before(p, q) <=> Before(p, q)
<1>1. \A stack : OQ!DecrementRemaining(stack) = DecrementRemaining(stack)
  BY DEF OQ!DecrementRemaining, DecrementRemaining
<1>2. \A stack : OQ!Deepest(stack) = Deepest(stack) BY DEF OQ!Deepest, Deepest
<1>3. \A path, i : OQ!Adding(path, i) = Adding(path, i) BY DEF OQ!Adding, Adding
<1>4. \A path : OQ!IncrementLast(path) = IncrementLast(path) BY DEF OQ!IncrementLast, IncrementLast
<1>5. \A path, stack, n : OQ!AdvancePath(path, stack, n) = AdvancePath(path, stack, n)
  BY <1>1, <1>2, <1>3, <1>4 DEF OQ!AdvancePath, AdvancePath
<1>6. \A stack, n : OQ!AdvanceStack(stack, n) = AdvanceStack(stack, n)
  BY <1>1, <1>2 DEF OQ!AdvanceStack, AdvanceStack
<1>7. \A p, q : OQ!Before(p, q) <=> Before(p, q) BY DEF OQ!Before, Before
<1> QED BY <1>5, <1>6, <1>7

LEMMA MatchKept ==
    ASSUME MatchInv, UNCHANGED <<faults, looking_for, child_count_stack>>,
           \A r : WasReturned(r)' <=> WasReturned(r)
    PROVE  MatchInv'
<1>1. PICK f, q, stack : f = faults /\ q = looking_for /\ stack = child_count_stack OBVIOUS
<1>2. f = faults' /\ q = looking_for' /\ stack = child_count_stack' BY <1>1
<1>3. Tracks(f, q, stack) BY <1>1 DEF MatchInv
<1>4. \A x \in TreePaths(f) : WasReturned(ResultAt(f, x)) <=> q = <<>> \/ Before(x, q) BY <1>1 DEF MatchInv
<1>5. \A x \in TreePaths(f) : WasReturned(ResultAt(f, x))' <=> q = <<>> \/ Before(x, q) BY <1>4
<1> QED BY <1>2, <1>3, <1>5 DEF MatchInv

\* Steps that touch neither the workers, nor the results, nor the listings.
LEMMA WalkAlone ==
    ASSUME WalkInv, UNCHANGED <<faults, use_streaming, specVars, task, sent, result_channel, result_buffer,
                                returned, looking_for, child_count_stack, read_dir_results_stack>>
    PROVE  WalkInv'
<1>1. WorkersInv' BY WorkersAlone DEF WalkInv
<1>2. PlaceInv' /\ \A r : WasReturned(r)' <=> WasReturned(r) BY PlaceAlone DEF WalkInv
<1>3. MatchInv' BY <1>2, MatchKept DEF WalkInv
<1>4. StackInv' BY DEF WalkInv, StackInv
<1> QED BY <1>1, <1>2, <1>3, <1>4 DEF WalkInv

LEMMA WorkerWalks ==
    ASSUME StreamsCleanly, ParInv, ParInv', use_streaming \in StreamingModes, WalkInv,
           ReadsChildren(RootDirEntry), ~stop, ~ReceiverGone, NEW w \in Workers, Worker(w)
    PROVE  WalkInv'
<1>1. WorkersInv' BY WorkerWorks DEF WalkInv
<1>2. UNCHANGED <<faults, looking_for, child_count_stack, read_dir_results_stack>>
  BY DEF Worker, Queue, Stopped, StartRead, StreamChild, EndStream, SendResult, ScheduleChild, Finish,
         OQ!SendResult, iterVars, config, resultVars
<1>3. PlaceInv' /\ \A r : WasReturned(r)' <=> WasReturned(r)
  <2>1. CASE SendResult(w)
    <3>1. PICK r : r = OrderedResult(w) OBVIOUS
    <3>2. /\ sent' = sent \cup {r} /\ r \notin sent
          /\ result_channel' = Append(result_channel, r)
          /\ UNCHANGED <<result_buffer, returned>>
      BY <2>1, <3>1, SendResultWorks DEF WalkInv
    <3> QED BY <3>2, PlaceSend DEF WalkInv
  <2>2. CASE ~SendResult(w)
    <3>1. UNCHANGED <<result_channel, result_buffer, sent, returned>>
      BY <2>2 DEF Worker, Queue, Stopped, StartRead, StreamChild, EndStream, ScheduleChild, Finish, resultVars
    <3> QED BY <3>1, PlaceAlone DEF WalkInv
  <2> QED BY <2>1, <2>2
<1>4. MatchInv' BY <1>2, <1>3, MatchKept DEF WalkInv
<1>5. StackInv' BY <1>2 DEF WalkInv, StackInv
<1> QED BY <1>1, <1>3, <1>4, <1>5 DEF WalkInv

\* A worker step: the caller is left alone, and has the senders still.
LEMMA WorkerCalls ==
    ASSUME ParInv, CallerInv, NEW w \in Workers, Worker(w)
    PROVE  CallerInv'
<1>1. Leaves' BY WorkerLeaves DEF CallerInv
<1>2. pc[w] # "exit" /\ job = "started" /\ job' = job
  BY DEF Worker, Queue, Stopped, StartRead, StreamChild, EndStream, SendResult, ScheduleChild, Finish, Walking,
         PQ!TakeNext, PQ!PushSend, PQ!Lock, PQ!CheckStop, PQ!TryRecv, PQ!Pop, PQ!LoadPending, PQ!RecvTimeout
<1>3. connected BY <1>2 DEF CallerInv, JobDone, PQ!Exited
<1>4. UNCHANGED <<read_dir_results_stack, iter, connected, at>>
  BY DEF Worker, Queue, Stopped, StartRead, StreamChild, EndStream, SendResult, ScheduleChild, Finish,
         OQ!SendResult, iterVars, resultVars
<1>5. stop' = stop
  BY DEF Worker, Queue, Stopped, StartRead, StreamChild, EndStream, SendResult, ScheduleChild, Finish,
         OQ!SendResult, PQ!TakeNext, PQ!PushSend, PQ!Lock, PQ!CheckStop, PQ!TryRecv, PQ!Pop, PQ!LoadPending,
         PQ!RecvTimeout, PQ!CompleteItem, PQ!PushCount
<1> QED BY <1>1, <1>2, <1>3, <1>4, <1>5 DEF CallerInv

\* With a root that is no directory to walk, no worker has anything to do.
LEMMA WorkerEmpty ==
    ASSUME ParInv, EmptyInv, NEW w \in Workers, Worker(w)
    PROVE  EmptyInv'
<1>1. ~AtWork(w) BY QueueFacts DEF ParInv, EmptyInv
<1>2. Queue(w) /\ ~PQ!PushSend(w)
  BY <1>1 DEF Worker, Stopped, StartRead, StreamChild, EndStream, SendResult, ScheduleChild, Finish, Walking,
              AtWork, PQ!PushSend
<1>3. issued' = issued
  BY <1>2 DEF Queue, PQ!TakeNext, PQ!Lock, PQ!CheckStop, PQ!TryRecv, PQ!Pop, PQ!LoadPending, PQ!RecvTimeout
<1>4. UNCHANGED <<sent, result_channel, result_buffer, read_dir_results_stack>>
  BY <1>2 DEF Queue, resultVars, iterVars
<1> QED BY <1>3, <1>4 DEF EmptyInv

LEMMA PromiseInit == ParInit => PromiseInv
<1> SUFFICES ASSUME ParInit PROVE PromiseInv OBVIOUS
<1>1. ParInv BY ParInitInv
<1>2. /\ read_dir_results_stack = <<<<RootDirEntry>>>> /\ faults \in FaultCases
      /\ use_streaming \in StreamingModes /\ job = "queued"
      /\ task = [w \in Workers |-> NoTask] /\ iter \in {"starting", "alive"}
      /\ pc = [w \in Workers |-> "lock"] /\ stop = FALSE
      /\ result_channel = <<>> /\ result_buffer = {} /\ looking_for = <<0>> /\ child_count_stack = <<1>>
      /\ connected = TRUE /\ at = "idle" /\ sent = {} /\ returned = <<>>
  BY DEF ParInit, IterInit, PQ!Init, OQ!OQInit
<1>3. CallerInv BY <1>2 DEF CallerInv, Leaves
<1> DEFINE roots == IF ReadsChildren(RootDirEntry) THEN <<RootSpec>> ELSE <<>>
<1>4. issued = {roots[k] : k \in DOMAIN roots} /\ channel = roots BY DEF ParInit, PQ!Init
<1>5. ASSUME ~ReadsChildren(RootDirEntry) PROVE EmptyInv
  <2>1. DOMAIN roots = {} BY <1>5
  <2>2. issued = {} BY <1>4, <2>1
  <2> QED BY <1>2, <2>2 DEF EmptyInv, RootStacks
<1>6. ASSUME ReadsChildren(RootDirEntry) PROVE WalkInv
  <2>1. channel = <<RootSpec>> BY <1>4, <1>6
  <2>2. issued = {RootSpec} BY <1>4, <1>6
  <2>3. Known = {RootSpec}
    <3>1. \A w \in Workers : DOMAIN task[w].todo = {} BY <1>2 DEF NoTask
    <3> QED BY <2>2, <3>1 DEF Known
  <2>4. RootSpec.index_path = <<0>> /\ RootSpec.value = ReadDirSpec(RootDirEntry) BY DEF RootSpec, Weighted
  <2>5. PICK f, root : f = faults /\ root = RootSpec OBVIOUS
  <2>6. OnTree(f, <<0>>) /\ EntryAt(f, <<0>>) = RootDirEntry BY RootOnTree
  <2>7. WorkersInv
    <3>1. Named(RootSpec) BY <2>4, <2>5, <2>6 DEF Named
    <3>2. Waits(RootSpec)
      <4>1. DOMAIN <<RootSpec>> = {1} /\ <<RootSpec>>[1] = RootSpec OBVIOUS
      <4> QED BY <2>1, <4>1 DEF Waits
    <3>3. WorkInv BY <2>2, <2>3, <2>4, <3>1, <3>2 DEF WorkInv
    <3>4. \A w \in Workers : ~AtWork(w) BY <1>2 DEF AtWork
    <3>5. SentInv BY <1>2 DEF SentInv
    <3> QED BY <3>3, <3>4, <3>5 DEF WorkersInv
  <2>8. \A r : ~WasReturned(r) BY <1>2 DEF WasReturned
  <2>9. PlaceInv
    <3>1. IsSeq(<<>>)
      <4>1. <<>> \in Seq({}) OBVIOUS
      <4> QED BY <4>1 DEF IsSeq
    <3> QED BY <1>2, <3>1 DEF PlaceInv
  <2> DEFINE zero == <<0>>
             one == <<1>>
  <2>10. /\ zero \in Seq(Nat) /\ Len(zero) = 1 /\ zero[1] = 0 /\ zero # <<>>
         /\ one \in Seq(Nat) /\ Len(one) = 1 /\ one[1] = 1
    OBVIOUS
  <2>11. looking_for = zero /\ child_count_stack = one BY <1>2
  <2> HIDE DEF zero, one
  <2>12. Tracks(f, zero, one)
    <3>1. \A k \in 2 .. Len(zero) : FALSE BY <2>10
    <3>2. StackCounts(TreeResults(f), zero, one) BY <2>10, <3>1 DEF StackCounts
    <3> QED BY <2>10, <3>2 DEF Tracks
  <2>13. ASSUME NEW q \in TreePaths(f) PROVE ~Before(q, zero)
    <3>1. OnTree(f, q) BY DEF TreePaths
    <3>2. q \in Seq(Nat) /\ q[1] = 0 /\ Len(q) \in Nat \ {0} BY <1>2, <1>6, <2>5, <3>1, NodeGood
    <3>3. ~(Len(q) < Len(zero)) BY <2>10, <3>2
    <3>4. \A k \in 1 .. Len(q) : k <= Len(zero) => ~(q[k] < zero[k]) BY <2>10, <3>2
    <3> QED BY <3>3, <3>4 DEF Before
  <2>14. MatchInv
    <3>1. Tracks(faults, looking_for, child_count_stack) BY <2>5, <2>11, <2>12
    <3>2. \A q \in TreePaths(faults) : ~(looking_for = <<>>) /\ ~Before(q, looking_for)
      BY <2>5, <2>10, <2>11, <2>13
    <3> QED BY <2>8, <3>1, <3>2 DEF MatchInv
  <2>15. StackInv
    <3> DEFINE lists == read_dir_results_stack
               top == <<RootDirEntry>>
    <3>1. lists = <<top>> BY <1>2
    <3>2. top \in Seq({RootDirEntry}) /\ top # <<>> /\ Head(top) = RootDirEntry /\ Len(top) = 1
          /\ Tail(top) = <<>> /\ top[1] = RootDirEntry
      OBVIOUS
    <3>3. Siblings(f, zero, 1) = top BY DEF Siblings
    <3> HIDE DEF top
    <3>4. lists \in Seq({top}) /\ Len(lists) = 1 /\ lists[1] = top BY <3>1
    <3> HIDE DEF lists
    <3>5. IsSeq(top) /\ IsSeq(lists) BY <3>2, <3>4 DEF IsSeq
    <3>6. Len(ReadChildren(top)) = 1 /\ ReadChildren(top)[1] = RootDirEntry
      <4>1. Len(ReadChildren(Tail(top))) = 0
        <5>1. Len(<<>>) = 0 OBVIOUS
        <5> QED BY <3>2, <5>1, NoChildren
      <4>2. Len(ReadChildren(top)) = Len(ReadChildren(Tail(top))) + 1 /\ ReadChildren(top)[1] = Head(top)
        BY <1>6, <3>2, ChildrenOfTail
      <4> QED BY <3>2, <4>1, <4>2
    <3>7. Gone(zero, 1) = 0 BY <2>10 DEF Gone
    <3>8. IsRest(ReadChildren(top), top, 0)
      <4>1. \A i \in 1 .. 1 : i = 1 /\ 0 + i = 1 OBVIOUS
      <4>2. 1 = 0 + 1 OBVIOUS
      <4> QED BY <3>2, <3>6, <4>1, <4>2 DEF IsRest
    <3>9. \A l \in 1 .. Len(zero) : IsRest(ReadChildren(lists[l]), Siblings(f, zero, l), Gone(zero, l))
      <4>1. \A l \in 1 .. Len(zero) : l = 1 BY <2>10
      <4> QED BY <3>3, <3>4, <3>7, <3>8, <4>1
    <3>10. \A l \in 1 .. Len(lists) : IsSeq(lists[l])
      <4>1. \A l \in 1 .. Len(lists) : l = 1 BY <3>4
      <4> QED BY <3>4, <3>5, <4>1
    <3>11. \A l \in (Len(zero) + 1) .. Len(lists) : FALSE BY <2>10, <3>4
    <3>12. Len(zero) <= Len(lists) BY <2>10, <3>4
    <3>13. Follows(f, zero, lists) BY <3>5, <3>9, <3>10, <3>11, <3>12 DEF Follows
    <3> QED BY <2>5, <2>11, <3>13 DEF StackInv, lists
  <2> QED BY <2>7, <2>9, <2>14, <2>15 DEF WalkInv
<1> QED BY <1>1, <1>2, <1>3, <1>5, <1>6 DEF PromiseInv

------------------------------------------------------------------------------
(* The caller *)

\* A caller that goes into no directory has the root, or nothing.
LEMMA RootTurns ==
    ASSUME read_dir_results_stack \in RootStacks, PopList \/ YieldEntry \/ YieldBusy
    PROVE  read_dir_results_stack' \in RootStacks
<1> DEFINE full == <<<<RootDirEntry>>>>
           used == <<<<>>>>
<1>1. /\ Len(full) = 1 /\ full[1] = <<RootDirEntry>> /\ [full EXCEPT ![1] = Tail(@)] = used
      /\ <<RootDirEntry>> # <<>>
      /\ Len(used) = 1 /\ used[1] = <<>> /\ SubSeq(used, 1, 1 - 1) = <<>>
  OBVIOUS
<1>2. read_dir_results_stack \in {full, used, <<>>} BY DEF RootStacks
<1> HIDE DEF full, used
<1>3. CASE PopList
  <2>1. read_dir_results_stack # full BY <1>1, <1>3 DEF PopList, TopList
  <2>2. read_dir_results_stack = used BY <1>2, <1>3, <2>1 DEF PopList
  <2>3. read_dir_results_stack' = <<>> BY <1>1, <1>3, <2>2 DEF PopList
  <2> QED BY <2>3 DEF RootStacks
<1>4. CASE YieldEntry \/ YieldBusy
  <2>1. HasEntry /\ read_dir_results_stack' = Consumed BY <1>4 DEF YieldEntry, YieldBusy, AtDirectory
  <2>2. read_dir_results_stack # used BY <1>1, <2>1 DEF HasEntry, TopList
  <2>3. read_dir_results_stack = full BY <1>2, <2>1, <2>2 DEF HasEntry
  <2>4. read_dir_results_stack' = used BY <1>1, <2>1, <2>3 DEF Consumed
  <2> QED BY <2>4 DEF RootStacks, used
<1> QED BY <1>3, <1>4

LEMMA RootOnly ==
    ASSUME read_dir_results_stack \in RootStacks, AtDirectory
    PROVE  NextEntry = RootDirEntry /\ ReadsChildren(RootDirEntry)
<1> DEFINE full == <<<<RootDirEntry>>>>
           used == <<<<>>>>
<1>1. /\ Len(full) = 1 /\ full[1] = <<RootDirEntry>> /\ Head(<<RootDirEntry>>) = RootDirEntry
      /\ Len(used) = 1 /\ used[1] = <<>>
  OBVIOUS
<1>2. read_dir_results_stack \in {full, used, <<>>} BY DEF RootStacks
<1> HIDE DEF full, used
<1>3. read_dir_results_stack # used /\ read_dir_results_stack # <<>>
  BY <1>1 DEF AtDirectory, HasEntry, TopList
<1>4. TopList = <<RootDirEntry>> BY <1>1, <1>2, <1>3 DEF TopList
<1>5. NextEntry = RootDirEntry BY <1>1, <1>4 DEF NextEntry
<1> QED BY <1>5 DEF AtDirectory

LEMMA YieldConsumes ==
    ASSUME HasEntry, NEW n, n = Len(read_dir_results_stack), NEW top, top = TopList, NEW next, next = Consumed
    PROVE  ConsumesTop(read_dir_results_stack, next, n, top) /\ Head(top) = NextEntry
BY DEF HasEntry, TopList, Consumed, ConsumesTop, NextEntry

LEMMA LocalWalks ==
    ASSUME ParInv, WalkInv, ReadsChildren(RootDirEntry), PopList \/ YieldEntry,
           UNCHANGED <<faults, use_streaming, specVars, task, sent, result_channel, result_buffer,
                       returned, looking_for, child_count_stack>>
    PROVE  WalkInv'
<1>1. WorkersInv' BY WorkersAlone DEF WalkInv
<1>2. PlaceInv' /\ \A r : WasReturned(r)' <=> WasReturned(r) BY PlaceAlone DEF WalkInv
<1>3. MatchInv' BY <1>2, MatchKept DEF WalkInv
<1>4. PICK f, q, stack, lists, n, top, next :
         /\ f = faults /\ q = looking_for /\ stack = child_count_stack /\ lists = read_dir_results_stack
         /\ n = Len(read_dir_results_stack) /\ top = TopList /\ next = read_dir_results_stack'
  OBVIOUS
<1>5. f \in FaultCases /\ Tracks(f, q, stack) /\ Follows(f, q, lists) /\ q \in Seq(Nat)
  BY <1>4 DEF ParInv, WalkInv, MatchInv, StackInv, Tracks
<1>6. CASE PopList
  <2>1. lists # <<>> /\ lists[n] = <<>> /\ n = Len(lists) /\ next = SubSeq(lists, 1, n - 1)
    BY <1>4, <1>6 DEF PopList, TopList
  <2>2. Follows(f, q, next) BY <1>5, <2>1, PopFollows
  <2>3. StackInv' BY <1>4, <2>2 DEF StackInv
  <2> QED BY <1>1, <1>2, <1>3, <2>3 DEF WalkInv
<1>7. CASE YieldEntry
  <2>1. HasEntry /\ next = Consumed /\ ~ReadsChildren(NextEntry) BY <1>4, <1>7 DEF YieldEntry
  <2>2. ConsumesTop(lists, next, n, top) /\ Head(top) = NextEntry BY <1>4, <2>1, YieldConsumes
  <2>3. ~ReadsChildren(Head(top)) BY <2>1, <2>2
  <2>4. Follows(f, q, next) BY <1>5, <2>2, <2>3, SkipFollows
  <2>5. StackInv' BY <1>4, <2>4 DEF StackInv
  <2> QED BY <1>1, <1>2, <1>3, <2>5 DEF WalkInv
<1> QED BY <1>6, <1>7

\* The directory the caller is at is the one the matcher looks for.
LEMMA MeetsLookedFor ==
    ASSUME ParInv, WalkInv, ReadsChildren(RootDirEntry), AtDirectory
    PROVE  /\ looking_for # <<>> /\ OnTree(faults, looking_for)
           /\ NextEntry = EntryAt(faults, looking_for)
<1>1. PICK f, q, stack, lists, n, top, next :
         /\ f = faults /\ q = looking_for /\ stack = child_count_stack /\ lists = read_dir_results_stack
         /\ n = Len(read_dir_results_stack) /\ top = TopList /\ next = Consumed
  OBVIOUS
<1>2. f \in FaultCases /\ Tracks(f, q, stack) /\ Follows(f, q, lists)
  BY <1>1 DEF ParInv, WalkInv, MatchInv, StackInv
<1>3. HasEntry /\ ReadsChildren(NextEntry) BY DEF AtDirectory
<1>4. ConsumesTop(lists, next, n, top) /\ Head(top) = NextEntry BY <1>1, <1>3, YieldConsumes
<1>5. ReadsChildren(Head(top)) BY <1>3, <1>4
<1>6. q # <<>> /\ OnTree(f, q) /\ Head(top) = EntryAt(f, q) BY <1>2, <1>4, <1>5, NextIsLookedFor
<1> QED BY <1>1, <1>4, <1>6

\* Once the senders are gone, the result of every directory was sent.
LEMMA AllSent ==
    ASSUME ParInv, CallerInv, WalkInv, ReadsChildren(RootDirEntry), ~stop, ~connected, iter = "alive"
    PROVE  \A q \in TreePaths(faults) : ResultAt(faults, q) \in sent
<1>1. PQ!Exited BY DEF CallerInv, JobDone
<1>2. \A w \in Workers : pc[w] = "exit" BY <1>1 DEF PQ!Exited
<1>3. fused BY <1>2, ParAssumption DEF CallerInv, Leaves
<1>4. channel = <<>> /\ receive_buffer = {}
  <2>1. Q!IInv => Q!NoEarlyEnd
    BY QueueAssumption, Q!ZeroIsIdle DEF Q!PQAssumption, Q!NoEarlyEnd, Q!IInv, Q!EndedAtZero
  <2> QED BY <1>3, <2>1 DEF ParInv, Q!NoEarlyEnd
<1>5. \A w \in Workers : ~AtWork(w) BY <1>2 DEF AtWork
<1>6. \A s : ~Waits(s) BY <1>2, <1>4 DEF Waits
<1>7. \A s \in issued : ResultAt(faults, s.index_path) \in sent BY <1>5, <1>6 DEF WalkInv, WorkersInv, WorkInv
<1>8. \A s \in Known : s \in issued
  <2>1. \A w \in Workers : DOMAIN task[w].todo = {} BY <1>5 DEF ParInv, TasksInv, NoTask
  <2> QED BY <2>1, KnownAre
<1>9. \A p : Path(p) => ResultAt(faults, p) \in sent /\ KidsKnown(p)
  <2>1. ASSUME NEW p, Path(p) PROVE ResultAt(faults, p) \in sent /\ KidsKnown(p)
    <3>1. ResultAt(faults, p) \in sent BY <1>7, <1>8, <2>1 DEF Path
    <3>2. PICK t \in issued : ResultAt(faults, p) = ResultAt(faults, t.index_path) /\ KidsKnown(t.index_path)
      BY <3>1 DEF WalkInv, WorkersInv, SentInv, SentFrom
    <3>3. p = t.index_path
      <4>1. ResultAt(faults, p).index_path = p /\ ResultAt(faults, t.index_path).index_path = t.index_path
        BY ResultIs
      <4> QED BY <3>2, <4>1
    <3> QED BY <3>1, <3>2, <3>3
  <2> QED BY <2>1
<1>10. PICK f : f = faults OBVIOUS
<1>11. f \in FaultCases BY <1>10 DEF ParInv
<1>12. Path(<<0>>)
  <2>1. PICK s \in issued : s.index_path = <<0>> BY DEF WalkInv, WorkersInv, WorkInv
  <2> QED BY <2>1, KnownAre DEF Path
<1>13. ASSUME NEW q \in TreePaths(f) PROVE Path(q)
  <2>1. OnTree(f, q) BY DEF TreePaths
  <2>2. q \in Seq(Nat) /\ q # <<>> /\ q[1] = 0 /\ Len(q) \in Nat \ {0} BY <1>11, <2>1, NodeGood
  <2>3. Leads(f, q, Trail(f, q)) BY <2>1 DEF OnTree
  <2> DEFINE T == {k \in 1 .. Len(q) : ~Path(SubSeq(q, 1, k))}
  <2>4. ASSUME T # {} PROVE FALSE
    <3>1. T \in SUBSET Nat BY <2>2
    <3>2. PICK k \in T : \A m \in T : k <= m BY <2>4, <3>1, LeastNat
    <3>3. k \in 1 .. Len(q) /\ ~Path(SubSeq(q, 1, k)) OBVIOUS
    <3>4. k # 1
      <4>1. SubSeq(q, 1, 1) = <<0>>
        <5>1. 1 \in 0 .. Len(q) BY <2>2
        <5>2. /\ SubSeq(q, 1, 1) \in Seq(Nat) /\ Len(SubSeq(q, 1, 1)) = 1
              /\ \A i \in 1 .. 1 : SubSeq(q, 1, 1)[i] = q[i]
          BY <2>2, <5>1, Prefix
        <5>3. PICK z, s : z = <<0>> /\ s = SubSeq(q, 1, 1) OBVIOUS
        <5>4. z \in Seq(Nat) /\ Len(z) = 1 /\ z[1] = 0 BY <5>3
        <5>5. s \in Seq(Nat) /\ Len(s) = 1 /\ \A i \in 1 .. 1 : s[i] = z[i]
          <6>1. \A i \in 1 .. 1 : i = 1 OBVIOUS
          <6> QED BY <2>2, <5>2, <5>3, <5>4, <6>1
        <5>6. s = z BY <5>4, <5>5, SeqEqual
        <5> QED BY <5>3, <5>6
      <4> QED BY <1>12, <3>3, <4>1
    <3>5. k - 1 \in 1 .. Len(q) /\ k - 1 \in Nat /\ ~(k <= k - 1) /\ k \in 2 .. Len(q) BY <2>2, <3>3, <3>4
    <3>6. PICK p : p = SubSeq(q, 1, k - 1) OBVIOUS
    <3>7. Path(p)
      <4>1. k - 1 \notin T BY <3>2, <3>5
      <4> QED BY <3>5, <3>6, <4>1
    <3> HIDE DEF T
    <3>8. OnTree(f, p) /\ EntryAt(f, p) = Trail(f, q)[k - 1] BY <2>1, <3>5, <3>6, PrefixOnTree
    <3>9. q[k] < Len(Kids(f, EntryAt(f, p))) BY <2>3, <3>5, <3>8 DEF Leads
    <3>10. q[k] \in Nat BY <2>2, <3>3
    <3>11. Path(Adding(p, q[k]))
      <4>1. KidsKnown(p) BY <1>9, <3>7
      <4>2. ResultAt(f, p).child_count = Len(Kids(f, EntryAt(f, p))) BY ResultIs
      <4> QED BY <1>10, <3>9, <3>10, <4>1, <4>2 DEF KidsKnown
    <3>12. Adding(p, q[k]) = SubSeq(q, 1, k)
      <4>1. PICK s : s = SubSeq(q, 1, k) OBVIOUS
      <4>2. k \in 0 .. Len(q) /\ k - 1 \in 0 .. Len(q) BY <2>2, <3>3, <3>5
      <4>3. s \in Seq(Nat) /\ Len(s) = k /\ \A i \in 1 .. k : s[i] = q[i] BY <2>2, <4>1, <4>2, Prefix
      <4>4. s = Adding(SubSeq(s, 1, k - 1), s[k])
        <5>1. k \in Nat \ {0} BY <3>5
        <5> QED BY <4>3, <5>1, FrontAndLast
      <4>5. SubSeq(s, 1, k - 1) = p
        <5>1. k - 1 <= Len(s) /\ k - 1 <= Len(q) /\ \A i \in 1 .. (k - 1) : i \in 1 .. k BY <3>5, <4>3
        <5>2. \A i \in 1 .. (k - 1) : s[i] = q[i] BY <4>3, <5>1
        <5> QED BY <2>2, <3>5, <3>6, <4>3, <5>1, <5>2, SamePrefix
      <4>6. s[k] = q[k]
        <5>1. k \in 1 .. k BY <3>5
        <5> QED BY <4>3, <5>1
      <4> QED BY <4>1, <4>4, <4>5, <4>6
    <3> QED BY <3>3, <3>11, <3>12
  <2>5. Path(SubSeq(q, 1, Len(q)))
    <3>1. Len(q) \in 1 .. Len(q) BY <2>2
    <3> QED BY <2>4, <3>1
  <2>6. SubSeq(q, 1, Len(q)) = q
    <3>1. PICK s : s = SubSeq(q, 1, Len(q)) OBVIOUS
    <3>2. Len(q) \in 0 .. Len(q) BY <2>2
    <3>3. s \in Seq(Nat) /\ Len(s) = Len(q) /\ \A i \in 1 .. Len(q) : s[i] = q[i] BY <2>2, <3>1, <3>2, Prefix
    <3>4. s = q BY <2>2, <3>3, SeqEqual
    <3> QED BY <3>1, <3>4
  <2> QED BY <2>5, <2>6
<1> QED BY <1>9, <1>10, <1>13

\* What was sent is the result of a directory of the tree.
LEMMA SentOnTree ==
    ASSUME WalkInv, NEW r \in sent
    PROVE  /\ r.index_path \in TreePaths(faults)
           /\ r = ResultAt(faults, r.index_path)
<1>1. PICK s \in issued : r = ResultAt(faults, s.index_path) BY DEF WalkInv, WorkersInv, SentInv, SentFrom
<1>2. r.index_path = s.index_path BY <1>1, ResultIs
<1>3. Named(s) BY KnownAre DEF WalkInv, WorkersInv, WorkInv
<1>4. OnTree(faults, s.index_path) BY <1>3 DEF Named
<1>5. s.index_path \in Seq(Nat) BY <1>4 DEF OnTree, Leads
<1> QED BY <1>1, <1>2, <1>4, <1>5 DEF TreePaths

\* With the senders gone and the channel empty, the result looked for is in
\* the buffer.
LEMMA LookedForRests ==
    ASSUME ParInv, CallerInv, WalkInv, ReadsChildren(RootDirEntry), ~stop, ~connected, iter = "alive",
           AtDirectory, result_channel = <<>>
    PROVE  ResultAt(faults, looking_for) \in result_buffer
<1>1. PICK q : q = looking_for OBVIOUS
<1>2. q # <<>> /\ OnTree(faults, q) BY <1>1, MeetsLookedFor
<1>3. q \in Seq(Nat) BY <1>2 DEF OnTree, Leads
<1>4. q \in TreePaths(faults) BY <1>2, <1>3 DEF TreePaths
<1>5. ResultAt(faults, q) \in sent BY <1>4, AllSent
<1>6. ~Before(q, q) BY <1>3, BeforeAsymmetric DEF Paths
<1>7. ~WasReturned(ResultAt(faults, q)) BY <1>1, <1>2, <1>4, <1>6 DEF WalkInv, MatchInv
<1>8. \A r : ~InResults(r) BY DEF InResults
<1> QED BY <1>1, <1>5, <1>7, <1>8 DEF WalkInv, PlaceInv

\* While the walk is not stopped, the caller waits until it has a result.
LEMMA WaitsForIt ==
    ASSUME ParInv, CallerInv, WalkInv, ReadsChildren(RootDirEntry), ~stop, WaitForResult
    PROVE  WalkInv' /\ at' # "end"
<1> USE DEF WaitForResult
<1>1. /\ UNCHANGED <<read_dir_results_stack, faults, use_streaming, specVars, task, iter>>
      /\ iter = "alive" /\ AtDirectory
  BY DEF iterVars, config
<1>2. looking_for # <<>> BY <1>1, MeetsLookedFor
<1>3. UNCHANGED <<looking_for, child_count_stack, sent, returned>>
  BY DEF OQ!CallNext, OQ!StartTry, OQ!DrainResult, OQ!NoMatch, OQ!WaitResult, OQ!NothingRests
<1>4. at' # "end"
  <2>1. CASE OQ!CallNext BY <2>1 DEF OQ!CallNext
  <2>2. CASE OQ!StartTry BY <2>2 DEF OQ!StartTry
  <2>3. CASE OQ!DrainResult BY <2>3 DEF OQ!DrainResult
  <2>4. CASE OQ!NoMatch BY <1>2, <2>4 DEF OQ!NoMatch
  <2>5. CASE OQ!WaitResult BY <2>5 DEF OQ!WaitResult
  <2>6. CASE OQ!NothingRests
    <3>1. result_channel = <<>> /\ ~connected /\ result_buffer = {} BY <2>6 DEF OQ!NothingRests
    <3> QED BY <1>1, <3>1, LookedForRests
  <2> QED BY <2>1, <2>2, <2>3, <2>4, <2>5, <2>6
<1>5. OQ!TakeResult \/ UNCHANGED <<result_channel, result_buffer>>
  BY DEF OQ!CallNext, OQ!StartTry, OQ!DrainResult, OQ!NoMatch, OQ!WaitResult, OQ!NothingRests
<1>6. PlaceInv' /\ \A r : WasReturned(r)' <=> WasReturned(r)
  <2>1. CASE OQ!TakeResult BY <1>3, <2>1, PlaceTake DEF WalkInv
  <2>2. CASE UNCHANGED <<result_channel, result_buffer>> BY <1>3, <2>2, PlaceAlone DEF WalkInv
  <2> QED BY <1>5, <2>1, <2>2
<1>7. WorkersInv' BY <1>1, <1>3, WorkersAlone DEF WalkInv
<1>8. MatchInv' BY <1>1, <1>3, <1>6, MatchKept DEF WalkInv
<1>9. StackInv' BY <1>1, <1>3 DEF WalkInv, StackInv
<1> QED BY <1>4, <1>6, <1>7, <1>8, <1>9 DEF WalkInv

\* The result the caller is given is the one of the directory it is at, and
\* the matcher advances past it.
LEMMA GivesLookedFor ==
    ASSUME ParInv, CallerInv, WalkInv, ReadsChildren(RootDirEntry), ~stop,
           NEW result \in result_buffer, GetResult(result)
    PROVE  /\ result = ResultAt(faults, looking_for)
           /\ OQ!Return(result) /\ OQ!AdvancePast(result)
           /\ UNCHANGED <<result_channel, connected, stop, sent>>
<1>1. iter = "alive" /\ AtDirectory /\ (OQ!ReturnMatch(result) \/ OQ!ReturnRest(result))
  BY DEF GetResult, YieldDirectory
<1>2. result \in sent BY DEF WalkInv, PlaceInv
<1>3. result.index_path \in TreePaths(faults) /\ result = ResultAt(faults, result.index_path)
  BY <1>2, SentOnTree
<1>4. OQ!Return(result) /\ UNCHANGED <<result_channel, connected, stop, sent>>
  BY <1>1 DEF OQ!ReturnMatch, OQ!ReturnRest
<1>5. result.index_path = looking_for
  <2>1. CASE OQ!ReturnMatch(result) BY <2>1 DEF OQ!ReturnMatch
  <2>2. CASE OQ!ReturnRest(result)
    <3>1. PICK f, q, x : f = faults /\ q = looking_for /\ x = result.index_path OBVIOUS
    <3>2. result_channel = <<>> /\ ~connected /\ OQ!IsPeek(result) BY <2>2 DEF OQ!ReturnRest
    <3>3. ResultAt(f, q) \in result_buffer BY <1>1, <3>1, <3>2, LookedForRests
    <3>4. ~Before(q, x)
      <4>1. ResultAt(f, q).index_path = q BY ResultIs
      <4>2. ~OQ!Before(ResultAt(f, q).index_path, result.index_path) BY <3>2, <3>3 DEF OQ!IsPeek
      <4>3. ~OQ!Before(q, x) BY <3>1, <4>1, <4>2
      <4> QED BY <4>3, SameMatcher
    <3>5. ~WasReturned(result) BY <1>2 DEF WalkInv, PlaceInv
    <3>6. ~Before(x, q)
      <4>1. x \in TreePaths(f) /\ result = ResultAt(f, x) BY <1>3, <3>1
      <4> QED BY <3>1, <3>5, <4>1 DEF WalkInv, MatchInv
    <3>7. x \in Paths /\ q \in Paths BY <1>3, <3>1 DEF TreePaths, Paths, WalkInv, MatchInv, Tracks
    <3>8. x = q BY <3>4, <3>6, <3>7, BeforeTotal
    <3> QED BY <3>1, <3>8
  <2> QED BY <1>1, <2>1, <2>2
<1>6. OQ!AdvancePast(result) BY <1>1, <1>5 DEF OQ!ReturnMatch, OQ!ReturnRest
<1> QED BY <1>3, <1>4, <1>5, <1>6

LEMMA GetsResult ==
    ASSUME ParInv, CallerInv, WalkInv, ReadsChildren(RootDirEntry), ~stop,
           NEW result \in result_buffer, GetResult(result)
    PROVE  WalkInv' /\ at' # "end"
<1>1. /\ result = ResultAt(faults, looking_for) /\ OQ!Return(result) /\ OQ!AdvancePast(result)
      /\ UNCHANGED <<result_channel, sent>>
  BY GivesLookedFor
<1>2. /\ UNCHANGED <<faults, use_streaming, specVars, task>> /\ YieldDirectory(result.value) /\ AtDirectory
  BY DEF GetResult, YieldDirectory, config
<1>3. WorkersInv' BY <1>1, <1>2, WorkersAlone DEF WalkInv
<1>4. PlaceInv' /\ \A x : WasReturned(x)' <=> WasReturned(x) \/ x = result
  BY <1>1, PlaceReturn DEF WalkInv
<1>5. PICK f, q, stack, lists, n, top, mid, next, p, left, r :
         /\ f = faults /\ q = looking_for /\ stack = child_count_stack /\ lists = read_dir_results_stack
         /\ n = Len(read_dir_results_stack) /\ top = TopList /\ mid = Consumed
         /\ next = read_dir_results_stack' /\ p = looking_for' /\ left = child_count_stack' /\ r = result
  OBVIOUS
<1>6. /\ f \in FaultCases /\ Tracks(f, q, stack) /\ Follows(f, q, lists)
      /\ \A x \in TreePaths(f) : WasReturned(ResultAt(f, x)) <=> q = <<>> \/ Before(x, q)
  BY <1>5 DEF ParInv, WalkInv, MatchInv, StackInv
<1>7. HasEntry /\ ReadsChildren(NextEntry) BY <1>2 DEF AtDirectory
<1>8. ConsumesTop(lists, mid, n, top) /\ Head(top) = NextEntry BY <1>5, <1>7, YieldConsumes
<1>9. ReadsChildren(Head(top)) BY <1>7, <1>8
<1>10. r = ResultAt(f, q) BY <1>1, <1>5
<1>11. next = IF r.value.ok THEN Append(mid, r.value.list) ELSE mid BY <1>2, <1>5 DEF YieldDirectory
<1>12. p = AdvancePath(q, stack, r.child_count) /\ left = AdvanceStack(stack, r.child_count)
  BY <1>1, <1>5, SameMatcher DEF OQ!AdvancePast
<1>13. Tracks(f, p, left) /\ Follows(f, p, next) BY <1>6, <1>8, <1>9, <1>10, <1>11, <1>12, EnterFollows
<1>14. q # <<>> /\ OnTree(f, q) BY <1>2, <1>5, MeetsLookedFor
<1>15. ASSUME NEW x \in TreePaths(f)
       PROVE  WasReturned(ResultAt(f, x))' <=> p = <<>> \/ Before(x, p)
  <2>1. (p = <<>> \/ Before(x, p)) <=> (Before(x, q) \/ x = q)
    BY <1>6, <1>10, <1>12, <1>13, <1>14, AdvanceReturns
  <2>2. WasReturned(ResultAt(f, x)) <=> Before(x, q) BY <1>6, <1>14
  <2>3. ResultAt(f, x) = r <=> x = q
    <3>1. ResultAt(f, x).index_path = x /\ ResultAt(f, q).index_path = q BY ResultIs
    <3> QED BY <1>10, <3>1
  <2>4. WasReturned(ResultAt(f, x))' <=> WasReturned(ResultAt(f, x)) \/ ResultAt(f, x) = r BY <1>4, <1>5
  <2> QED BY <2>1, <2>2, <2>3, <2>4
<1>16. f = faults' BY <1>2, <1>5
<1>17. MatchInv' BY <1>5, <1>13, <1>15, <1>16 DEF MatchInv
<1>18. StackInv' BY <1>5, <1>13, <1>16 DEF StackInv
<1>19. at' # "end" BY <1>1 DEF OQ!Return
<1> QED BY <1>3, <1>4, <1>17, <1>18, <1>19 DEF WalkInv

\* Steps of the caller and of the pool that leave the walk alone.
LEMMA StartsStep ==
    ASSUME PromiseInv, ParInv', StartJob \/ TryNew \/ LastWorker \/ DropIter \/ DropReceiver \/ UNCHANGED parVars
    PROVE  PromiseInv'
<1>1. /\ CallerInv /\ use_streaming \in StreamingModes
      /\ ~ReadsChildren(RootDirEntry) => EmptyInv
      /\ ReadsChildren(RootDirEntry) /\ ~stop => WalkInv
  BY DEF PromiseInv
<1> USE DEF TryNew
<1>2. /\ UNCHANGED <<read_dir_results_stack, faults, use_streaming, specVars, task, sent, result_channel,
                     result_buffer, returned, looking_for, child_count_stack, at>>
      /\ stop' = stop \/ stop' = TRUE
  BY DEF StartJob, AwaitStart, CloseStartup, StopJob, Refuse, LastWorker, DropIter, DropReceiver, parVars,
         iterVars, config, resultVars, specVars, PQ!SetStop, OQ!DropSenders
<1>3. pc' = pc /\ fused' = fused /\ issued' = issued BY <1>2 DEF specVars
<1>4. Leaves' BY <1>1, <1>3 DEF CallerInv, Leaves
<1>5. ~ReadsChildren(RootDirEntry) => EmptyInv' BY <1>1, <1>2, <1>3 DEF EmptyInv
<1>6. ReadsChildren(RootDirEntry) /\ ~stop' => WalkInv' BY <1>1, <1>2, WalkAlone
<1>7. PQ!Exited' <=> PQ!Exited BY <1>3 DEF PQ!Exited
<1>8. <<<<RootDirEntry>>>> \in RootStacks BY DEF RootStacks
<1>9. CallerInv'
  <2>1. CASE StartJob
    <3>1. job = "queued" /\ job' = (IF iter \in {"closing", "refusing", "refused"} THEN "dropped" ELSE "started")
          /\ UNCHANGED <<iter, stop, connected>>
      BY <2>1 DEF StartJob, resultVars
    <3>2. ~connected => PQ!Exited BY <1>1, <3>1 DEF CallerInv, JobDone
    <3> QED BY <1>1, <1>2, <1>4, <1>7, <3>1, <3>2 DEF CallerInv, JobDone
  <2>2. CASE AwaitStart
    <3>1. iter = "starting" /\ iter' \in {"alive", "expired"} /\ UNCHANGED <<job, stop, connected>>
      BY <2>2 DEF AwaitStart, CallerGoes, resultVars
    <3> QED BY <1>1, <1>2, <1>4, <1>7, <3>1 DEF CallerInv, JobDone
  <2>3. CASE CloseStartup
    <3>1. iter = "expired" /\ iter' = "closing" /\ UNCHANGED <<job, stop, connected>>
      BY <2>3 DEF CloseStartup, CallerGoes, resultVars
    <3> QED BY <1>1, <1>2, <1>4, <1>7, <3>1 DEF CallerInv, JobDone
  <2>4. CASE StopJob
    <3>1. iter = "closing" /\ iter' = "refusing" /\ stop' = TRUE /\ UNCHANGED <<job, connected>>
      BY <2>4 DEF StopJob, CallerGoes, resultVars, PQ!SetStop
    <3> QED BY <1>1, <1>2, <1>4, <1>7, <3>1 DEF CallerInv, JobDone
  <2>5. CASE Refuse
    <3>1. iter = "refusing" /\ iter' = "refused" /\ UNCHANGED <<job, stop, connected>>
      BY <2>5 DEF Refuse, CallerGoes, resultVars
    <3>2. read_dir_results_stack' \in RootStacks BY <1>1, <1>2, <1>8, <3>1 DEF CallerInv
    <3> QED BY <1>1, <1>2, <1>4, <1>7, <3>1, <3>2 DEF CallerInv, JobDone
  <2>6. CASE LastWorker
    <3>1. JobDone /\ UNCHANGED <<job, iter, stop>> BY <2>6 DEF LastWorker, OQ!DropSenders
    <3> QED BY <1>1, <1>2, <1>4, <1>7, <3>1 DEF CallerInv, JobDone
  <2>7. CASE DropIter
    <3>1. iter = "alive" /\ iter' = "dropping" /\ stop' = TRUE /\ UNCHANGED <<job, connected>>
      BY <2>7 DEF DropIter, resultVars, PQ!SetStop
    <3> QED BY <1>1, <1>2, <1>4, <1>7, <3>1 DEF CallerInv, JobDone
  <2>8. CASE DropReceiver
    <3>1. iter = "dropping" /\ iter' = "gone" /\ UNCHANGED <<job, stop, connected>>
      BY <2>8 DEF DropReceiver, resultVars
    <3> QED BY <1>1, <1>2, <1>4, <1>7, <3>1 DEF CallerInv, JobDone
  <2>9. CASE UNCHANGED parVars
    <3>1. UNCHANGED <<job, iter, stop, connected>> BY <2>9 DEF parVars, resultVars
    <3> QED BY <1>1, <1>2, <1>4, <1>7, <3>1 DEF CallerInv, JobDone
  <2> QED BY <2>1, <2>2, <2>3, <2>4, <2>5, <2>6, <2>7, <2>8, <2>9
<1> QED BY <1>1, <1>2, <1>5, <1>6, <1>9 DEF PromiseInv

LEMMA ConsumerStep ==
    ASSUME PromiseInv, ParInv', Consumer
    PROVE  PromiseInv'
<1>1. /\ ParInv /\ CallerInv /\ use_streaming \in StreamingModes
      /\ ~ReadsChildren(RootDirEntry) => EmptyInv
      /\ ReadsChildren(RootDirEntry) /\ ~stop => WalkInv
  BY DEF PromiseInv
<1>2. ~stop => at # "end" BY <1>1 DEF CallerInv
<1>3. /\ UNCHANGED <<faults, use_streaming, specVars, task, iter, job>>
      /\ UNCHANGED <<stop, connected>>
  BY DEF Consumer, LocalTurn, RefusedTurn, WaitForResult, GetResult, GetNone, config, resultVars,
         OQ!CallNext, OQ!StartTry, OQ!DrainResult, OQ!NoMatch, OQ!WaitResult, OQ!NothingRests,
         OQ!ReturnMatch, OQ!ReturnRest
<1>4. UNCHANGED <<pc, fused, issued>> BY <1>3 DEF specVars
<1>5. ~GetNone BY <1>1, <1>2 DEF GetNone, CallerInv
<1>6. iter = "alive" <=> ~stop BY <1>1 DEF Consumer, LocalTurn, RefusedTurn, WaitForResult, GetResult, GetNone, CallerInv
<1>7. iter \in {"alive", "refused"} BY DEF Consumer, LocalTurn, RefusedTurn, WaitForResult, GetResult, GetNone
<1>8. iter = "refused" => read_dir_results_stack' \in RootStacks
  BY <1>1, RootTurns DEF Consumer, LocalTurn, RefusedTurn, WaitForResult, GetResult, GetNone, CallerInv
<1>9. ASSUME ~ReadsChildren(RootDirEntry) PROVE EmptyInv' /\ at' = at
  <2>1. EmptyInv /\ read_dir_results_stack \in RootStacks BY <1>1, <1>9 DEF EmptyInv
  <2>2. ~AtDirectory BY <1>9, <2>1, RootOnly
  <2>3. LocalTurn
    BY <2>2 DEF Consumer, RefusedTurn, WaitForResult, GetResult, GetNone, YieldDirectory, YieldBusy
  <2>4. read_dir_results_stack' \in RootStacks BY <2>1, <2>3, RootTurns DEF LocalTurn
  <2>5. UNCHANGED resultVars BY <2>3 DEF LocalTurn
  <2> QED BY <1>4, <2>1, <2>4, <2>5 DEF EmptyInv, resultVars
<1>10. ASSUME ReadsChildren(RootDirEntry), ~stop PROVE WalkInv' /\ at' # "end"
  <2>1. WalkInv /\ iter = "alive" BY <1>1, <1>6, <1>10
  <2>2. CASE LocalTurn
    <3>1. UNCHANGED resultVars /\ (PopList \/ YieldEntry) BY <2>2 DEF LocalTurn
    <3>2. at' = at BY <3>1 DEF resultVars
    <3>3. WalkInv' BY <1>1, <1>3, <1>10, <2>1, <3>1, LocalWalks DEF resultVars
    <3> QED BY <1>2, <1>10, <3>2, <3>3
  <2>3. CASE WaitForResult BY <1>1, <1>10, <2>1, <2>3, WaitsForIt
  <2>4. ASSUME NEW result \in result_buffer, GetResult(result) PROVE WalkInv' /\ at' # "end"
    BY <1>1, <1>10, <2>1, <2>4, GetsResult
  <2>5. ~RefusedTurn BY <2>1 DEF RefusedTurn
  <2> QED BY <1>5, <2>2, <2>3, <2>4, <2>5 DEF Consumer
<1>11. ~stop => at' # "end" BY <1>2, <1>9, <1>10
<1>12. PQ!Exited' <=> PQ!Exited BY <1>4 DEF PQ!Exited
<1>13. Leaves' BY <1>1, <1>4 DEF CallerInv, Leaves
<1>14. CallerInv' BY <1>1, <1>3, <1>7, <1>8, <1>11, <1>12, <1>13 DEF CallerInv, JobDone
<1> QED BY <1>1, <1>3, <1>9, <1>10, <1>14 DEF PromiseInv

LEMMA WorkerStep ==
    ASSUME StreamsCleanly, PromiseInv, ParInv', NEW w \in Workers, Worker(w)
    PROVE  PromiseInv'
<1>1. /\ ParInv /\ CallerInv /\ use_streaming \in StreamingModes
      /\ ~ReadsChildren(RootDirEntry) => EmptyInv
      /\ ReadsChildren(RootDirEntry) /\ ~stop => WalkInv
  BY DEF PromiseInv
<1>2. CallerInv' BY <1>1, WorkerCalls
<1>3. use_streaming' = use_streaming /\ iter' = iter
  BY DEF Worker, Queue, Stopped, StartRead, StreamChild, EndStream, SendResult, ScheduleChild, Finish, config
<1>4. stop' = stop
  BY DEF Worker, Queue, Stopped, StartRead, StreamChild, EndStream, SendResult, ScheduleChild, Finish,
         OQ!SendResult, PQ!TakeNext, PQ!PushSend, PQ!Lock, PQ!CheckStop, PQ!TryRecv, PQ!Pop, PQ!LoadPending,
         PQ!RecvTimeout, PQ!CompleteItem, PQ!PushCount
<1>5. ~ReadsChildren(RootDirEntry) => EmptyInv' BY <1>1, WorkerEmpty
<1>6. ~stop => ~ReceiverGone BY <1>1 DEF CallerInv, ReceiverGone
<1>7. ReadsChildren(RootDirEntry) /\ ~stop => WalkInv' BY <1>1, <1>6, WorkerWalks
<1> QED BY <1>1, <1>2, <1>3, <1>4, <1>5, <1>7 DEF PromiseInv

LEMMA PromiseStep ==
    ASSUME StreamsCleanly, PromiseInv, [ParNext]_parVars
    PROVE  PromiseInv'
<1>1. ParInv' BY ParStep DEF PromiseInv
<1>2. CASE \E w \in Workers : Worker(w) BY <1>1, <1>2, WorkerStep
<1>3. CASE Consumer BY <1>1, <1>3, ConsumerStep
<1>4. CASE StartJob \/ TryNew \/ LastWorker \/ DropIter \/ DropReceiver \/ UNCHANGED parVars
  BY <1>1, <1>4, StartsStep
<1>5. CASE Terminated BY <1>1, <1>5, StartsStep DEF Terminated
<1> QED BY <1>2, <1>3, <1>4, <1>5 DEF ParNext

LEMMA PromiseInvariance == ASSUME StreamsCleanly PROVE Par => []PromiseInv
<1>1. PromiseInv /\ [ParNext]_parVars => PromiseInv' BY PromiseStep
<1> QED BY <1>1, PromiseInit, PTL DEF Par

------------------------------------------------------------------------------
(* The promise *)

\* WalkSpec reads a directory and turns the iterator as ParWalk does.
LEMMA SameReading ==
    /\ \A spec, depth, fault :
          Abstract!CoreReadDir(spec, depth, fault) = CoreReadDir(spec, depth, fault)
    /\ \A entry : Abstract!ReadDirSpec(entry) = ReadDirSpec(entry)
    /\ Abstract!Faults = Faults
<1>1. \A entry, depth, ancestors :
         Abstract!AtDepth(entry, depth, ancestors) = AtDepth(entry, depth, ancestors)
  BY DEF Abstract!AtDepth, AtDepth
<1>2. \A entry : Abstract!Identity(entry) = Identity(entry) BY DEF Abstract!Identity, Identity
<1>3. \A entry : Abstract!ReadDirSpec(entry) = ReadDirSpec(entry)
  BY <1>2 DEF Abstract!ReadDirSpec, ReadDirSpec
<1>4. \A spec : Abstract!Ancestors(spec) = Ancestors(spec) BY DEF Abstract!Ancestors, Ancestors
<1>5. \A entry : Abstract!FollowSymlink(entry) = FollowSymlink(entry)
  BY DEF Abstract!FollowSymlink, FollowSymlink
<1>6. \A spec, depth : Abstract!Entries(spec, depth) = Entries(spec, depth)
  BY <1>1, <1>4, <1>5 DEF Abstract!Entries, Entries
<1>7. \A dir : Abstract!ErrorEntry(dir) = ErrorEntry(dir) BY <1>1 DEF Abstract!ErrorEntry, ErrorEntry
<1>8. /\ \A list, streamed : Abstract!ReadOk(list, streamed) = ReadOk(list, streamed)
      /\ Abstract!ReadErr = ReadErr
  BY DEF Abstract!ReadOk, ReadOk, Abstract!ReadErr, ReadErr
<1>9. \A spec, depth, fault : Abstract!Partial(spec, depth, fault) = Partial(spec, depth, fault)
  BY <1>1, <1>6, <1>7, <1>8 DEF Abstract!Partial, Partial
<1>10. \A err : Abstract!IsTransientIoError(err) <=> IsTransientIoError(err)
  BY DEF Abstract!IsTransientIoError, IsTransientIoError, Abstract!TransientCodes, TransientCodes,
         Abstract!NoCode, NoCode
<1>11. \A fault, attempt : Abstract!AttemptFails(fault, attempt) <=> AttemptFails(fault, attempt)
  BY DEF Abstract!AttemptFails, AttemptFails
<1>12. \A spec, depth, fault, first :
          Abstract!RetryTransientIo(spec, depth, fault, first) = RetryTransientIo(spec, depth, fault, first)
  BY <1>6, <1>8, <1>9, <1>10, <1>11 DEF Abstract!RetryTransientIo, RetryTransientIo
<1>13. \A spec, depth, fault : Abstract!CoreReadDir(spec, depth, fault) = CoreReadDir(spec, depth, fault)
  BY <1>8, <1>12 DEF Abstract!CoreReadDir, CoreReadDir, Abstract!TooDeep, TooDeep
<1>14. Abstract!Errors = Errors
  BY DEF Abstract!Errors, Errors, Abstract!EAGAIN, EAGAIN, Abstract!EIO, EIO, Abstract!ESTALE, ESTALE,
         Abstract!SharingViolation, SharingViolation, Abstract!NulInName, NulInName, Abstract!NoCode, NoCode
<1>15. Abstract!Faults = Faults BY <1>14 DEF Abstract!Faults, Faults
<1> QED BY <1>3, <1>13, <1>15

LEMMA SameTurns ==
    /\ Abstract!IterInit <=> IterInit
    /\ Abstract!PopList <=> PopList
    /\ Abstract!YieldEntry <=> YieldEntry
    /\ Abstract!YieldBusy <=> YieldBusy
    /\ Abstract!AtDirectory <=> AtDirectory
    /\ Abstract!NextEntry = NextEntry
    /\ \A result : Abstract!YieldDirectory(result) <=> YieldDirectory(result)
<1>1. \A entry, depth, ancestors :
         Abstract!AtDepth(entry, depth, ancestors) = AtDepth(entry, depth, ancestors)
  BY DEF Abstract!AtDepth, AtDepth
<1>2. \A entry : Abstract!Identity(entry) = Identity(entry) BY DEF Abstract!Identity, Identity
<1>3. \A entry : Abstract!ReadsChildren(entry) <=> ReadsChildren(entry)
  BY DEF Abstract!ReadsChildren, ReadsChildren
<1>4. Abstract!RootDirEntry = RootDirEntry BY <1>1, <1>2 DEF Abstract!RootDirEntry, RootDirEntry
<1>5. Abstract!IterInit <=> IterInit BY <1>4 DEF Abstract!IterInit, IterInit
<1>6. Abstract!TopList = TopList BY DEF Abstract!TopList, TopList
<1>7. Abstract!PopList <=> PopList BY <1>6 DEF Abstract!PopList, PopList
<1>8. Abstract!HasEntry <=> HasEntry BY <1>6 DEF Abstract!HasEntry, HasEntry
<1>9. Abstract!NextEntry = NextEntry BY <1>6 DEF Abstract!NextEntry, NextEntry
<1>10. Abstract!Consumed = Consumed BY DEF Abstract!Consumed, Consumed
<1>11. \A entry, error : Abstract!Yield(entry, error) <=> Yield(entry, error) BY DEF Abstract!Yield, Yield
<1>12. Abstract!YieldEntry <=> YieldEntry
  BY <1>3, <1>8, <1>9, <1>10, <1>11 DEF Abstract!YieldEntry, YieldEntry
<1>13. Abstract!AtDirectory <=> AtDirectory BY <1>3, <1>8, <1>9 DEF Abstract!AtDirectory, AtDirectory
<1>14. Abstract!YieldBusy <=> YieldBusy BY <1>10, <1>13 DEF Abstract!YieldBusy, YieldBusy
<1>15. \A result : Abstract!YieldDirectory(result) <=> YieldDirectory(result)
  BY <1>9, <1>10, <1>11, <1>13 DEF Abstract!YieldDirectory, YieldDirectory
<1> QED BY <1>5, <1>7, <1>9, <1>12, <1>13, <1>14, <1>15

\* The result the caller is given is what reading the directory it is at
\* gives.
LEMMA GivesPromised ==
    ASSUME PromiseInv, NEW result \in result_buffer, GetResult(result)
    PROVE  \E given \in Abstract!Promised(NextEntry) : YieldDirectory(given)
<1>1. AtDirectory /\ YieldDirectory(result.value) /\ iter = "alive" BY DEF GetResult, YieldDirectory
<1>2. ~stop BY <1>1 DEF PromiseInv, CallerInv
<1>3. ReadsChildren(RootDirEntry)
  <2>1. ~ReadsChildren(RootDirEntry) => result_buffer = {} BY DEF PromiseInv, EmptyInv
  <2> QED BY <2>1
<1>4. ParInv /\ CallerInv /\ WalkInv BY <1>2, <1>3 DEF PromiseInv
<1>5. result = ResultAt(faults, looking_for) BY <1>2, <1>3, <1>4, GivesLookedFor
<1>6. NextEntry = EntryAt(faults, looking_for) BY <1>1, <1>3, <1>4, MeetsLookedFor
<1>7. PICK f, q, entry, given :
         /\ f = faults /\ q = looking_for /\ entry = NextEntry
         /\ given = CoreReadDir(ReadDirSpec(entry), entry.depth, f[entry.dir])
  OBVIOUS
<1>8. result.value.ok = given.ok /\ result.value.list = given.list
  <2>1. /\ ResultAt(f, q).value.ok = ReadOf(f, EntryAt(f, q)).ok
        /\ ResultAt(f, q).value.list = ReadOf(f, EntryAt(f, q)).list
    BY ResultIs
  <2>2. ReadOf(f, EntryAt(f, q)) = given BY <1>6, <1>7 DEF ReadOf
  <2> QED BY <1>5, <1>7, <2>1, <2>2
<1>9. YieldDirectory(given) BY <1>1, <1>8 DEF YieldDirectory
<1>10. given \in Abstract!Promised(NextEntry) BY <1>7, SameReading DEF Abstract!Promised
<1> QED BY <1>9, <1>10

(***************************************************************************)
(* On every file tree, with any number of workers and any capacity, and    *)
(* whatever goes wrong with the directories, the caller of the parallel    *)
(* walk is given what WalkSpec promises: next() follows each directory by  *)
(* the result of reading that very directory, though the results arrive in *)
(* the order the workers finish and the OrderedQueue gives them out by     *)
(* index path alone.  A walk that streams needs StreamsCleanly.            *)
(***************************************************************************)
THEOREM ParKeepsPromise == ASSUME StreamsCleanly PROVE Par => KeepsPromise
<1> DEFINE walkVars == <<read_dir_results_stack, output, faults>>
<1>1. ParInit => Abstract!WalkInit
  <2> SUFFICES ASSUME ParInit PROVE Abstract!WalkInit OBVIOUS
  <2>1. faults \in [Dirs -> Faults] BY ParAssumption DEF ParInit
  <2>2. Abstract!IterInit BY SameTurns DEF ParInit
  <2> QED BY <2>1, <2>2, SameReading DEF Abstract!WalkInit
<1>2. PromiseInv /\ [ParNext]_parVars => [Abstract!WalkNext]_walkVars
  <2> SUFFICES ASSUME PromiseInv, [ParNext]_parVars PROVE [Abstract!WalkNext]_walkVars OBVIOUS
  <2>1. CASE UNCHANGED walkVars BY <2>1
  <2>2. CASE LocalTurn
    <3>1. (PopList \/ YieldEntry) /\ faults' = faults BY <2>2 DEF LocalTurn, config
    <3> QED BY <3>1, SameTurns DEF Abstract!WalkNext
  <2>3. CASE RefusedTurn
    <3>1. YieldBusy /\ AtDirectory /\ faults' = faults /\ iter = "refused"
      BY <2>3 DEF RefusedTurn, YieldBusy, config
    <3>2. NextEntry = RootDirEntry BY <3>1, RootOnly DEF PromiseInv, CallerInv
    <3>3. RootDirEntry.depth = 0 BY RootFacts
    <3> QED BY <3>1, <3>2, <3>3, SameTurns DEF Abstract!WalkNext
  <2>4. ASSUME NEW result \in result_buffer, GetResult(result) PROVE [Abstract!WalkNext]_walkVars
    <3>1. PICK given \in Abstract!Promised(NextEntry) : YieldDirectory(given) BY <2>4, GivesPromised
    <3>2. AtDirectory /\ faults' = faults BY <2>4 DEF GetResult, YieldDirectory, config
    <3> QED BY <3>1, <3>2, SameTurns DEF Abstract!WalkNext
  <2>5. ~GetNone
    <3>1. iter = "alive" /\ at = "end" => FALSE BY DEF PromiseInv, CallerInv
    <3> QED BY <3>1 DEF GetNone
  <2>6. CASE WaitForResult BY <2>1, <2>6 DEF WaitForResult, iterVars, config
  <2>7. ASSUME NEW w \in Workers, Worker(w) PROVE UNCHANGED walkVars
    BY <2>7 DEF Worker, Queue, Stopped, StartRead, StreamChild, EndStream, SendResult, ScheduleChild, Finish,
                iterVars, config
  <2>8. CASE StartJob \/ TryNew \/ LastWorker \/ DropIter \/ DropReceiver
    BY <2>1, <2>8 DEF StartJob, TryNew, AwaitStart, CloseStartup, StopJob, Refuse, LastWorker, DropIter,
                      DropReceiver, iterVars, config
  <2>9. CASE UNCHANGED parVars BY <2>1, <2>9 DEF parVars, config
  <2>10. CASE Terminated BY <2>9, <2>10 DEF Terminated
  <2> QED BY <2>1, <2>2, <2>3, <2>4, <2>5, <2>6, <2>7, <2>8, <2>9, <2>10 DEF ParNext, Consumer
<1> QED BY <1>1, <1>2, PromiseInvariance, PTL DEF Par, KeepsPromise, Abstract!Walk

(***************************************************************************)
(* When the caller has been given everything, the OrderedQueue is empty:   *)
(* no worker has read a directory for nothing, and no result was left      *)
(* behind in the channel or in the heap.                                   *)
(***************************************************************************)
THEOREM LeavesNothing == ASSUME StreamsCleanly PROVE Par => []NothingLeft
<1>1. ASSUME PromiseInv, iter = "alive", Exhausted PROVE result_channel = <<>> /\ result_buffer = {}
  <2>1. CASE ~ReadsChildren(RootDirEntry) BY <1>1, <2>1 DEF PromiseInv, EmptyInv
  <2>2. CASE ReadsChildren(RootDirEntry)
    <3>1. WalkInv BY <1>1, <2>2 DEF PromiseInv, CallerInv
    <3>2. looking_for = <<>>
      <4>1. Len(<<>>) = 0 OBVIOUS
      <4>2. looking_for \in Seq(Nat) /\ Len(looking_for) <= Len(read_dir_results_stack)
        BY <3>1 DEF WalkInv, MatchInv, Tracks, StackInv, Follows
      <4>3. Len(looking_for) <= 0 BY <1>1, <4>1, <4>2 DEF Exhausted
      <4>4. Len(looking_for) = 0 BY <4>2, <4>3
      <4> QED BY <4>2, <4>4, EmptySeq
    <3>3. ASSUME NEW r \in sent PROVE r \notin result_buffer /\ ~InResults(r)
      <4>1. r.index_path \in TreePaths(faults) /\ r = ResultAt(faults, r.index_path) BY <3>1, SentOnTree
      <4>2. WasReturned(ResultAt(faults, r.index_path)) BY <3>1, <3>2, <4>1 DEF WalkInv, MatchInv
      <4>3. WasReturned(r) BY <4>1, <4>2
      <4> QED BY <3>1, <4>3 DEF WalkInv, PlaceInv
    <3>4. result_buffer = {} BY <3>1, <3>3 DEF WalkInv, PlaceInv
    <3>5. result_channel = <<>>
      <4>1. IsSeq(result_channel) /\ \A k \in DOMAIN result_channel : result_channel[k] \in sent
        BY <3>1 DEF WalkInv, PlaceInv
      <4>2. DOMAIN result_channel = {} BY <3>3, <4>1 DEF InResults
      <4>3. /\ Len(result_channel) \in Nat /\ DOMAIN result_channel = 1 .. Len(result_channel)
            /\ (result_channel = <<>> <=> Len(result_channel) = 0)
        BY <4>1, SeqLength
      <4>4. Len(result_channel) # 0 => 1 \in DOMAIN result_channel BY <4>3
      <4> QED BY <4>2, <4>3, <4>4
    <3> QED BY <3>4, <3>5
  <2> QED BY <2>1, <2>2
<1>2. PromiseInv => NothingLeft BY <1>1 DEF NothingLeft
<1> QED BY <1>2, PromiseInvariance, PTL

\* What next() gives for a directory is that directory's own contents (the
\* module documentation: strict depth first order), in a walk that does not
\* stream or streams cleanly.  Where a directory mixes directories it streams
\* with links it follows, it fails.
THEOREM GivesOwnContents == ASSUME StreamsCleanly PROVE Par => OwnContents
<1>1. ASSUME PromiseInv, NEW result \in result_buffer, GetResult(result)
      PROVE  result.value.dir = NextEntry.dir
  <2>1. AtDirectory /\ iter = "alive" BY <1>1 DEF GetResult, YieldDirectory
  <2>2. ~stop BY <1>1, <2>1 DEF PromiseInv, CallerInv
  <2>3. ReadsChildren(RootDirEntry)
    <3>1. ~ReadsChildren(RootDirEntry) => result_buffer = {} BY <1>1 DEF PromiseInv, EmptyInv
    <3> QED BY <3>1
  <2>4. ParInv /\ CallerInv /\ WalkInv BY <1>1, <2>2, <2>3 DEF PromiseInv
  <2>5. result = ResultAt(faults, looking_for) BY <1>1, <2>2, <2>3, <2>4, GivesLookedFor
  <2>6. NextEntry = EntryAt(faults, looking_for) BY <2>1, <2>3, <2>4, MeetsLookedFor
  <2>7. ResultAt(faults, looking_for).value.dir = EntryAt(faults, looking_for).dir BY ResultIs
  <2> QED BY <2>5, <2>6, <2>7
<1>2. PromiseInv =>
         [\A result \in result_buffer : GetResult(result) => result.value.dir = NextEntry.dir]_parVars
  BY <1>1
<1> QED BY <1>2, PromiseInvariance, PTL DEF OwnContents
==============================================================================

------------------------- MODULE OrderedResultsProofs ------------------------
(***************************************************************************)
(* For any tree of results, any order of sending and any limits, next()    *)
(* returns the results in depth-first order, without a gap while all are   *)
(* sent, and loses none.                                                   *)
(***************************************************************************)
EXTENDS OrderedResults, OrderProofs

(***************************************************************************)
(* The inductive invariant.                                                *)
(*                                                                         *)
(* The matcher: each level of the stack holds how many siblings are left   *)
(* at that level of looking_for, on the last level with the one looked     *)
(* for, on the others after the one gone into.                             *)
(***************************************************************************)
Matched == StackCounts(Results, looking_for, child_count_stack)

\* A result that was sent is in one place: channel, heap, or returned.
Places ==
    /\ \A i \in DOMAIN returned : returned[i] \in sent
    /\ \A r \in result_buffer : r \in sent /\ ~WasReturned(r)
    /\ \A k \in DOMAIN result_channel :
          /\ result_channel[k] \in sent
          /\ ~WasReturned(result_channel[k])
          /\ result_channel[k] \notin result_buffer
          /\ \A j \in DOMAIN result_channel : result_channel[j] = result_channel[k] => j = k
    /\ \A r \in sent : \/ WasReturned(r)
                       \/ r \in result_buffer
                       \/ \E k \in DOMAIN result_channel : result_channel[k] = r

\* As long as only results looked for were returned, what was not returned is
\* at or after looking_for, and after all that was.
Tracking ==
    \A r \in Results : ~WasReturned(r) =>
        /\ looking_for # <<>>
        /\ ~Before(r.index_path, looking_for)
        /\ \A i \in DOMAIN returned : Before(returned[i].index_path, r.index_path)

\* Once the senders are gone and a result was returned that was not looked
\* for, the one looked for never comes, and the heap is returned from its top.
Flushing ==
    /\ ~connected /\ result_channel = <<>> /\ looking_for # <<>>
    /\ \A r \in result_buffer :
          /\ r.index_path # looking_for
          /\ \A i \in DOMAIN returned : Before(returned[i].index_path, r.index_path)

Ended ==
    at = "end" /\ ~stopped =>
        /\ \A r \in sent : WasReturned(r)
        /\ ~connected \/ \A r \in Results : WasReturned(r)

OQInv ==
    /\ OQTypeOK
    /\ Matched
    /\ Places
    /\ DepthFirst
    /\ Tracking \/ Flushing
    /\ Ended

------------------------------------------------------------------------------
(* The steps *)

\* The results have paths, and there is one per path.
LEMMA ResultsHavePaths ==
    /\ \A r \in Results : /\ r.index_path \in Seq(Nat)
                          /\ r.index_path \in Paths
                          /\ r.index_path # <<>>
                          /\ Len(r.index_path) \in Nat \ {0}
                          /\ r.index_path[1] = 0
                          /\ r.child_count \in Nat
    /\ \A r, s \in Results : r.index_path = s.index_path => r = s
BY TreeAssumption, ResultPaths

LEMMA InitOQ == OQInit => OQInv
<1> SUFFICES ASSUME OQInit PROVE OQInv OBVIOUS
<1>1. /\ looking_for \in Seq(Nat) /\ Len(looking_for) = 1 /\ looking_for[1] = 0
      /\ child_count_stack \in Seq(Nat) /\ Len(child_count_stack) = 1
      /\ child_count_stack[1] = 1 /\ looking_for # <<>>
  BY DEF OQInit
<1>2. result_channel = <<>> /\ returned = <<>> /\ result_buffer = {} /\ sent = {}
  BY DEF OQInit
<1>3. OQTypeOK
  <2>1. 0 <= ResultCapacity BY OQAssumption
  <2> QED BY <1>1, <1>2, <2>1, EmptySeq DEF OQInit, OQTypeOK, Paths
<1>4. Matched BY <1>1 DEF Matched, StackCounts
<1>5. DOMAIN returned = {} /\ DOMAIN result_channel = {} BY <1>2
<1>6. Places /\ DepthFirst BY <1>2, <1>5 DEF Places, DepthFirst
<1>7. Tracking
  <2>1. ASSUME NEW r \in Results PROVE ~Before(r.index_path, looking_for)
    <3>1. r.index_path[1] = 0 /\ Len(r.index_path) \in Nat \ {0} BY ResultsHavePaths
    <3>2. ~(Len(r.index_path) < Len(looking_for)) BY <1>1, <3>1
    <3>3. \A k \in Nat : k >= 1 /\ k <= Len(looking_for) => k = 1 BY <1>1
    <3>4. \A k \in 1 .. Len(r.index_path) :
            k <= Len(looking_for) => ~(r.index_path[k] < looking_for[k])
      BY <1>1, <3>1, <3>3
    <3> QED BY <3>2, <3>4 DEF Before
  <2> QED BY <1>1, <1>5, <2>1 DEF Tracking
<1>8. Ended BY DEF OQInit, Ended
<1> QED BY <1>3, <1>4, <1>6, <1>7, <1>8 DEF OQInv

\* A step of the consumer that takes nothing and returns nothing, or a flag
\* that is set, keeps the invariant if the walk does not end with it too soon.
LEMMA QuietStep ==
    ASSUME OQInv,
           UNCHANGED <<result_channel, result_buffer, looking_for,
                       child_count_stack, sent, returned>>,
           connected' \in BOOLEAN, connected' => connected, stopped' \in BOOLEAN,
           at' \in {"idle", "loop", "drain", "match", "wait", "end"},
           Ended'
    PROVE  OQInv'
<1>1. OQTypeOK' BY DEF OQInv, OQTypeOK
<1>2. Matched' BY DEF OQInv, Matched
<1>3. Places' BY DEF OQInv, Places, WasReturned
<1>4. DepthFirst' BY DEF OQInv, DepthFirst
<1>5. Tracking => Tracking' BY DEF Tracking, WasReturned
<1>6. Flushing => Flushing' BY DEF Flushing
<1> QED BY <1>1, <1>2, <1>3, <1>4, <1>5, <1>6 DEF OQInv

\* Taking a result from the channel moves it to the heap.
LEMMA TakeStep ==
    ASSUME OQInv, TakeResult,
           UNCHANGED <<looking_for, child_count_stack, connected, stopped, sent, returned>>,
           at' \in {"loop", "drain"}
    PROVE  OQInv'
<1> DEFINE h == Head(result_channel)
<1>1. /\ result_channel \in Seq(Results) /\ result_channel # <<>>
      /\ result_channel' = Tail(result_channel) /\ result_buffer' = result_buffer \cup {h}
  BY DEF OQInv, OQTypeOK, TakeResult
<1>2. /\ Len(result_channel) \in Nat \ {0} /\ h = result_channel[1]
      /\ result_channel' \in Seq(Results)
      /\ Len(result_channel') = Len(result_channel) - 1
      /\ \A k \in 1 .. Len(result_channel') : result_channel'[k] = result_channel[k + 1]
  BY <1>1, EmptySeq, HeadTailProperties
<1>3. DOMAIN result_channel = 1 .. Len(result_channel) BY <1>1
<1>4. DOMAIN result_channel' = 1 .. Len(result_channel') BY <1>2
<1>5. 1 \in DOMAIN result_channel BY <1>2, <1>3
<1>6. h \in Results BY <1>1, <1>2, <1>5
<1> HIDE DEF h
<1>7. \A k \in DOMAIN result_channel' :
         k + 1 \in DOMAIN result_channel /\ k + 1 # 1 /\ k \in Nat
  BY <1>2, <1>3, <1>4
<1>8. OQTypeOK'
  <2>1. Len(result_channel') <= ResultCapacity BY <1>2, OQAssumption DEF OQInv, OQTypeOK
  <2> QED BY <1>1, <1>2, <1>6, <2>1 DEF OQInv, OQTypeOK
<1>9. Matched' BY DEF OQInv, Matched
<1>10. Places'
  <2>1. \A i \in DOMAIN returned : returned[i] \in sent BY DEF OQInv, Places
  <2>2. h \in sent /\ ~WasReturned(h) BY <1>2, <1>5 DEF OQInv, Places
  <2>3. \A r \in result_buffer' : r \in sent /\ ~WasReturned(r)
    BY <1>1, <2>2 DEF OQInv, Places
  <2>4. ASSUME NEW k \in DOMAIN result_channel'
        PROVE  /\ result_channel'[k] \in sent
               /\ ~WasReturned(result_channel'[k])
               /\ result_channel'[k] \notin result_buffer'
               /\ \A j \in DOMAIN result_channel' :
                     result_channel'[j] = result_channel'[k] => j = k
    <3>1. result_channel'[k] = result_channel[k + 1] /\ k + 1 \in DOMAIN result_channel
      BY <1>2, <1>4, <1>7
    <3>2. result_channel'[k] # h BY <1>2, <1>5, <1>7, <3>1 DEF OQInv, Places
    <3>3. /\ result_channel'[k] \in sent /\ ~WasReturned(result_channel'[k])
          /\ result_channel'[k] \notin result_buffer'
      BY <1>1, <3>1, <3>2 DEF OQInv, Places
    <3>4. ASSUME NEW j \in DOMAIN result_channel', result_channel'[j] = result_channel'[k]
          PROVE  j = k
      <4>1. result_channel[j + 1] = result_channel[k + 1] /\ j + 1 \in DOMAIN result_channel
        BY <1>2, <1>4, <1>7, <3>1, <3>4
      <4>2. j + 1 = k + 1 BY <3>1, <4>1 DEF OQInv, Places
      <4> QED BY <1>7, <4>2
    <3> QED BY <3>3, <3>4
  <2>5. ASSUME NEW r \in sent
        PROVE  \/ WasReturned(r)
               \/ r \in result_buffer'
               \/ \E k \in DOMAIN result_channel' : result_channel'[k] = r
    <3>1. CASE \E k \in DOMAIN result_channel : result_channel[k] = r
      <4>1. PICK k \in DOMAIN result_channel : result_channel[k] = r BY <3>1
      <4>2. CASE k = 1 BY <1>1, <1>2, <4>1, <4>2
      <4>3. CASE k # 1
        <5>1. k - 1 \in 1 .. Len(result_channel') /\ (k - 1) + 1 = k BY <1>2, <1>3, <4>3
        <5> QED BY <1>2, <1>4, <4>1, <5>1
      <4> QED BY <4>2, <4>3
    <3> QED BY <1>1, <3>1 DEF OQInv, Places
  <2> QED BY <2>1, <2>3, <2>4, <2>5 DEF Places, WasReturned
<1>11. DepthFirst' BY DEF OQInv, DepthFirst
<1>12. Tracking' BY <1>1 DEF OQInv, Tracking, Flushing, WasReturned
<1>13. Ended' BY DEF Ended
<1> QED BY <1>8, <1>9, <1>10, <1>11, <1>12, <1>13 DEF OQInv

\* Sending puts a result nobody has seen at the end of the channel.
LEMMA SendStep ==
    ASSUME OQInv, connected, NEW r \in Results \ sent, SendResult(r)
    PROVE  OQInv'
<1>1. /\ result_channel \in Seq(Results) /\ Len(result_channel) \in Nat
      /\ Len(result_channel) < ResultCapacity
      /\ result_channel' = Append(result_channel, r) /\ sent' = sent \cup {r}
      /\ UNCHANGED <<result_buffer, looking_for, child_count_stack, connected,
                     stopped, at, returned>>
  BY DEF OQInv, OQTypeOK, SendResult
<1> DEFINE n == Len(result_channel)
<1>2. /\ result_channel' \in Seq(Results)
      /\ Len(result_channel') = n + 1
      /\ \A k \in 1 .. n : result_channel'[k] = result_channel[k]
      /\ result_channel'[n + 1] = r
  BY <1>1, AppendProperties
<1>3. DOMAIN result_channel = 1 .. n /\ DOMAIN result_channel' = 1 .. (n + 1) BY <1>1, <1>2
<1>4. \A k \in DOMAIN result_channel' : k \in DOMAIN result_channel \/ k = n + 1
  BY <1>1, <1>3
<1> HIDE DEF n
<1>5. ~WasReturned(r) /\ r \notin result_buffer BY DEF OQInv, Places, WasReturned
<1>6. \A k \in DOMAIN result_channel :
         result_channel'[k] = result_channel[k] /\ result_channel[k] # r
  BY <1>2, <1>3 DEF OQInv, Places
<1>7. OQTypeOK'
  <2>1. Len(result_channel') <= ResultCapacity BY <1>1, <1>2, OQAssumption DEF n
  <2> QED BY <1>1, <1>2, <2>1 DEF OQInv, OQTypeOK
<1>8. Matched' BY <1>1 DEF OQInv, Matched
<1>9. Places'
  <2>1. /\ \A i \in DOMAIN returned : returned[i] \in sent'
        /\ \A x \in result_buffer : x \in sent' /\ ~WasReturned(x)
    BY <1>1 DEF OQInv, Places
  <2>2. ASSUME NEW k \in DOMAIN result_channel'
        PROVE  /\ result_channel'[k] \in sent'
               /\ ~WasReturned(result_channel'[k])
               /\ result_channel'[k] \notin result_buffer
               /\ \A j \in DOMAIN result_channel' :
                     result_channel'[j] = result_channel'[k] => j = k
    <3>1. CASE k = n + 1
      <4>1. result_channel'[k] = r BY <1>2, <3>1
      <4> QED BY <1>1, <1>4, <1>5, <1>6, <3>1, <4>1
    <3>2. CASE k \in DOMAIN result_channel
      <4>1. result_channel'[k] = result_channel[k] /\ result_channel[k] # r BY <1>6, <3>2
      <4>2. ASSUME NEW j \in DOMAIN result_channel', result_channel'[j] = result_channel'[k]
            PROVE  j = k
        <5>1. j # n + 1 BY <1>2, <4>1, <4>2
        <5>2. j \in DOMAIN result_channel BY <1>4, <5>1
        <5> QED BY <1>6, <3>2, <4>1, <4>2, <5>2 DEF OQInv, Places
      <4>3. result_channel[k] \in sent' /\ ~WasReturned(result_channel[k])
               /\ result_channel[k] \notin result_buffer
        BY <1>1, <3>2 DEF OQInv, Places
      <4> QED BY <4>1, <4>2, <4>3
    <3> QED BY <1>4, <3>1, <3>2
  <2>3. ASSUME NEW x \in sent'
        PROVE  \/ WasReturned(x)
               \/ x \in result_buffer
               \/ \E k \in DOMAIN result_channel' : result_channel'[k] = x
    <3>1. CASE x = r
      <4>1. n + 1 \in DOMAIN result_channel' BY <1>1, <1>3 DEF n
      <4> QED BY <1>2, <3>1, <4>1
    <3>2. CASE \E k \in DOMAIN result_channel : result_channel[k] = x
      <4>1. PICK k \in DOMAIN result_channel : result_channel[k] = x BY <3>2
      <4>2. k \in DOMAIN result_channel' BY <1>1, <1>3 DEF n
      <4> QED BY <1>6, <4>1, <4>2
    <3> QED BY <1>1, <3>1, <3>2 DEF OQInv, Places
  <2> QED BY <1>1, <2>1, <2>2, <2>3 DEF Places, WasReturned
<1>10. DepthFirst' BY <1>1 DEF OQInv, DepthFirst
<1>11. Tracking' BY <1>1 DEF OQInv, Tracking, Flushing, WasReturned
<1>12. Ended' BY <1>1, <1>5 DEF OQInv, Ended
<1> QED BY <1>7, <1>8, <1>9, <1>10, <1>11, <1>12 DEF OQInv

\* Returning the top of the heap: it comes after all that was returned, and
\* keeps its one place.
LEMMA ReturnedInOrder ==
    ASSUME OQInv, NEW r \in result_buffer, Return(r),
           UNCHANGED <<result_channel, connected, stopped, sent>>
    PROVE  /\ r \in Results /\ ~WasReturned(r)
           /\ \A i \in DOMAIN returned : Before(returned[i].index_path, r.index_path)
           /\ returned' \in Seq(Results)
           /\ \A i \in DOMAIN returned' :
                 \/ i \in DOMAIN returned /\ returned'[i] = returned[i]
                 \/ returned'[i] = r
           /\ \A x : WasReturned(x)' <=> WasReturned(x) \/ x = r
           /\ Places' /\ DepthFirst' /\ Ended'
<1>1. r \in Results /\ ~WasReturned(r) BY DEF OQInv, OQTypeOK, Places
<1>2. \A i \in DOMAIN returned : Before(returned[i].index_path, r.index_path)
  BY <1>1 DEF OQInv, Tracking, Flushing
<1> DEFINE n == Len(returned)
<1>3. returned \in Seq(Results) /\ n \in Nat BY DEF OQInv, OQTypeOK
<1>4. /\ returned' \in Seq(Results) /\ Len(returned') = n + 1
      /\ \A i \in 1 .. n : returned'[i] = returned[i]
      /\ returned'[n + 1] = r
  BY <1>1, <1>3, AppendProperties DEF Return
<1>5. DOMAIN returned = 1 .. n /\ DOMAIN returned' = 1 .. (n + 1) BY <1>3, <1>4
<1> HIDE DEF n
<1>6. /\ n + 1 \in DOMAIN returned'
      /\ \A i \in DOMAIN returned : i \in DOMAIN returned' /\ i < n + 1 /\ i \in Nat
      /\ \A i \in DOMAIN returned' : i = n + 1 \/ i \in DOMAIN returned
      /\ \A i \in DOMAIN returned' : i <= n + 1 /\ i \in Nat
  BY <1>3, <1>5
<1>7. \A i \in DOMAIN returned : returned'[i] = returned[i] BY <1>4, <1>5
<1>8. ASSUME NEW x PROVE WasReturned(x)' <=> WasReturned(x) \/ x = r
  <2>1. WasReturned(x) => WasReturned(x)' BY <1>6, <1>7 DEF WasReturned
  <2>2. x = r => WasReturned(x)' BY <1>4, <1>6 DEF WasReturned
  <2>3. WasReturned(x)' => WasReturned(x) \/ x = r BY <1>4, <1>6, <1>7 DEF WasReturned
  <2> QED BY <2>1, <2>2, <2>3
<1>9. Places'
  <2>1. result_buffer' = result_buffer \ {r} BY DEF Return
  <2>2. \A i \in DOMAIN returned' : returned'[i] \in sent
    BY <1>4, <1>6, <1>7 DEF OQInv, Places
  <2>3. \A x \in result_buffer' : x \in sent /\ ~WasReturned(x)'
    BY <1>8, <2>1 DEF OQInv, Places
  <2>4. \A k \in DOMAIN result_channel :
          /\ result_channel[k] \in sent
          /\ ~WasReturned(result_channel[k])'
          /\ result_channel[k] \notin result_buffer'
          /\ \A j \in DOMAIN result_channel : result_channel[j] = result_channel[k] => j = k
    BY <1>8, <2>1 DEF OQInv, Places
  <2>5. \A x \in sent : \/ WasReturned(x)'
                        \/ x \in result_buffer'
                        \/ \E k \in DOMAIN result_channel : result_channel[k] = x
    BY <1>8, <2>1 DEF OQInv, Places
  <2> QED BY <2>2, <2>3, <2>4, <2>5 DEF Places, WasReturned
<1>10. DepthFirst'
  <2> SUFFICES ASSUME NEW i \in DOMAIN returned', NEW j \in DOMAIN returned', i < j
               PROVE  Before(returned'[i].index_path, returned'[j].index_path)
    BY DEF DepthFirst
  <2>1. i \in DOMAIN returned
    <3>1. i # n + 1 BY <1>3, <1>6
    <3> QED BY <1>6, <3>1
  <2>2. CASE j = n + 1 BY <1>2, <1>4, <1>7, <2>1, <2>2
  <2>3. CASE j \in DOMAIN returned BY <1>7, <2>1, <2>3 DEF OQInv, DepthFirst
  <2> QED BY <1>6, <2>2, <2>3
<1>11. Ended' BY DEF Return, Ended
<1> QED BY <1>1, <1>2, <1>4, <1>6, <1>7, <1>8, <1>9, <1>10, <1>11

\* Returning the result looked for: the matcher moves to its successor, so
\* what is left is still at or after looking_for.
LEMMA MatchStep ==
    ASSUME OQInv, NEW r \in result_buffer, r.index_path = looking_for,
           Return(r), AdvancePast(r),
           UNCHANGED <<result_channel, connected, stopped, sent>>
    PROVE  OQInv'
<1>1. /\ r \in Results /\ ~WasReturned(r)
      /\ returned' \in Seq(Results)
      /\ \A i \in DOMAIN returned' :
            \/ i \in DOMAIN returned /\ returned'[i] = returned[i]
            \/ returned'[i] = r
      /\ \A x : WasReturned(x)' <=> WasReturned(x) \/ x = r
      /\ Places' /\ DepthFirst' /\ Ended'
  BY ReturnedInOrder
<1>2. /\ looking_for \in Seq(Nat) /\ child_count_stack \in Seq(Nat)
      /\ Len(child_count_stack) = Len(looking_for)
      /\ StackCounts(Results, looking_for, child_count_stack)
  BY DEF OQInv, OQTypeOK, Paths, Matched
<1>3. /\ looking_for' \in Seq(Nat) /\ child_count_stack' \in Seq(Nat)
      /\ Len(child_count_stack') = Len(looking_for')
      /\ StackCounts(Results, looking_for', child_count_stack')
  BY <1>1, <1>2, TreeAssumption, AdvanceCounts DEF AdvancePast
<1>4. OQTypeOK' BY <1>1, <1>3 DEF OQInv, OQTypeOK, Paths, Return
<1>5. Matched' BY <1>3 DEF Matched
<1>6. Tracking BY DEF OQInv, Flushing
<1>7. Tracking'
  <2> SUFFICES ASSUME NEW y \in Results, ~WasReturned(y)'
               PROVE  /\ looking_for' # <<>>
                      /\ ~Before(y.index_path, looking_for')
                      /\ \A i \in DOMAIN returned' :
                            Before(returned'[i].index_path, y.index_path)
    BY DEF Tracking
  <2>1. ~WasReturned(y) /\ y # r BY <1>1
  <2>2. y.index_path # looking_for BY <1>1, <2>1, ResultsHavePaths
  <2>3. Before(looking_for, y.index_path)
    BY <1>2, <1>6, <2>1, <2>2, ResultsHavePaths, BeforeTotal DEF Tracking, Paths
  <2>4. looking_for' # <<>> /\ ~Before(y.index_path, looking_for')
    BY <1>1, <1>2, <2>3, TreeAssumption, AdvanceSkipsNone DEF AdvancePast
  <2>5. \A i \in DOMAIN returned' : Before(returned'[i].index_path, y.index_path)
    BY <1>1, <1>6, <2>1, <2>3 DEF Tracking
  <2> QED BY <2>4, <2>5
<1> QED BY <1>1, <1>4, <1>5, <1>7 DEF OQInv

\* Returning another result when the senders are gone: the one looked for
\* never comes, and the top of the heap precedes the rest of it.
LEMMA FlushStep ==
    ASSUME OQInv, NEW r \in result_buffer, r.index_path # looking_for, IsPeek(r),
           ~connected, result_channel = <<>>, Return(r),
           UNCHANGED <<looking_for, child_count_stack, result_channel, connected,
                       stopped, sent>>
    PROVE  OQInv'
<1>1. /\ r \in Results /\ ~WasReturned(r)
      /\ returned' \in Seq(Results)
      /\ \A i \in DOMAIN returned' :
            \/ i \in DOMAIN returned /\ returned'[i] = returned[i]
            \/ returned'[i] = r
      /\ Places' /\ DepthFirst' /\ Ended'
  BY ReturnedInOrder
<1>2. OQTypeOK' BY <1>1 DEF OQInv, OQTypeOK, Return
<1>3. Matched' BY DEF OQInv, Matched
<1>4. looking_for \in Paths /\ r.index_path \in Paths BY <1>1, ResultsHavePaths DEF OQInv, OQTypeOK
<1>5. looking_for # <<>> BY <1>1 DEF OQInv, Tracking, Flushing
<1>6. ASSUME NEW y \in result_buffer, y # r
      PROVE  /\ y.index_path # looking_for
             /\ \A i \in DOMAIN returned' : Before(returned'[i].index_path, y.index_path)
  <2>1. y \in Results /\ ~WasReturned(y) BY DEF OQInv, OQTypeOK, Places
  <2>2. y.index_path \in Paths /\ y.index_path # r.index_path
    BY <1>1, <1>6, <2>1, ResultsHavePaths
  <2>3. Before(r.index_path, y.index_path) BY <1>4, <2>2, BeforeTotal DEF IsPeek
  <2>4. \A i \in DOMAIN returned : Before(returned[i].index_path, y.index_path)
    BY <2>1 DEF OQInv, Tracking, Flushing
  <2>5. CASE Tracking
    <3>1. Before(looking_for, r.index_path) BY <1>1, <1>4, <2>5, BeforeTotal DEF Tracking
    <3> QED BY <1>1, <2>3, <2>4, <3>1 DEF IsPeek
  <2>6. CASE Flushing BY <1>1, <2>3, <2>4, <2>6 DEF Flushing
  <2> QED BY <2>5, <2>6 DEF OQInv
<1>7. Flushing' BY <1>5, <1>6 DEF Flushing, Return
<1> QED BY <1>1, <1>2, <1>3, <1>7 DEF OQInv

LEMMA NextOQ == OQInv /\ [OQNext]_oqvars => OQInv'
<1> SUFFICES ASSUME OQInv, [OQNext]_oqvars PROVE OQInv' OBVIOUS
<1>0. OQTypeOK /\ Ended BY DEF OQInv
<1>1. ASSUME connected, NEW r \in Results \ sent, SendResult(r) PROVE OQInv'
  BY <1>1, SendStep
<1>2. CASE DropSenders
  <2>1. Ended' BY <1>0, <1>2 DEF DropSenders, Ended, WasReturned
  <2> QED BY <1>0, <1>2, <2>1, QuietStep DEF DropSenders, OQTypeOK
<1>3. CASE CallNext
  <2>1. Ended' BY <1>3 DEF CallNext, Ended
  <2> QED BY <1>0, <1>3, <2>1, QuietStep DEF CallNext, OQTypeOK
<1>4. CASE StartTry
  <2>1. Ended' BY <1>4 DEF StartTry, Ended
  <2> QED BY <1>0, <1>4, <2>1, QuietStep DEF StartTry, OQTypeOK
<1>5. CASE DrainResult
  <2>1. CASE TakeResult /\ UNCHANGED at BY <1>5, <2>1, TakeStep DEF DrainResult
  <2>2. CASE at' = "match" /\ UNCHANGED <<result_channel, result_buffer>>
    <3>1. Ended' BY <2>2 DEF Ended
    <3> QED BY <1>0, <1>5, <2>2, <3>1, QuietStep DEF DrainResult, OQTypeOK
  <2> QED BY <1>5, <2>1, <2>2 DEF DrainResult
<1>6. ASSUME NEW r \in Results, ReturnMatch(r) PROVE OQInv'
  BY <1>6, MatchStep DEF ReturnMatch
<1>7. ASSUME NEW r \in Results, ReturnRest(r) PROVE OQInv'
  <2>1. CASE r.index_path = looking_for BY <1>7, <2>1, MatchStep DEF ReturnRest
  <2>2. CASE r.index_path # looking_for BY <1>7, <2>2, FlushStep DEF ReturnRest
  <2> QED BY <2>1, <2>2
<1>8. CASE NoMatch
  <2>1. CASE looking_for = <<>>
    <3>1. \A r \in Results : WasReturned(r) BY <2>1 DEF OQInv, Tracking, Flushing
    <3>2. Ended' BY <1>0, <1>8, <3>1 DEF NoMatch, Ended, WasReturned, OQTypeOK
    <3> QED BY <1>0, <1>8, <3>2, QuietStep DEF NoMatch, OQTypeOK
  <2>2. CASE looking_for # <<>>
    <3>1. Ended' BY <1>8, <2>2 DEF NoMatch, Ended
    <3> QED BY <1>0, <1>8, <3>1, QuietStep DEF NoMatch, OQTypeOK
  <2> QED BY <2>1, <2>2
<1>9. CASE WaitResult
  <2>1. CASE TakeResult BY <1>9, <2>1, TakeStep DEF WaitResult
  <2>2. CASE UNCHANGED <<result_channel, result_buffer>>
    <3>1. Ended' BY <1>9 DEF WaitResult, Ended
    <3> QED BY <1>0, <1>9, <2>2, <3>1, QuietStep DEF WaitResult, OQTypeOK
  <2> QED BY <1>9, <2>1, <2>2 DEF WaitResult
<1>10. CASE NothingRests
  <2>1. \A r \in sent : WasReturned(r)
    <3>1. DOMAIN result_channel = {} /\ result_buffer = {} BY <1>10 DEF NothingRests
    <3> QED BY <3>1 DEF OQInv, Places
  <2>2. Ended' BY <1>10, <2>1 DEF NothingRests, Ended, WasReturned
  <2> QED BY <1>0, <1>10, <2>2, QuietStep DEF NothingRests, OQTypeOK
<1>11. CASE RaiseStop
  <2>1. Ended' BY <1>11 DEF RaiseStop, Ended
  <2> QED BY <1>0, <1>11, <2>1, QuietStep DEF RaiseStop, OQTypeOK
<1>12. CASE UNCHANGED oqvars
  <2>1. Ended' BY <1>0, <1>12 DEF oqvars, Ended, WasReturned
  <2> QED BY <1>0, <1>12, <2>1, QuietStep DEF oqvars, OQTypeOK
<1> QED BY <1>1, <1>2, <1>3, <1>4, <1>5, <1>6, <1>7, <1>8, <1>9, <1>10, <1>11, <1>12
        DEF OQNext, Producer, Consumer, Over

LEMMA OQInvariance == OQSpec => []OQInv
BY InitOQ, NextOQ, PTL DEF OQSpec

------------------------------------------------------------------------------
(* The theorems *)

\* The queue's state keeps its types: the matcher's stack is always as deep as
\* looking_for, and the channel stays within its capacity.
THEOREM OQTypeCorrect == OQSpec => []OQTypeOK
<1>1. OQInv => OQTypeOK BY DEF OQInv
<1> QED BY <1>1, OQInvariance, PTL

\* next() returns results in strict depth-first order for every tree, every
\* order of sending, every point at which the senders vanish.
THEOREM ReturnsDepthFirst == OQSpec => []DepthFirst
<1>1. OQInv => DepthFirst BY DEF OQInv
<1> QED BY <1>1, OQInvariance, PTL

\* A walk that was not stopped has returned every result sent when next()
\* returns None, by either of its two ends.
THEOREM LosesNone == OQSpec => []AllSentReturned
<1>1. OQInv => AllSentReturned BY DEF OQInv, Ended, AllSentReturned
<1> QED BY <1>1, OQInvariance, PTL

\* As long as senders remain or all results were sent, what next() has returned
\* is an initial part of the depth-first order: advance_past skips none.
THEOREM LeavesNoGap == OQSpec => []NoGap
<1>1. OQInv => NoGap
  <2> SUFFICES ASSUME OQInv, connected \/ sent = Results, NEW r \in Results,
                      NEW i \in DOMAIN returned,
                      Before(r.index_path, returned[i].index_path), ~WasReturned(r)
               PROVE  FALSE
    BY DEF NoGap
  <2>1. Before(returned[i].index_path, r.index_path)
    <3>1. CASE Tracking BY <3>1 DEF Tracking
    <3>2. CASE Flushing
      <4>1. r \in sent /\ DOMAIN result_channel = {} BY <3>2 DEF Flushing
      <4>2. r \in result_buffer BY <4>1 DEF OQInv, Places
      <4> QED BY <3>2, <4>2 DEF Flushing
    <3> QED BY <3>1, <3>2 DEF OQInv
  <2>2. returned[i] \in Results BY DEF OQInv, OQTypeOK
  <2> QED BY <2>1, <2>2, ResultsHavePaths, BeforeAsymmetric
<1> QED BY <1>1, OQInvariance, PTL
==============================================================================

---------------------------- MODULE ParWalkProofs ----------------------------
(***************************************************************************)
(* The parallel walk drives the directory queue as PriorityQueue allows:   *)
(* above all, no spec is pushed twice and no two specs share an index      *)
(* path, on any file tree, with any number of workers, streaming or not.   *)
(* What PriorityQueueProofs proves of the queue then holds of the walk.    *)
(***************************************************************************)
EXTENDS ParWalk, ReadDirProofs

Q == INSTANCE PriorityQueueProofs WITH
         Specs <- SpecSet,
         RootSpecs <- IF ReadsChildren(RootDirEntry) THEN <<RootSpec>> ELSE <<>>

------------------------------------------------------------------------------
(* The tree of index paths *)

\* Each path but the root's extends the path of a spec pushed before.
Tree(specs) ==
    \A s \in specs :
        /\ s.index_path \in Paths
        /\ \/ s.index_path = <<0>>
           \/ \E t \in specs : \E n \in Nat : s.index_path = Adding(t.index_path, n)

\* One spec per path.
Unique(specs) == \A s, t \in specs : s.index_path = t.index_path => s = t

\* The children of path from number k on are still to come.
Fresh(specs, path, k) ==
    \A t \in specs : \A n \in Nat : n >= k => t.index_path # Adding(path, n)

\* The next child of a spec is new, is a leaf of the tree, and is nobody
\* else's child.
LEMMA FreshChild ==
    ASSUME NEW specs, Tree(specs), Unique(specs), NEW p \in specs, NEW n \in Nat,
           Fresh(specs, p.index_path, n), NEW c, c.index_path = Adding(p.index_path, n)
    PROVE  /\ c \notin specs
           /\ Tree(specs \cup {c})
           /\ Unique(specs \cup {c})
           /\ Fresh(specs \cup {c}, p.index_path, n + 1)
           /\ Fresh(specs \cup {c}, c.index_path, 0)
           /\ \A q \in specs : \A k :
                 q # p /\ Fresh(specs, q.index_path, k) => Fresh(specs \cup {c}, q.index_path, k)
<1>1. \A s \in specs : s.index_path \in Seq(Nat) BY DEF Tree, Paths
<1>2. \A a, b \in Seq(Nat) : \A i, j \in Nat : Adding(a, i) = Adding(b, j) => a = b /\ i = j
  BY AppendInjective DEF Adding
<1>3. \A a \in Seq(Nat) : \A i \in Nat : Adding(a, i) \in Seq(Nat) /\ Adding(a, i) # <<>> /\ Adding(a, i) # a
  <2>1. ASSUME NEW a \in Seq(Nat), NEW i \in Nat
        PROVE  Adding(a, i) \in Seq(Nat) /\ Adding(a, i) # <<>> /\ Len(Adding(a, i)) = Len(a) + 1
    BY AppendProperties DEF Adding
  <2>2. \A a \in Seq(Nat) : Len(a) \in Nat OBVIOUS
  <2>3. ASSUME NEW a \in Seq(Nat), NEW i \in Nat PROVE Adding(a, i) # a
    <3>1. Len(a) # Len(a) + 1 BY <2>2
    <3> QED BY <2>1, <3>1
  <2> QED BY <2>1, <2>3
<1>4. c.index_path \in Seq(Nat) /\ c.index_path # <<>> BY <1>1, <1>3
<1>5. n >= n OBVIOUS
<1>6. \A t \in specs : t.index_path # c.index_path BY <1>5 DEF Fresh
<1>7. c \notin specs BY <1>6
<1>8. Tree(specs \cup {c}) BY <1>4 DEF Tree, Paths
<1>9. Unique(specs \cup {c}) BY <1>6 DEF Unique
<1>10. Fresh(specs \cup {c}, p.index_path, n + 1)
  <2>1. \A m \in Nat : m >= n + 1 => m >= n /\ m # n OBVIOUS
  <2>2. \A m \in Nat : m >= n + 1 => c.index_path # Adding(p.index_path, m) BY <1>1, <1>2, <2>1
  <2> QED BY <2>1, <2>2 DEF Fresh
<1>11. ASSUME NEW t \in specs \cup {c}, NEW m \in Nat PROVE t.index_path # Adding(c.index_path, m)
  <2>1. CASE t = c BY <1>3, <1>4, <2>1
  <2>2. CASE t \in specs
    <3>1. CASE t.index_path = <<0>>
      <4>1. <<0>> = Adding(<<>>, 0) /\ <<>> \in Seq(Nat) /\ 0 \in Nat BY DEF Adding
      <4>2. ASSUME NEW b \in Seq(Nat), NEW j \in Nat, Append(<<>>, 0) = Append(b, j) PROVE b = <<>>
        BY <4>1, <4>2, AppendInjective
      <4> QED BY <1>4, <3>1, <4>1, <4>2 DEF Adding
    <3>2. CASE \E s \in specs : \E k \in Nat : t.index_path = Adding(s.index_path, k)
      BY <1>1, <1>2, <1>4, <1>6, <3>2
    <3> QED BY <2>2, <3>1, <3>2 DEF Tree
  <2> QED BY <2>1, <2>2
<1>12. Fresh(specs \cup {c}, c.index_path, 0) BY <1>11 DEF Fresh
<1>13. ASSUME NEW q \in specs, NEW k, q # p, Fresh(specs, q.index_path, k)
       PROVE  Fresh(specs \cup {c}, q.index_path, k)
  <2>1. q.index_path # p.index_path BY <1>13 DEF Unique
  <2>2. \A m \in Nat : c.index_path # Adding(q.index_path, m) BY <1>1, <1>2, <2>1
  <2> QED BY <1>13, <2>2 DEF Fresh
<1> QED BY <1>7, <1>8, <1>9, <1>10, <1>12, <1>13

------------------------------------------------------------------------------
(* The queue in the walk *)

\* The assumptions of PriorityQueue hold of the instance the walk uses.
LEMMA QueueAssumption == Q!PQAssumption
<1> DEFINE roots == IF ReadsChildren(RootDirEntry) THEN <<RootSpec>> ELSE <<>>
<1>1. IsFiniteSet(Workers) /\ ChannelCapacity \in Nat \ {0} /\ NoSpec \notin SpecSet
  BY ParAssumption
<1>2. ReadsChildren(RootDirEntry) => RootSpec \in SpecSet BY ParAssumption
<1>3. roots = <<>> \/ \E s \in SpecSet : roots = <<s>> BY <1>2
<1>4. Q!IsFiniteSet(Workers) BY <1>1 DEF IsFiniteSet, Q!IsFiniteSet
<1> QED BY <1>1, <1>3, <1>4 DEF Q!PQAssumption

LEMMA QueueInit == PQ!Init => Q!IInv
<1>1. PQ!Init => Q!Init BY DEF PQ!Init, Q!Init
<1> QED BY <1>1, QueueAssumption, Q!InitIInv DEF Q!PQAssumption

LEMMA QueueStep == Q!IInv /\ PQ!Next => Q!IInv'
<1>1. PQ!Next => Q!Next
  BY DEF PQ!Next, Q!Next, PQ!TakeNext, Q!TakeNext, PQ!Handle, Q!Handle, PQ!SetStop, Q!SetStop,
         PQ!Terminated, Q!Terminated, PQ!Exited, Q!Exited, PQ!vars, Q!vars, PQ!Lock, Q!Lock,
         PQ!CheckStop, Q!CheckStop, PQ!TryRecv, Q!TryRecv, PQ!Pop, Q!Pop, PQ!LoadPending,
         Q!LoadPending, PQ!RecvTimeout, Q!RecvTimeout, PQ!PushCount, Q!PushCount, PQ!PushSend,
         Q!PushSend, PQ!CompleteItem, Q!CompleteItem, PQ!Goto, Q!Goto, PQ!InNext, Q!InNext,
         PQ!Disconnected, Q!Disconnected, PQ!Receive, Q!Receive, PQ!IsTop, Q!IsTop,
         PQ!PopsFirst, Q!PopsFirst, PQ!Before, Q!Before
<1> QED BY <1>1, QueueAssumption, Q!StepIInv DEF Q!PQAssumption

LEMMA QueueStutter == Q!IInv /\ UNCHANGED PQ!vars => Q!IInv'
<1>1. UNCHANGED PQ!vars => UNCHANGED Q!vars BY DEF PQ!vars, Q!vars
<1> QED BY <1>1, QueueAssumption, Q!StutterIInv DEF Q!PQAssumption

------------------------------------------------------------------------------
(* The inductive invariant *)

\* A spec is in the channel, in the heap or on its way to the channel.
Waits(s) ==
    \/ \E k \in DOMAIN channel : channel[k] = s
    \/ s \in receive_buffer
    \/ \E w \in Workers : pc[w] = "send" /\ sending[w] = s

AtWork(w) == pc[w] \in {"walk", "send"}

(***************************************************************************)
(* How far the worker with spec p is, by its task: the numbers it has not  *)
(* given out yet are fresh.  Streaming, that is every number from the      *)
(* count of the streamed on; after the result, the specs still to be       *)
(* scheduled have consecutive numbers, none of them given out.             *)
(***************************************************************************)
Underway(specs, p, t) ==
    \/ t = NoTask /\ Fresh(specs, p.index_path, 0)
    \/ /\ t.stage = "stream"
       /\ t.streamed \in Nat
       /\ ~TooDeep(Depth(p))
       /\ Fresh(specs, p.index_path, t.streamed)
    \/ /\ t.stage \in {"result", "schedule"}
       /\ t.todo \in Seq(SpecSet)
       /\ \E m \in Nat :
             /\ Fresh(specs, p.index_path, m)
             /\ \A k \in DOMAIN t.todo : t.todo[k].index_path = Adding(p.index_path, (m + k) - 1)

IsTask(t) ==
    t = [stage |-> t.stage, streamed |-> t.streamed, result |-> t.result, todo |-> t.todo]

PathsInv ==
    /\ Tree(issued)
    /\ Unique(issued)
    /\ \A s \in issued : Waits(s) => Fresh(issued, s.index_path, 0)

TasksInv ==
    /\ DOMAIN task = Workers
    /\ \A w \in Workers :
          /\ IsTask(task[w])
          /\ AtWork(w) => Underway(issued, item[w], task[w])
          /\ ~AtWork(w) => task[w] = NoTask

(***************************************************************************)
(* UsesQueue and OwnPaths say nothing of the specs to come.  They hold     *)
(* because a spec that waits has no child yet, a worker's spec has only    *)
(* the children the worker gave it, and a spec is with one worker or at    *)
(* one place of the queue, which is the invariant of the queue (Q!IInv).   *)
(***************************************************************************)
ParInv == faults \in FaultCases /\ Q!IInv /\ PathsInv /\ TasksInv

\* What the invariant of the queue says of the specs at its places.
LEMMA QueueFacts ==
    ASSUME Q!IInv
    PROVE  /\ channel \in Seq(SpecSet)
           /\ issued \subseteq SpecSet
           /\ pc \in [Workers -> {"stop", "drain", "pop", "load", "wait", "lock", "walk", "send", "exit"}]
           /\ item \in [Workers -> SpecSet \cup {NoSpec}]
           /\ sending \in [Workers -> SpecSet \cup {NoSpec}]
           /\ \A s : Waits(s) => s \in issued
           /\ \A w \in Workers : AtWork(w) => item[w] \in issued /\ ~Waits(item[w])
           /\ \A v, w \in Workers : AtWork(v) /\ AtWork(w) /\ v # w => item[v] # item[w]
<1>1. /\ channel \in Seq(SpecSet)
      /\ issued \subseteq SpecSet
      /\ item \in [Workers -> SpecSet \cup {NoSpec}]
      /\ sending \in [Workers -> SpecSet \cup {NoSpec}]
  BY DEF Q!IInv, Q!TypeOK
<1>2. pc \in [Workers -> {"stop", "drain", "pop", "load", "wait", "lock", "walk", "send", "exit"}]
  <2>1. pc \in [Workers -> Q!InNext \cup {"lock", "walk", "send", "exit"}] BY DEF Q!IInv, Q!TypeOK
  <2>2. Q!InNext \cup {"lock", "walk", "send", "exit"}
          = {"stop", "drain", "pop", "load", "wait", "lock", "walk", "send", "exit"}
    BY DEF Q!InNext
  <2> QED BY <2>1, <2>2
<1>3. \A w \in Workers : (AtWork(w) <=> w \in Q!Busy) /\ (pc[w] = "send" <=> w \in Q!Sending)
  BY DEF AtWork, Q!Busy, Q!Sending
<1>4. \A s : Waits(s) => s \in issued BY <1>3 DEF Waits, Q!IInv, Q!AllIssued
<1>5. \A w \in Workers : AtWork(w) => item[w] \in issued BY <1>3 DEF Q!IInv, Q!AllIssued
<1>6. ASSUME NEW w \in Workers, AtWork(w) PROVE ~Waits(item[w])
  <2>1. w \in Q!Busy BY <1>3, <1>6
  <2>2. ~Q!InChannel(item[w]) /\ item[w] \notin receive_buffer /\ \A v \in Q!Busy : sending[v] # item[w]
    BY <2>1 DEF Q!IInv, Q!OnePlace
  <2>3. \A v \in Workers : pc[v] = "send" => v \in Q!Busy BY DEF Q!Busy
  <2> QED BY <2>2, <2>3 DEF Waits, Q!InChannel
<1>7. \A v, w \in Workers : AtWork(v) /\ AtWork(w) /\ v # w => item[v] # item[w]
  BY <1>3 DEF Q!IInv, Q!OnePlace
<1> QED BY <1>1, <1>2, <1>4, <1>5, <1>6, <1>7

LEMMA ParInitInv == ParInit => ParInv
<1> SUFFICES ASSUME ParInit PROVE ParInv OBVIOUS
<1> DEFINE roots == IF ReadsChildren(RootDirEntry) THEN <<RootSpec>> ELSE <<>>
<1>1. faults \in FaultCases /\ Q!IInv BY QueueInit DEF ParInit
<1>2. /\ issued = {roots[k] : k \in DOMAIN roots}
      /\ pc = [w \in Workers |-> "lock"]
      /\ task = [w \in Workers |-> NoTask]
  BY DEF ParInit, PQ!Init
<1>3. \A s \in issued : s = RootSpec
  <2>1. ReadsChildren(RootDirEntry) => roots = <<RootSpec>> OBVIOUS
  <2>2. ~ReadsChildren(RootDirEntry) => roots = <<>> OBVIOUS
  <2> HIDE DEF roots
  <2> QED BY <1>2, <2>1, <2>2
<1>4. RootSpec.index_path = <<0>> BY DEF RootSpec, Weighted
<1>5. <<0>> \in Paths /\ \A n \in Nat : <<0>> # Adding(<<0>>, n)
  <2>1. <<0>> \in Seq(Nat) /\ Len(<<0>>) = 1 OBVIOUS
  <2>2. \A n \in Nat : Len(Append(<<0>>, n)) = 2
    <3> DEFINE z == <<0>>
    <3> HIDE DEF z
    <3>1. z \in Seq(Nat) /\ Len(z) = 1 BY <2>1 DEF z
    <3>2. \A n \in Nat : Len(Append(z, n)) = Len(z) + 1 BY <3>1, AppendProperties
    <3> QED BY <3>1, <3>2 DEF z
  <2> QED BY <2>1, <2>2 DEF Paths, Adding
<1>6. PathsInv
  <2>1. \A s \in issued : s.index_path = <<0>> BY <1>3, <1>4
  <2>2. Tree(issued) BY <1>5, <2>1 DEF Tree
  <2>3. Unique(issued) BY <1>3 DEF Unique
  <2>4. \A s \in issued : Fresh(issued, s.index_path, 0) BY <1>5, <2>1 DEF Fresh
  <2> QED BY <2>2, <2>3, <2>4 DEF PathsInv
<1>7. TasksInv BY <1>2 DEF TasksInv, AtWork, IsTask, NoTask
<1> QED BY <1>1, <1>6, <1>7 DEF ParInv

------------------------------------------------------------------------------
(* Steps that leave the queue alone *)

\* The queue stutters: the paths keep their invariant.
LEMMA QueueAlone ==
    ASSUME ParInv, UNCHANGED <<specVars, stop>>
    PROVE  /\ UNCHANGED PQ!vars
           /\ Q!IInv' /\ PathsInv'
           /\ issued' = issued /\ item' = item /\ \A w \in Workers : AtWork(w)' <=> AtWork(w)
<1>1. UNCHANGED PQ!vars BY DEF specVars, PQ!vars
<1>2. Q!IInv' BY <1>1, QueueStutter DEF ParInv
<1>3. issued' = issued /\ item' = item BY DEF specVars
<1>4. \A s : Waits(s)' <=> Waits(s) BY DEF specVars, Waits
<1>5. PathsInv' BY <1>3, <1>4 DEF ParInv, PathsInv
<1>6. \A w \in Workers : AtWork(w)' <=> AtWork(w) BY DEF specVars, AtWork
<1> QED BY <1>1, <1>2, <1>3, <1>5, <1>6

\* Steps of the caller and of the startup leave the workers alone, too.
LEMMA OthersStep ==
    ASSUME ParInv, UNCHANGED <<specVars, stop, task, faults>>
    PROVE  ParInv'
<1>1. /\ Q!IInv' /\ PathsInv'
      /\ issued' = issued /\ item' = item /\ \A w \in Workers : AtWork(w)' <=> AtWork(w)
  BY QueueAlone
<1>2. TasksInv' BY <1>1 DEF ParInv, TasksInv
<1> QED BY <1>1, <1>2 DEF ParInv

\* One worker's task moves on, without a push.
LEMMA TaskStep ==
    ASSUME ParInv, UNCHANGED <<specVars, stop, faults>>, NEW w \in Workers, AtWork(w),
           DOMAIN task' = Workers, \A v \in Workers \ {w} : task'[v] = task[v],
           IsTask(task'[w]), Underway(issued, item[w], task'[w])
    PROVE  ParInv'
<1>1. /\ Q!IInv' /\ PathsInv'
      /\ issued' = issued /\ item' = item /\ \A v \in Workers : AtWork(v)' <=> AtWork(v)
  BY QueueAlone
<1>2. ASSUME NEW v \in Workers
      PROVE  /\ IsTask(task'[v])
             /\ AtWork(v)' => Underway(issued', item'[v], task'[v])
             /\ ~AtWork(v)' => task'[v] = NoTask
  <2>1. CASE v = w BY <1>1, <2>1
  <2>2. CASE v # w BY <1>1, <2>2 DEF ParInv, TasksInv
  <2> QED BY <2>1, <2>2
<1>3. TasksInv' BY <1>2 DEF TasksInv
<1> QED BY <1>1, <1>3 DEF ParInv

\* The specs of the children in a listing, numbered from 0.
LEMMA TodoNumbered ==
    ASSUME NEW list, Sound(list), NEW p,
           \A n \in 1 .. Len(ReadChildren(list)) : WeightedChildren(list, p)[n] \in SpecSet
    PROVE  /\ WeightedChildren(list, p) \in Seq(SpecSet)
           /\ \A k \in DOMAIN WeightedChildren(list, p) :
                 k \in Nat /\ WeightedChildren(list, p)[k].index_path = Adding(p.index_path, k - 1)
<1> DEFINE c == Len(ReadChildren(list))
           todo == WeightedChildren(list, p)
<1>1. c \in Nat BY ChildrenSequence
<1>2. todo = [n \in 1 .. c |->
                Weighted(ReadDirSpec(ReadChildren(list)[n]), Adding(p.index_path, n - 1),
                         p.weight + Len(list))]
  BY DEF WeightedChildren
<1> HIDE DEF c
<1>3. DOMAIN todo = 1 .. c BY <1>2
<1>4. \A n \in 1 .. c : todo[n].index_path = Adding(p.index_path, n - 1) BY <1>2 DEF Weighted
<1>5. \A n \in 1 .. c : todo[n] \in SpecSet BY DEF c
<1>6. todo = [n \in 1 .. c |-> todo[n]] BY <1>2
<1> HIDE DEF todo
<1>7. todo \in [1 .. c -> SpecSet] BY <1>5, <1>6
<1>8. todo \in Seq(SpecSet) BY <1>1, <1>7, SeqDef
<1>9. \A k \in DOMAIN todo : k \in Nat /\ todo[k].index_path = Adding(p.index_path, k - 1)
  BY <1>1, <1>3, <1>4
<1> QED BY <1>8, <1>9 DEF todo

\* A result that streamed nothing, of a spec that has no child: what is to be
\* scheduled is new.
LEMMA HaveResultUnderway ==
    ASSUME ParInv, NEW w \in Workers, AtWork(w), NEW result, HaveResult(w, result),
           NEW n \in Nat, Fresh(issued, item[w].index_path, n),
           Sound(result.list), n > 0 => result.streamed = n,
           result.ok /\ result.streamed = 0 =>
              \A k \in 1 .. Len(ReadChildren(result.list)) :
                 WeightedChildren(result.list, item[w])[k] \in SpecSet
    PROVE  /\ DOMAIN task' = Workers /\ \A v \in Workers \ {w} : task'[v] = task[v]
           /\ IsTask(task'[w]) /\ Underway(issued, item[w], task'[w])
<1> DEFINE p == item[w]
           todo == IF result.ok /\ result.streamed = 0 THEN WeightedChildren(result.list, p) ELSE <<>>
<1>1. DOMAIN task = Workers /\ IsTask(task[w]) BY DEF ParInv, TasksInv
<1>2. /\ DOMAIN task' = Workers /\ \A v \in Workers \ {w} : task'[v] = task[v]
      /\ task'[w] = [stage |-> "result", streamed |-> task[w].streamed, result |-> result, todo |-> todo]
  BY <1>1 DEF HaveResult, IsTask
<1>3. CASE result.ok /\ result.streamed = 0
  <2>1. n = 0 BY <1>3
  <2>2. /\ todo \in Seq(SpecSet)
        /\ \A k \in DOMAIN todo : k \in Nat /\ todo[k].index_path = Adding(p.index_path, k - 1)
    <3>1. todo = WeightedChildren(result.list, p) BY <1>3
    <3> HIDE DEF todo
    <3> QED BY <1>3, <3>1, TodoNumbered
  <2> HIDE DEF todo
  <2>3. \A k \in Nat : (0 + k) - 1 = k - 1 OBVIOUS
  <2>4. \A k \in DOMAIN todo : todo[k].index_path = Adding(p.index_path, (0 + k) - 1) BY <2>2, <2>3
  <2>5. task'[w].stage = "result" /\ task'[w].todo = todo /\ IsTask(task'[w]) BY <1>2 DEF IsTask
  <2>6. Underway(issued, p, task'[w]) BY <2>1, <2>2, <2>4, <2>5 DEF Underway
  <2> QED BY <1>2, <2>5, <2>6
<1>4. CASE ~(result.ok /\ result.streamed = 0)
  <2>1. todo = <<>> BY <1>4
  <2> HIDE DEF todo
  <2>2. todo \in Seq(SpecSet) /\ DOMAIN todo = {} BY <2>1
  <2>3. task'[w].stage = "result" /\ task'[w].todo = todo /\ IsTask(task'[w]) BY <1>2 DEF IsTask
  <2>4. Underway(issued, p, task'[w]) BY <2>2, <2>3 DEF Underway
  <2> QED BY <1>2, <2>3, <2>4
<1> QED BY <1>3, <1>4

\* What a worker reads is a directory of the tree, with a fault of the run;
\* what it may push is in SpecSet.
LEMMA ReadsDirectory ==
    ASSUME ParInv, NEW w \in Workers, AtWork(w)
    PROVE  /\ item[w] \in SpecSet /\ item[w] \in issued
           /\ item[w].value.dir \in Dirs
           /\ MayBefall(DirFault(w), item[w].value.dir)
           /\ PushedFrom(item[w], DirFault(w)) \subseteq SpecSet
<1>1. item[w] \in issued /\ item[w] \in SpecSet BY QueueFacts DEF ParInv
<1>2. /\ faults \in [Dirs -> Faults]
      /\ \A d \in Dirs : faults[d].after <= Len(Listing[d])
      /\ item[w].value.dir \in Dirs
      /\ PushedFrom(item[w], faults[item[w].value.dir]) \subseteq SpecSet
  BY <1>1, ParAssumption DEF ParInv
<1> QED BY <1>1, <1>2 DEF MayBefall, DirFault

LEMMA StartReadInv ==
    ASSUME ParInv, NEW w \in Workers, StartRead(w)
    PROVE  ParInv' /\ UNCHANGED PQ!vars
<1> DEFINE p == item[w]
           result == CoreReadDir(p.value, Depth(p), DirFault(w))
<1>1. AtWork(w) /\ task[w].stage = "start" BY DEF StartRead, Walking, AtWork
<1>2. /\ UNCHANGED <<specVars, stop, faults>>
      /\ \/ ~TooDeep(Depth(p)) /\ task' = [task EXCEPT ![w].stage = "stream"]
         \/ HaveResult(w, result)
  BY DEF StartRead, config
<1>3. DOMAIN task = Workers /\ task[w] = NoTask /\ Fresh(issued, p.index_path, 0)
  BY <1>1 DEF ParInv, TasksInv, Underway
<1>4. UNCHANGED PQ!vars BY <1>2, QueueAlone
<1>5. CASE ~TooDeep(Depth(p)) /\ task' = [task EXCEPT ![w].stage = "stream"]
  <2>1. /\ DOMAIN task' = Workers /\ \A v \in Workers \ {w} : task'[v] = task[v]
        /\ task'[w] = [stage |-> "stream", streamed |-> 0, result |-> ReadErr, todo |-> <<>>]
    BY <1>3, <1>5 DEF NoTask
  <2>2. task'[w].stage = "stream" /\ task'[w].streamed = 0 /\ IsTask(task'[w]) BY <2>1 DEF IsTask
  <2>3. Underway(issued, p, task'[w]) BY <1>3, <1>5, <2>2 DEF Underway
  <2> QED BY <1>1, <1>2, <1>4, <2>1, <2>2, <2>3, TaskStep
<1>6. CASE HaveResult(w, result)
  <2>1. p.value.dir \in Dirs /\ MayBefall(DirFault(w), p.value.dir)
        /\ PushedFrom(p, DirFault(w)) \subseteq SpecSet
    BY <1>1, ReadsDirectory
  <2>2. Sound(result.list) BY <2>1, ReadSound
  <2>3. ASSUME result.ok, result.streamed = 0, NEW k \in 1 .. Len(ReadChildren(result.list))
        PROVE  WeightedChildren(result.list, p)[k] \in SpecSet
    <3> HIDE DEF p
    <3>1. WeightedChildren(result.list, p)[k] \in PushedFrom(p, DirFault(w))
      BY <2>3 DEF PushedFrom
    <3> QED BY <2>1, <3>1
  <2>4. 0 \in Nat /\ ~(0 > 0) OBVIOUS
  <2> HIDE DEF result
  <2>5. /\ DOMAIN task' = Workers /\ \A v \in Workers \ {w} : task'[v] = task[v]
        /\ IsTask(task'[w]) /\ Underway(issued, p, task'[w])
    BY <1>1, <1>3, <1>6, <2>2, <2>3, <2>4, HaveResultUnderway
  <2> QED BY <1>1, <1>2, <1>4, <2>5, TaskStep
<1> QED BY <1>2, <1>5, <1>6

LEMMA EndStreamInv ==
    ASSUME ParInv, NEW w \in Workers, EndStream(w)
    PROVE  ParInv' /\ UNCHANGED PQ!vars
<1> DEFINE p == item[w]
           n == task[w].streamed
           limit == StreamLimit(p.value.dir, DirFault(w))
           result == StreamingRead(p, DirFault(w), n)
<1>1. AtWork(w) /\ task[w].stage = "stream" BY DEF EndStream, Walking, AtWork
<1>2. UNCHANGED <<specVars, stop, faults>> /\ HaveResult(w, result) BY DEF EndStream, config
<1>3. n \in Nat /\ ~TooDeep(Depth(p)) /\ Fresh(issued, p.index_path, n)
  BY <1>1 DEF ParInv, TasksInv, Underway, NoTask
<1>4. UNCHANGED PQ!vars BY <1>2, QueueAlone
<1>5. p.value.dir \in Dirs /\ MayBefall(DirFault(w), p.value.dir)
      /\ PushedFrom(p, DirFault(w)) \subseteq SpecSet
  BY <1>1, ReadsDirectory
<1> HIDE DEF n
<1>6. Sound(result.list) /\ (n > 0 => result.streamed = n) BY <1>5, StreamingSound
<1>7. limit \in Nat BY <1>5, StreamLimitNat
<1>8. ASSUME result.ok, result.streamed = 0, NEW k \in 1 .. Len(ReadChildren(result.list))
      PROVE  WeightedChildren(result.list, p)[k] \in SpecSet
  <2>1. n = 0 BY <1>3, <1>6, <1>8
  <2>2. n \in 0 .. limit BY <1>7, <2>1
  <2> HIDE DEF p
  <2>3. WeightedChildren(result.list, p)[k] \in PushedFrom(p, DirFault(w))
    BY <1>3, <1>8, <2>2 DEF PushedFrom
  <2> QED BY <1>5, <2>3
<1> HIDE DEF result
<1>9. /\ DOMAIN task' = Workers /\ \A v \in Workers \ {w} : task'[v] = task[v]
      /\ IsTask(task'[w]) /\ Underway(issued, p, task'[w])
  BY <1>1, <1>2, <1>3, <1>6, <1>8, HaveResultUnderway
<1> QED BY <1>1, <1>2, <1>4, <1>9, TaskStep

LEMMA SendResultInv ==
    ASSUME ParInv, NEW w \in Workers, SendResult(w)
    PROVE  ParInv' /\ UNCHANGED PQ!vars
<1> DEFINE p == item[w]
           t == task[w]
<1>1. AtWork(w) /\ t.stage = "result" BY DEF SendResult, Walking, AtWork
<1>2. UNCHANGED <<specVars, stop, faults>> BY DEF SendResult, config, OQ!SendResult
<1>3. \/ task' = [task EXCEPT ![w].stage = "schedule"]
      \/ task' = [task EXCEPT ![w].stage = "schedule", ![w].todo = <<>>]
  BY DEF SendResult
<1>4. DOMAIN task = Workers /\ IsTask(t) /\ Underway(issued, p, t) BY <1>1 DEF ParInv, TasksInv
<1>5. t.todo \in Seq(SpecSet)
      /\ \E m \in Nat : /\ Fresh(issued, p.index_path, m)
                        /\ \A k \in DOMAIN t.todo :
                              t.todo[k].index_path = Adding(p.index_path, (m + k) - 1)
  BY <1>1, <1>4 DEF Underway, NoTask
<1>6. UNCHANGED PQ!vars BY <1>2, QueueAlone
<1>7. CASE task' = [task EXCEPT ![w].stage = "schedule"]
  <2>1. /\ DOMAIN task' = Workers /\ \A v \in Workers \ {w} : task'[v] = task[v]
        /\ task'[w] = [stage |-> "schedule", streamed |-> t.streamed, result |-> t.result, todo |-> t.todo]
    BY <1>4, <1>7 DEF IsTask
  <2>2. task'[w].stage = "schedule" /\ task'[w].todo = t.todo /\ IsTask(task'[w]) BY <2>1 DEF IsTask
  <2>3. Underway(issued, p, task'[w]) BY <1>5, <2>2 DEF Underway
  <2> QED BY <1>1, <1>2, <1>6, <2>1, <2>2, <2>3, TaskStep
<1>8. CASE task' = [task EXCEPT ![w].stage = "schedule", ![w].todo = <<>>]
  <2>1. /\ DOMAIN task' = Workers /\ \A v \in Workers \ {w} : task'[v] = task[v]
        /\ task'[w] = [stage |-> "schedule", streamed |-> t.streamed, result |-> t.result, todo |-> <<>>]
    BY <1>4, <1>8 DEF IsTask
  <2>2. task'[w].stage = "schedule" /\ task'[w].todo = <<>> /\ IsTask(task'[w]) BY <2>1 DEF IsTask
  <2>3. <<>> \in Seq(SpecSet) /\ DOMAIN <<>> = {} OBVIOUS
  <2>4. Underway(issued, p, task'[w]) BY <1>5, <2>2, <2>3 DEF Underway
  <2> QED BY <1>1, <1>2, <1>6, <2>1, <2>2, <2>4, TaskStep
<1> QED BY <1>3, <1>7, <1>8

------------------------------------------------------------------------------
(* Steps of the queue *)

\* Steps that push nothing: what waits has waited before, and one worker may
\* begin with a spec that waited, or be done with its own.
LEMMA NoPushInv ==
    ASSUME ParInv, PQ!Next, faults' = faults, issued' = issued, NEW w \in Workers,
           \A s : Waits(s)' => Waits(s),
           \A v \in Workers \ {w} : pc'[v] = pc[v] /\ item'[v] = item[v] /\ task'[v] = task[v],
           DOMAIN task' = Workers,
           \/ AtWork(w) /\ pc'[w] \in {"walk", "send"} /\ item'[w] = item[w] /\ task'[w] = task[w]
           \/ task'[w] = NoTask /\ (pc'[w] \in {"walk", "send"} => Waits(item'[w]))
    PROVE  ParInv'
<1>1. Q!IInv' BY QueueStep DEF ParInv
<1>2. PathsInv' BY DEF ParInv, PathsInv
<1>3. ASSUME NEW v \in Workers
      PROVE  /\ IsTask(task'[v])
             /\ AtWork(v)' => Underway(issued', item'[v], task'[v])
             /\ ~AtWork(v)' => task'[v] = NoTask
  <2>1. AtWork(v)' <=> pc'[v] \in {"walk", "send"} BY DEF AtWork
  <2>2. AtWork(v) <=> pc[v] \in {"walk", "send"} BY DEF AtWork
  <2>3. IsTask(NoTask) BY DEF IsTask, NoTask
  <2>4. CASE v # w BY <2>1, <2>2, <2>4 DEF ParInv, TasksInv
  <2>5. CASE v = w /\ AtWork(w) /\ pc'[w] \in {"walk", "send"} /\ item'[w] = item[w] /\ task'[w] = task[w]
    BY <2>1, <2>2, <2>5 DEF ParInv, TasksInv
  <2>6. CASE v = w /\ task'[w] = NoTask /\ (pc'[w] \in {"walk", "send"} => Waits(item'[w]))
    <3>1. pc'[w] \in {"walk", "send"} => Fresh(issued, item'[w].index_path, 0)
      BY <2>6, QueueFacts DEF ParInv, PathsInv
    <3> QED BY <2>1, <2>3, <2>6, <3>1 DEF Underway
  <2> QED BY <2>4, <2>5, <2>6
<1>4. TasksInv' BY <1>3 DEF TasksInv
<1> QED BY <1>1, <1>2, <1>4 DEF ParInv

\* complete_item.
LEMMA CompleteInv ==
    ASSUME ParInv, NEW w \in Workers, PQ!CompleteItem(w), faults' = faults,
           DOMAIN task' = Workers, task'[w] = NoTask,
           \A v \in Workers \ {w} : task'[v] = task[v]
    PROVE  ParInv' /\ PQ!Next
<1>1. PQ!Next BY DEF PQ!Next, PQ!Handle
<1>2. /\ pc \in [Workers -> {"stop", "drain", "pop", "load", "wait", "lock", "walk", "send", "exit"}]
      /\ item \in [Workers -> SpecSet \cup {NoSpec}]
  BY QueueFacts DEF ParInv
<1>3. /\ issued' = issued /\ channel' = channel /\ receive_buffer' = receive_buffer
      /\ sending' = sending /\ pc'[w] = "lock"
      /\ \A v \in Workers \ {w} : pc'[v] = pc[v] /\ item'[v] = item[v]
  BY <1>2 DEF PQ!CompleteItem, PQ!Goto
<1>4. \A s : Waits(s)' => Waits(s) BY <1>3 DEF Waits
<1>5. ParInv' BY <1>1, <1>3, <1>4, NoPushInv
<1> QED BY <1>1, <1>5

LEMMA StoppedInv ==
    ASSUME ParInv, NEW w \in Workers, Stopped(w)
    PROVE  ParInv' /\ PQ!Next
<1>1. AtWork(w) /\ task[w].stage = "start" BY DEF Stopped, Walking, AtWork
<1>2. DOMAIN task = Workers /\ task[w] = NoTask BY <1>1 DEF ParInv, TasksInv, Underway
<1>3. PQ!CompleteItem(w) /\ faults' = faults /\ task' = task BY DEF Stopped, config
<1> QED BY <1>2, <1>3, CompleteInv

LEMMA FinishInv ==
    ASSUME ParInv, NEW w \in Workers, Finish(w)
    PROVE  ParInv' /\ PQ!Next
<1>1. DOMAIN task = Workers BY DEF ParInv, TasksInv
<1>2. PQ!CompleteItem(w) /\ faults' = faults /\ task' = [task EXCEPT ![w] = NoTask]
  BY DEF Finish, config
<1>3. DOMAIN task' = Workers /\ task'[w] = NoTask /\ \A v \in Workers \ {w} : task'[v] = task[v]
  BY <1>1, <1>2
<1> QED BY <1>2, <1>3, CompleteInv

\* try_next: what it moves from the channel to the heap goes on waiting, and
\* what it hands out has waited.
LEMMA TakeNextInv ==
    ASSUME ParInv, NEW w \in Workers, PQ!TakeNext(w), UNCHANGED <<faults, task>>
    PROVE  ParInv' /\ PQ!Next
<1>1. PQ!Next BY DEF PQ!Next
<1>2. /\ pc \in [Workers -> {"stop", "drain", "pop", "load", "wait", "lock", "walk", "send", "exit"}]
      /\ item \in [Workers -> SpecSet \cup {NoSpec}]
      /\ channel \in Seq(SpecSet)
  BY QueueFacts DEF ParInv
<1>3. DOMAIN task' = Workers /\ \A v \in Workers : task'[v] = task[v] BY DEF ParInv, TasksInv
<1>4. ~AtWork(w) => task'[w] = NoTask BY DEF ParInv, TasksInv
<1> USE DEF PQ!Goto
<1>5. ASSUME channel # <<>> PROVE \A s : (\E k \in DOMAIN Tail(channel) : Tail(channel)[k] = s)
                                         \/ s = Head(channel) => Waits(s)
  <2>1. /\ Len(channel) \in Nat \ {0} /\ DOMAIN channel = 1 .. Len(channel)
        /\ Head(channel) = channel[1]
        /\ Tail(channel) \in Seq(SpecSet) /\ Len(Tail(channel)) = Len(channel) - 1
        /\ \A k \in 1 .. (Len(channel) - 1) : Tail(channel)[k] = channel[k + 1]
    BY <1>2, <1>5, EmptySeq, LenProperties, HeadTailProperties
  <2>2. DOMAIN Tail(channel) = 1 .. (Len(channel) - 1) BY <2>1, LenProperties
  <2>3. 1 \in DOMAIN channel /\ \A k \in 1 .. (Len(channel) - 1) : k + 1 \in DOMAIN channel BY <2>1
  <2>4. \A k \in DOMAIN Tail(channel) : \E j \in DOMAIN channel : Tail(channel)[k] = channel[j]
    BY <2>1, <2>2, <2>3
  <2>5. Waits(Head(channel)) BY <2>1, <2>3 DEF Waits
  <2> QED BY <2>4, <2>5 DEF Waits
<1>6. CASE PQ!Pop(w) /\ pc'[w] = "walk"
  <2>1. PICK top \in receive_buffer :
           item' = [item EXCEPT ![w] = top] /\ receive_buffer' = receive_buffer \ {top}
    BY <1>2, <1>6 DEF PQ!Pop
  <2>2. /\ issued' = issued /\ channel' = channel /\ sending' = sending
        /\ pc[w] = "pop" /\ pc' = [pc EXCEPT ![w] = "walk"]
    BY <1>2, <1>6 DEF PQ!Pop
  <2>3. \A v \in Workers \ {w} : pc'[v] = pc[v] /\ item'[v] = item[v] BY <1>2, <2>1, <2>2
  <2>4. Waits(item'[w])
    <3>1. item'[w] = top BY <1>2, <2>1
    <3> QED BY <3>1 DEF Waits
  <2>5. \A s : Waits(s)' => Waits(s) BY <1>6, <2>1, <2>2, <2>3 DEF Waits
  <2>6. task'[w] = NoTask BY <1>4, <2>2 DEF AtWork
  <2> QED BY <1>1, <1>3, <2>2, <2>3, <2>4, <2>5, <2>6, NoPushInv
<1>7. CASE ~(PQ!Pop(w) /\ pc'[w] = "walk")
  <2>1. /\ issued' = issued /\ item' = item /\ sending' = sending
        /\ pc[w] \notin {"walk", "send"} /\ pc'[w] \notin {"walk", "send"}
        /\ \A v \in Workers \ {w} : pc'[v] = pc[v]
        /\ \/ PQ!Receive
           \/ UNCHANGED <<channel, receive_buffer>>
    BY <1>2, <1>7 DEF PQ!TakeNext, PQ!Lock, PQ!CheckStop, PQ!TryRecv, PQ!Pop, PQ!LoadPending,
                      PQ!RecvTimeout, PQ!Disconnected
  <2>2. \A s : Waits(s)' => Waits(s)
    <3>1. CASE PQ!Receive
      <4>1. channel # <<>> /\ channel' = Tail(channel)
            /\ receive_buffer' = receive_buffer \cup {Head(channel)}
        BY <3>1 DEF PQ!Receive
      <4>2. \A s : Waits(s)' => \/ \E k \in DOMAIN Tail(channel) : Tail(channel)[k] = s
                                \/ s = Head(channel)
                                \/ Waits(s)
        BY <2>1, <4>1 DEF Waits
      <4> QED BY <1>5, <4>1, <4>2
    <3>2. CASE UNCHANGED <<channel, receive_buffer>> BY <2>1, <3>2 DEF Waits
    <3> QED BY <2>1, <3>1, <3>2
  <2>3. task'[w] = NoTask BY <1>4, <2>1 DEF AtWork
  <2> QED BY <1>1, <1>3, <2>1, <2>2, <2>3, NoPushInv
<1> QED BY <1>6, <1>7

\* push, its second half: the spec waits as before.
LEMMA PushSendInv ==
    ASSUME ParInv, NEW w \in Workers, PQ!PushSend(w), UNCHANGED <<faults, task>>
    PROVE  ParInv' /\ PQ!Next
<1>1. PQ!Next BY DEF PQ!Next, PQ!Handle
<1>2. /\ pc \in [Workers -> {"stop", "drain", "pop", "load", "wait", "lock", "walk", "send", "exit"}]
      /\ sending \in [Workers -> SpecSet \cup {NoSpec}]
      /\ channel \in Seq(SpecSet) /\ issued \subseteq SpecSet
      /\ \A s : Waits(s) => s \in issued
  BY QueueFacts DEF ParInv
<1>3. DOMAIN task' = Workers /\ \A v \in Workers : task'[v] = task[v] BY DEF ParInv, TasksInv
<1>4. /\ issued' = issued /\ item' = item /\ receive_buffer' = receive_buffer
      /\ pc[w] = "send" /\ pc'[w] = "walk" /\ \A v \in Workers \ {w} : pc'[v] = pc[v]
      /\ \A v \in Workers \ {w} : sending'[v] = sending[v]
      /\ channel' = Append(channel, sending[w])
  BY <1>2 DEF PQ!PushSend, PQ!Goto
<1>5. Waits(sending[w]) BY <1>4 DEF Waits
<1>6. sending[w] \in SpecSet BY <1>2, <1>5
<1>7. \A k \in DOMAIN channel' : channel'[k] = sending[w] \/ (k \in DOMAIN channel /\ channel'[k] = channel[k])
  <2>1. /\ channel' \in Seq(SpecSet) /\ Len(channel') = Len(channel) + 1
        /\ \A k \in 1 .. Len(channel) : channel'[k] = channel[k]
        /\ channel'[Len(channel) + 1] = sending[w]
    BY <1>2, <1>4, <1>6, AppendProperties
  <2>2. Len(channel) \in Nat /\ DOMAIN channel = 1 .. Len(channel) BY <1>2, LenProperties
  <2>3. DOMAIN channel' = 1 .. (Len(channel) + 1) BY <2>1, LenProperties
  <2>4. \A k \in 1 .. (Len(channel) + 1) : k = Len(channel) + 1 \/ k \in 1 .. Len(channel) BY <2>2
  <2> QED BY <2>1, <2>2, <2>3, <2>4
<1>8. \A s : Waits(s)' => Waits(s) BY <1>4, <1>5, <1>7 DEF Waits
<1>9. AtWork(w) /\ pc'[w] \in {"walk", "send"} BY <1>4 DEF AtWork
<1> QED BY <1>1, <1>3, <1>4, <1>8, <1>9, NoPushInv

------------------------------------------------------------------------------
(* Steps that push *)

\* push, its first half, of the next child of the worker's spec.
LEMMA PushInv ==
    ASSUME ParInv, NEW w \in Workers, NEW spec \in SpecSet, PQ!PushCount(w, spec), faults' = faults,
           NEW n \in Nat, Fresh(issued, item[w].index_path, n),
           spec.index_path = Adding(item[w].index_path, n),
           DOMAIN task' = Workers, \A v \in Workers \ {w} : task'[v] = task[v], IsTask(task'[w]),
           Fresh(issued', item[w].index_path, n + 1) => Underway(issued', item[w], task'[w])
    PROVE  ParInv' /\ PQ!Next
<1> DEFINE p == item[w]
<1>1. /\ pc \in [Workers -> {"stop", "drain", "pop", "load", "wait", "lock", "walk", "send", "exit"}]
      /\ sending \in [Workers -> SpecSet \cup {NoSpec}]
      /\ \A s : Waits(s) => s \in issued
      /\ \A v \in Workers : AtWork(v) => item[v] \in issued /\ ~Waits(item[v])
      /\ \A v, u \in Workers : AtWork(v) /\ AtWork(u) /\ v # u => item[v] # item[u]
  BY QueueFacts DEF ParInv
<1>2. /\ issued' = issued \cup {spec} /\ item' = item
      /\ channel' = channel /\ receive_buffer' = receive_buffer
      /\ pc[w] = "walk" /\ pc'[w] = "send" /\ \A v \in Workers \ {w} : pc'[v] = pc[v]
      /\ sending'[w] = spec /\ \A v \in Workers \ {w} : sending'[v] = sending[v]
  BY <1>1 DEF PQ!PushCount, PQ!Goto
<1>3. AtWork(w) /\ AtWork(w)' BY <1>2 DEF AtWork
<1>4. \A v \in Workers \ {w} : AtWork(v)' <=> AtWork(v) BY <1>2 DEF AtWork
<1>5. p \in issued BY <1>1, <1>3
<1>6. /\ spec \notin issued
      /\ Tree(issued') /\ Unique(issued')
      /\ Fresh(issued', p.index_path, n + 1)
      /\ Fresh(issued', spec.index_path, 0)
      /\ \A q \in issued : \A k :
            q # p /\ Fresh(issued, q.index_path, k) => Fresh(issued', q.index_path, k)
  <2>1. Tree(issued) /\ Unique(issued) BY DEF ParInv, PathsInv
  <2> HIDE DEF p
  <2>2. Fresh(issued, p.index_path, n) /\ spec.index_path = Adding(p.index_path, n) BY DEF p
  <2>3. /\ spec \notin issued
        /\ Tree(issued \cup {spec}) /\ Unique(issued \cup {spec})
        /\ Fresh(issued \cup {spec}, p.index_path, n + 1)
        /\ Fresh(issued \cup {spec}, spec.index_path, 0)
        /\ \A q \in issued : \A k :
              q # p /\ Fresh(issued, q.index_path, k) => Fresh(issued \cup {spec}, q.index_path, k)
    BY <1>5, <2>1, <2>2, FreshChild
  <2> QED BY <1>2, <2>3
<1>7. PQ!Next BY <1>6 DEF PQ!Next, PQ!Handle
<1>8. Q!IInv' BY <1>7, QueueStep DEF ParInv
<1>9. PathsInv'
  <2>1. \A s : Waits(s)' => Waits(s) \/ s = spec BY <1>2 DEF Waits
  <2>2. ASSUME NEW s \in issued', Waits(s)' PROVE Fresh(issued', s.index_path, 0)
    <3>1. CASE s = spec BY <1>6, <3>1
    <3>2. CASE Waits(s)
      <4>1. s \in issued /\ s # p BY <1>1, <1>3, <3>2
      <4> QED BY <1>6, <3>2, <4>1 DEF ParInv, PathsInv
    <3> QED BY <2>1, <2>2, <3>1, <3>2
  <2> QED BY <1>6, <2>2 DEF PathsInv
<1>10. ASSUME NEW v \in Workers
       PROVE  /\ IsTask(task'[v])
              /\ AtWork(v)' => Underway(issued', item'[v], task'[v])
              /\ ~AtWork(v)' => task'[v] = NoTask
  <2>1. CASE v = w BY <1>2, <1>3, <1>6, <2>1
  <2>2. CASE v # w
    <3>1. /\ IsTask(task[v])
          /\ AtWork(v) => Underway(issued, item[v], task[v])
          /\ ~AtWork(v) => task[v] = NoTask
          /\ task'[v] = task[v] /\ item'[v] = item[v]
      BY <1>2, <2>2 DEF ParInv, TasksInv
    <3>2. ASSUME AtWork(v) PROVE Underway(issued', item[v], task[v])
      <4>1. item[v] \in issued /\ item[v] # p BY <1>1, <1>3, <2>2, <3>2
      <4>2. \A k : Fresh(issued, item[v].index_path, k) => Fresh(issued', item[v].index_path, k)
        BY <1>6, <4>1
      <4> QED BY <3>1, <3>2, <4>2 DEF Underway
    <3> QED BY <1>4, <2>2, <3>1, <3>2
  <2> QED BY <2>1, <2>2
<1>11. TasksInv' BY <1>10 DEF TasksInv
<1> QED BY <1>7, <1>8, <1>9, <1>11 DEF ParInv

LEMMA StreamChildInv ==
    ASSUME ParInv, NEW w \in Workers, StreamChild(w)
    PROVE  ParInv' /\ PQ!Next
<1> DEFINE p == item[w]
           n == task[w].streamed
           limit == StreamLimit(p.value.dir, DirFault(w))
           spec == StreamedChild(p, n)
<1>1. AtWork(w) /\ task[w].stage = "stream" BY DEF StreamChild, Walking, AtWork
<1>2. /\ n < limit /\ PQ!PushCount(w, spec) /\ faults' = faults
      /\ task' = [task EXCEPT ![w].streamed = n + 1]
  BY DEF StreamChild, config
<1>3. /\ n \in Nat /\ ~TooDeep(Depth(p)) /\ Fresh(issued, p.index_path, n)
      /\ DOMAIN task = Workers /\ IsTask(task[w])
  BY <1>1 DEF ParInv, TasksInv, Underway, NoTask
<1>4. p.value.dir \in Dirs /\ PushedFrom(p, DirFault(w)) \subseteq SpecSet BY <1>1, ReadsDirectory
<1>5. limit \in Nat BY <1>4, StreamLimitNat
<1>6. n \in (0 .. limit) \ {limit} BY <1>2, <1>3, <1>5
<1>7. spec.index_path = Adding(p.index_path, n) BY DEF StreamedChild, Weighted
<1> HIDE DEF n
<1>8. spec \in PushedFrom(p, DirFault(w)) BY <1>3, <1>6 DEF PushedFrom
<1>9. spec \in SpecSet BY <1>4, <1>8
<1> HIDE DEF spec
<1>10. /\ DOMAIN task' = Workers /\ \A v \in Workers \ {w} : task'[v] = task[v]
       /\ task'[w] = [stage |-> "stream", streamed |-> n + 1, result |-> task[w].result,
                      todo |-> task[w].todo]
  BY <1>1, <1>2, <1>3 DEF IsTask
<1>11. task'[w].stage = "stream" /\ task'[w].streamed = n + 1 /\ IsTask(task'[w]) BY <1>10 DEF IsTask
<1>12. n + 1 \in Nat BY <1>3
<1>13. Fresh(issued', p.index_path, n + 1) => Underway(issued', p, task'[w])
  BY <1>3, <1>11, <1>12 DEF Underway
<1> QED BY <1>2, <1>3, <1>7, <1>9, <1>10, <1>11, <1>13, PushInv

LEMMA ScheduleChildInv ==
    ASSUME ParInv, NEW w \in Workers, ScheduleChild(w)
    PROVE  ParInv' /\ PQ!Next
<1> DEFINE p == item[w]
           todo == task[w].todo
           spec == Head(todo)
<1>1. AtWork(w) /\ task[w].stage = "schedule" BY DEF ScheduleChild, Walking, AtWork
<1>2. /\ todo # <<>> /\ PQ!PushCount(w, spec) /\ faults' = faults
      /\ task' = [task EXCEPT ![w].todo = Tail(todo)]
  BY DEF ScheduleChild, config
<1>3. /\ todo \in Seq(SpecSet) /\ DOMAIN task = Workers /\ IsTask(task[w])
      /\ \E m \in Nat : /\ Fresh(issued, p.index_path, m)
                        /\ \A k \in DOMAIN todo : todo[k].index_path = Adding(p.index_path, (m + k) - 1)
  BY <1>1 DEF ParInv, TasksInv, Underway, NoTask
<1>4. PICK m \in Nat : /\ Fresh(issued, p.index_path, m)
                       /\ \A k \in DOMAIN todo : todo[k].index_path = Adding(p.index_path, (m + k) - 1)
  BY <1>3
<1>5. /\ DOMAIN task' = Workers /\ \A v \in Workers \ {w} : task'[v] = task[v]
      /\ task'[w] = [stage |-> "schedule", streamed |-> task[w].streamed, result |-> task[w].result,
                     todo |-> Tail(todo)]
  BY <1>1, <1>2, <1>3 DEF IsTask
<1>6. task'[w].stage = "schedule" /\ task'[w].todo = Tail(todo) /\ IsTask(task'[w]) BY <1>5 DEF IsTask
<1> HIDE DEF todo
<1>7. /\ Len(todo) \in Nat \ {0} /\ DOMAIN todo = 1 .. Len(todo)
      /\ Head(todo) = todo[1] /\ Head(todo) \in SpecSet
      /\ Tail(todo) \in Seq(SpecSet) /\ Len(Tail(todo)) = Len(todo) - 1
      /\ \A k \in 1 .. (Len(todo) - 1) : Tail(todo)[k] = todo[k + 1]
  BY <1>2, <1>3, EmptySeq, LenProperties, HeadTailProperties
<1>8. DOMAIN Tail(todo) = 1 .. (Len(todo) - 1) BY <1>7, LenProperties
<1>9. spec.index_path = Adding(p.index_path, m)
  <2>1. 1 \in DOMAIN todo /\ (m + 1) - 1 = m BY <1>7
  <2>2. todo[1].index_path = Adding(p.index_path, (m + 1) - 1) BY <1>4, <2>1
  <2> QED BY <1>7, <2>1, <2>2
<1>10. \A k \in DOMAIN Tail(todo) : Tail(todo)[k].index_path = Adding(p.index_path, ((m + 1) + k) - 1)
  <2>1. \A k \in 1 .. (Len(todo) - 1) : k + 1 \in DOMAIN todo /\ (m + (k + 1)) - 1 = ((m + 1) + k) - 1
    BY <1>7
  <2> QED BY <1>4, <1>7, <1>8, <2>1
<1>11. m + 1 \in Nat OBVIOUS
<1>12. Fresh(issued', p.index_path, m + 1) => Underway(issued', p, task'[w])
  BY <1>6, <1>7, <1>10, <1>11 DEF Underway
<1>13. spec \in SpecSet BY <1>7
<1> QED BY <1>2, <1>4, <1>5, <1>6, <1>9, <1>12, <1>13, PushInv

------------------------------------------------------------------------------
(* The theorems *)

\* The stop flag goes up: nothing moves.
LEMMA SetStopInv ==
    ASSUME ParInv, PQ!SetStop, UNCHANGED <<faults, task>>
    PROVE  ParInv' /\ PQ!Next
<1>1. PQ!Next BY DEF PQ!Next
<1>2. Q!IInv' BY <1>1, QueueStep DEF ParInv
<1>3. /\ issued' = issued /\ item' = item /\ pc' = pc /\ channel' = channel
      /\ receive_buffer' = receive_buffer /\ sending' = sending
  BY DEF PQ!SetStop
<1>4. (\A s : Waits(s)' <=> Waits(s)) /\ \A w \in Workers : AtWork(w)' <=> AtWork(w)
  BY <1>3 DEF Waits, AtWork
<1>5. PathsInv' BY <1>3, <1>4 DEF ParInv, PathsInv
<1>6. TasksInv' BY <1>3, <1>4 DEF ParInv, TasksInv
<1> QED BY <1>1, <1>2, <1>5, <1>6 DEF ParInv

\* Every step of a worker keeps the invariant and is a step of the queue, or
\* leaves the queue alone.
LEMMA WorkerInv ==
    ASSUME ParInv, NEW w \in Workers, Worker(w)
    PROVE  ParInv' /\ (PQ!Next \/ UNCHANGED PQ!vars)
<1>1. CASE Queue(w)
  <2>1. UNCHANGED <<faults, task>> BY <1>1 DEF Queue, config
  <2>2. PQ!TakeNext(w) \/ PQ!PushSend(w) BY <1>1 DEF Queue
  <2> QED BY <2>1, <2>2, TakeNextInv, PushSendInv
<1>2. CASE Stopped(w) BY <1>2, StoppedInv
<1>3. CASE StartRead(w) BY <1>3, StartReadInv
<1>4. CASE StreamChild(w) BY <1>4, StreamChildInv
<1>5. CASE EndStream(w) BY <1>5, EndStreamInv
<1>6. CASE SendResult(w) BY <1>6, SendResultInv
<1>7. CASE ScheduleChild(w) BY <1>7, ScheduleChildInv
<1>8. CASE Finish(w) BY <1>8, FinishInv
<1> QED BY <1>1, <1>2, <1>3, <1>4, <1>5, <1>6, <1>7, <1>8 DEF Worker

\* The startup, the last worker and the caller, unless they set stop.
Aside ==
    \/ StartJob \/ AwaitStart \/ CloseStartup \/ Refuse
    \/ LastWorker \/ Consumer \/ DropReceiver \/ Terminated

LEMMA AsideAlone == Aside => UNCHANGED <<specVars, stop, task, faults>>
<1>1. StartJob \/ AwaitStart \/ CloseStartup \/ Refuse => UNCHANGED <<specVars, stop, task, faults>>
  BY DEF StartJob, AwaitStart, CloseStartup, Refuse, config
<1>2. LastWorker \/ DropReceiver => UNCHANGED <<specVars, stop, task, faults>>
  BY DEF LastWorker, DropReceiver, OQ!DropSenders, config
<1>3. Terminated => UNCHANGED <<specVars, stop, task, faults>> BY DEF Terminated, parVars, config
<1>4. LocalTurn \/ RefusedTurn \/ GetNone => UNCHANGED <<specVars, stop, task, faults>>
  BY DEF LocalTurn, RefusedTurn, GetNone, config
<1>5. WaitForResult => UNCHANGED <<specVars, stop, task, faults>>
  BY DEF WaitForResult, config, OQ!CallNext, OQ!StartTry, OQ!DrainResult, OQ!NoMatch,
         OQ!WaitResult, OQ!NothingRests
<1>6. ASSUME NEW result, GetResult(result) PROVE UNCHANGED <<specVars, stop, task, faults>>
  BY <1>6 DEF GetResult, config, OQ!ReturnMatch, OQ!ReturnRest
<1> QED BY <1>1, <1>2, <1>3, <1>4, <1>5, <1>6 DEF Aside, Consumer

LEMMA ParStep ==
    ASSUME ParInv, [ParNext]_parVars
    PROVE  ParInv' /\ (PQ!Next \/ UNCHANGED PQ!vars)
<1>1. CASE UNCHANGED <<specVars, stop, task, faults>>
  <2>1. UNCHANGED <<specVars, stop>> BY <1>1
  <2> QED BY <1>1, <2>1, OthersStep, QueueAlone
<1>2. CASE Aside BY <1>1, <1>2, AsideAlone
<1>3. CASE UNCHANGED parVars BY <1>1, <1>3 DEF parVars, config
<1>4. CASE StopJob \/ DropIter
  <2>1. PQ!SetStop /\ UNCHANGED <<faults, task>> BY <1>4 DEF StopJob, DropIter, config
  <2> QED BY <2>1, SetStopInv
<1>5. ASSUME NEW w \in Workers, Worker(w) PROVE ParInv' /\ (PQ!Next \/ UNCHANGED PQ!vars)
  BY <1>5, WorkerInv
<1> QED BY <1>2, <1>3, <1>4, <1>5 DEF ParNext, TryNew, Aside

LEMMA ParInvariance == Par => []ParInv
<1>1. ParInv /\ [ParNext]_parVars => ParInv' BY ParStep
<1> QED BY <1>1, ParInitInv, PTL DEF Par

\* On every path through multi_threaded_walk_dir a worker counts, pushes and
\* completes as PriorityQueue says, and never pushes a spec that was pushed
\* before.
THEOREM ParUsesQueue == Par => UsesQueue
<1>1. ParInit => PQ!Init BY DEF ParInit
<1>2. ParInv /\ [ParNext]_parVars => [PQ!Next]_(PQ!vars) BY ParStep
<1> QED BY <1>1, <1>2, ParInvariance, PTL DEF Par, UsesQueue, PQ!Spec

\* No two directories get the same index path, however their parents are
\* read: streaming, after the result, cut short by stop or by an error.
THEOREM PathsAreOwn == Par => []OwnPaths
<1>1. ParInv => OwnPaths BY DEF ParInv, PathsInv, Unique, OwnPaths
<1> QED BY <1>1, ParInvariance, PTL

\* In the walk, no worker ends while a directory is still to be read, unless
\* it is stopped (the early-exit race that pending_count is there to prevent).
THEOREM WalkNeverEndsEarly == Par => []PQ!NoEarlyEnd
<1>1. Q!IInv => Q!NoEarlyEnd
  BY QueueAssumption, Q!ZeroIsIdle DEF Q!PQAssumption, Q!NoEarlyEnd, Q!IInv, Q!EndedAtZero
<1>2. Q!NoEarlyEnd => PQ!NoEarlyEnd BY DEF Q!NoEarlyEnd, PQ!NoEarlyEnd, Q!Busy, PQ!Busy
<1>3. ParInv => PQ!NoEarlyEnd BY <1>1, <1>2 DEF ParInv
<1> QED BY <1>3, ParInvariance, PTL

------------------------------------------------------------------------------
(* No directory twice *)

\* An entry of d leads to e.
Way(d, e) == \E n \in DOMAIN Listing[d] : GoesInto(Listing[d][n]) /\ Listing[d][n].dir = e

(***************************************************************************)
(* One entry at most leads to a directory, and none to the root.  This is  *)
(* so in every file system as long as no link to a directory is followed   *)
(* or, on Windows, streamed: directories have no second hard link.         *)
(***************************************************************************)
OneWayIn ==
    /\ \A d, e \in Dirs : \A n \in DOMAIN Listing[d], m \in DOMAIN Listing[e] :
          GoesInto(Listing[d][n]) /\ GoesInto(Listing[e][m]) /\ Listing[d][n].dir = Listing[e][m].dir
             => d = e /\ n = m
    /\ \A d \in Dirs : ~Way(d, RootEntry.dir)

\* Where the specs come from: each from an entry of the directory of another.
Origins(specs) ==
    \A s \in specs :
        \/ s.value.dir = RootEntry.dir
        \/ \E t \in specs : \E n \in Nat : /\ s.index_path = Adding(t.index_path, n)
                                           /\ Way(t.value.dir, s.value.dir)

OneEach(specs) == \A s, t \in specs : s.value.dir = t.value.dir => s = t

\* s is a child of p, other than the directories in todo.
ChildApart(s, p, todo) ==
    (\E n \in Nat : s.index_path = Adding(p.index_path, n)) =>
        \A i \in DOMAIN todo : s.value.dir # todo[i].value.dir

\* The children a worker gave the spec p, and those it still has for it.
Provided(specs, p, t) ==
    /\ t.stage = "stream" =>
          \A s \in specs : \A n \in Nat :
              s.index_path = Adding(p.index_path, n) =>
                 s.value.dir = StreamedDirs(p.value.dir)[n + 1].dir
    /\ t.stage \in {"result", "schedule"} =>
          /\ \A i \in DOMAIN t.todo : Way(p.value.dir, t.todo[i].value.dir)
          /\ \A i, j \in DOMAIN t.todo : t.todo[i].value.dir = t.todo[j].value.dir => i = j
          /\ \A s \in specs : ChildApart(s, p, t.todo)

(***************************************************************************)
(* That no directory is pushed twice is inductive together with where the  *)
(* specs come from, so that a second spec for a directory would have the   *)
(* same parent, and what each worker has given out and has left to give.   *)
(***************************************************************************)
OnceInv ==
    /\ Origins(issued)
    /\ OneEach(issued)
    /\ \A w \in Workers : AtWork(w) => Provided(issued, item[w], task[w])

LEMMA OnceInit == ParInit => OnceInv
<1> SUFFICES ASSUME ParInit PROVE OnceInv OBVIOUS
<1> DEFINE roots == IF ReadsChildren(RootDirEntry) THEN <<RootSpec>> ELSE <<>>
<1>1. issued = {roots[k] : k \in DOMAIN roots} /\ pc = [w \in Workers |-> "lock"]
  BY DEF ParInit, PQ!Init
<1>2. \A s \in issued : s = RootSpec
  <2>1. ReadsChildren(RootDirEntry) => roots = <<RootSpec>> OBVIOUS
  <2>2. ~ReadsChildren(RootDirEntry) => roots = <<>> OBVIOUS
  <2> HIDE DEF roots
  <2> QED BY <1>1, <2>1, <2>2
<1>3. RootSpec.value.dir = RootEntry.dir
  BY RootFacts DEF RootSpec, Weighted, ReadDirSpec
<1>4. Origins(issued) BY <1>2, <1>3 DEF Origins
<1>5. OneEach(issued) BY <1>2 DEF OneEach
<1> QED BY <1>1, <1>4, <1>5 DEF OnceInv, AtWork

LEMMA NothingProvided == \A specs, p : Provided(specs, p, NoTask)
BY DEF Provided, NoTask

\* Steps that push nothing: a worker goes on as it was, or its task provides.
LEMMA OnceAlone ==
    ASSUME OnceInv, issued' = issued,
           \A v \in Workers : AtWork(v)' => \/ AtWork(v) /\ item'[v] = item[v] /\ task'[v] = task[v]
                                            \/ Provided(issued, item'[v], task'[v])
    PROVE  OnceInv'
<1>1. Origins(issued') /\ OneEach(issued') BY DEF OnceInv
<1>2. \A v \in Workers : AtWork(v)' => Provided(issued', item'[v], task'[v]) BY DEF OnceInv
<1> QED BY <1>1, <1>2 DEF OnceInv

\* A push: the directory has no spec yet, because its spec would be another
\* child of the same parent.
LEMMA OncePush ==
    ASSUME OneWayIn, ParInv, OnceInv, NEW w \in Workers, AtWork(w),
           NEW c \in SpecSet, issued' = issued \cup {c}, item' = item,
           NEW n \in Nat, c.index_path = Adding(item[w].index_path, n),
           Way(item[w].value.dir, c.value.dir),
           \A s \in issued : \A m \in Nat :
              s.index_path = Adding(item[w].index_path, m) => s.value.dir # c.value.dir,
           \A v \in Workers \ {w} : (AtWork(v)' <=> AtWork(v)) /\ task'[v] = task[v],
           Provided(issued', item[w], task'[w])
    PROVE  OnceInv'
<1> DEFINE p == item[w]
<1>1. /\ \A v \in Workers : AtWork(v) => item[v] \in issued
      /\ \A v, u \in Workers : AtWork(v) /\ AtWork(u) /\ v # u => item[v] # item[u]
      /\ issued \subseteq SpecSet
  BY QueueFacts DEF ParInv
<1>2. \A s \in SpecSet : s.value.dir \in Dirs BY ParAssumption DEF ParInv
<1>3. p \in issued /\ Tree(issued) /\ Unique(issued) BY <1>1 DEF ParInv, PathsInv
<1>4. ASSUME NEW t \in issued PROVE t.value.dir # c.value.dir
  <2>1. CASE t.value.dir = RootEntry.dir BY <1>1, <1>2, <1>3, <2>1 DEF OneWayIn
  <2>2. ASSUME NEW q \in issued, NEW m \in Nat, t.index_path = Adding(q.index_path, m),
               Way(q.value.dir, t.value.dir), t.value.dir = c.value.dir
        PROVE  FALSE
    <3>1. q.value.dir \in Dirs /\ p.value.dir \in Dirs BY <1>1, <1>2, <1>3
    <3>2. q.value.dir = p.value.dir BY <2>2, <3>1 DEF OneWayIn, Way
    <3>3. q = p BY <1>3, <3>2 DEF OnceInv, OneEach
    <3> QED BY <2>2, <3>3
  <2> QED BY <2>1, <2>2 DEF OnceInv, Origins
<1>5. OneEach(issued') BY <1>4 DEF OnceInv, OneEach
<1>6. Origins(issued') BY <1>3 DEF OnceInv, Origins
<1>7. \A a, b \in Seq(Nat) : \A i, j \in Nat : Adding(a, i) = Adding(b, j) => a = b
  BY AppendInjective DEF Adding
<1>8. \A s \in issued : s.index_path \in Seq(Nat) BY <1>3 DEF Tree, Paths
<1>9. ASSUME NEW v \in Workers, v # w, AtWork(v) PROVE Provided(issued', item[v], task[v])
  <2> DEFINE q == item[v]
             t == task[v]
  <2>1. q \in issued /\ q # p BY <1>1, <1>9
  <2>2. q.index_path # p.index_path BY <1>3, <2>1 DEF Unique
  <2>3. \A m \in Nat : c.index_path # Adding(q.index_path, m) BY <1>3, <1>7, <1>8, <2>1, <2>2
  <2>4. Provided(issued, q, t) BY <1>9 DEF OnceInv
  <2> HIDE DEF q, t
  <2>5. ChildApart(c, q, t.todo) BY <2>3 DEF ChildApart
  <2>6. Provided(issued', q, t) BY <2>3, <2>4, <2>5 DEF Provided
  <2> QED BY <2>6 DEF q, t
<1>10. \A v \in Workers : AtWork(v)' => Provided(issued', item'[v], task'[v]) BY <1>9
<1> QED BY <1>5, <1>6, <1>10 DEF OnceInv

\* What HaveResult has to schedule, of a spec that has no child yet or if
\* nothing is left to schedule.
LEMMA OnceResult ==
    ASSUME OneWayIn, ParInv, NEW w \in Workers, AtWork(w), NEW result, HaveResult(w, result),
           NEW n \in Nat, Fresh(issued, item[w].index_path, n), n > 0 => result.streamed = n,
           Sound(result.list), LeadsAs(result.list, item[w].value.dir)
    PROVE  /\ Provided(issued, item[w], task'[w])
           /\ \A v \in Workers \ {w} : task'[v] = task[v]
<1> DEFINE p == item[w]
           d == p.value.dir
           todo == IF result.ok /\ result.streamed = 0 THEN WeightedChildren(result.list, p) ELSE <<>>
<1>1. DOMAIN task = Workers /\ IsTask(task[w]) BY DEF ParInv, TasksInv
<1>2. /\ \A v \in Workers \ {w} : task'[v] = task[v]
      /\ task'[w] = [stage |-> "result", streamed |-> task[w].streamed, result |-> result, todo |-> todo]
  BY <1>1 DEF HaveResult, IsTask
<1>3. task'[w].stage = "result" /\ task'[w].todo = todo BY <1>2
<1>4. d \in Dirs BY ReadsDirectory
<1>5. CASE result.ok /\ result.streamed = 0
  <2>1. n = 0 BY <1>5
  <2>2. todo = WeightedChildren(result.list, p) BY <1>5
  <2> HIDE DEF todo, d, p
  <2>3. PICK place \in [DOMAIN todo -> DOMAIN Listing[d]] :
           /\ \A i \in DOMAIN todo : /\ GoesInto(Listing[d][place[i]])
                                     /\ todo[i].value.dir = Listing[d][place[i]].dir
           /\ \A i, j \in DOMAIN todo : place[i] = place[j] => i = j
    BY <2>2, ChildrenLead DEF d, p
  <2>4. \A i \in DOMAIN todo : place[i] \in DOMAIN Listing[d] BY <2>3
  <2>5. \A i \in DOMAIN todo : Way(d, todo[i].value.dir) BY <2>3, <2>4 DEF Way
  <2>6. \A i, j \in DOMAIN todo : todo[i].value.dir = todo[j].value.dir => i = j
    BY <1>4, <2>3, <2>4 DEF OneWayIn
  <2>7. \A s \in issued : ChildApart(s, p, todo) BY <2>1 DEF ChildApart, Fresh, p
  <2>8. Provided(issued, p, task'[w]) BY <1>3, <2>5, <2>6, <2>7 DEF Provided, d
  <2> QED BY <1>2, <2>8 DEF p
<1>6. CASE ~(result.ok /\ result.streamed = 0)
  <2>1. DOMAIN todo = {} BY <1>6
  <2> HIDE DEF todo
  <2>2. Provided(issued, p, task'[w]) BY <1>3, <2>1 DEF Provided, ChildApart
  <2> QED BY <1>2, <2>2
<1> QED BY <1>5, <1>6

\* The entries of a directory are below the root.
LEMMA Below ==
    ASSUME ParInv, NEW w \in Workers, AtWork(w)
    PROVE  Depth(item[w]) + 1 # 0
<1> DEFINE path == item[w].index_path
<1>1. item[w] \in issued /\ Tree(issued) BY QueueFacts DEF ParInv, PathsInv
<1>2. path \in Seq(Nat) BY <1>1 DEF Tree, Paths
<1>3. path # <<>>
  <2>1. CASE path = <<0>> BY <2>1
  <2>2. ASSUME NEW t \in issued, NEW n \in Nat, path = Adding(t.index_path, n) PROVE path # <<>>
    <3>1. t.index_path \in Seq(Nat) BY <1>1 DEF Tree, Paths
    <3>2. Append(t.index_path, n) # <<>> BY <3>1, AppendProperties
    <3> HIDE DEF path
    <3> QED BY <2>2, <3>2 DEF Adding
  <2> QED BY <1>1, <2>1, <2>2 DEF Tree
<1>4. Len(path) \in Nat /\ Len(path) # 0 BY <1>2, <1>3, EmptySeq
<1> QED BY <1>4 DEF Depth

LEMMA OnceStartRead ==
    ASSUME OneWayIn, ParInv, OnceInv, NEW w \in Workers, StartRead(w)
    PROVE  OnceInv'
<1> DEFINE p == item[w]
           result == CoreReadDir(p.value, Depth(p), DirFault(w))
<1>1. AtWork(w) /\ task[w].stage = "start" BY DEF StartRead, Walking, AtWork
<1>2. /\ UNCHANGED <<specVars, stop>>
      /\ \/ task' = [task EXCEPT ![w].stage = "stream"]
         \/ HaveResult(w, result)
  BY DEF StartRead
<1>3. DOMAIN task = Workers /\ task[w] = NoTask /\ Fresh(issued, p.index_path, 0)
  BY <1>1 DEF ParInv, TasksInv, Underway
<1>4. issued' = issued /\ item' = item /\ \A v \in Workers : AtWork(v)' <=> AtWork(v)
  BY <1>2, QueueAlone
<1>5. CASE task' = [task EXCEPT ![w].stage = "stream"]
  <2>1. /\ \A v \in Workers \ {w} : task'[v] = task[v]
        /\ task'[w].stage = "stream"
    BY <1>3, <1>5 DEF NoTask
  <2>2. \A s \in issued : \A n \in Nat : s.index_path # Adding(p.index_path, n)
    <3>1. \A n \in Nat : n >= 0 OBVIOUS
    <3> QED BY <1>3, <3>1 DEF Fresh
  <2>3. Provided(issued, p, task'[w]) BY <2>1, <2>2 DEF Provided
  <2> QED BY <1>4, <2>1, <2>3, OnceAlone
<1>6. CASE HaveResult(w, result)
  <2>1. p.value.dir \in Dirs /\ MayBefall(DirFault(w), p.value.dir) BY <1>1, ReadsDirectory
  <2>2. Sound(result.list) BY <2>1, ReadSound
  <2>3. LeadsAs(result.list, p.value.dir) BY <1>1, <2>1, Below, ReadLeads
  <2>4. 0 \in Nat /\ ~(0 > 0) OBVIOUS
  <2> HIDE DEF result
  <2>5. Provided(issued, p, task'[w]) /\ \A v \in Workers \ {w} : task'[v] = task[v]
    BY <1>1, <1>3, <1>6, <2>2, <2>3, <2>4, OnceResult
  <2> QED BY <1>4, <2>5, OnceAlone
<1> QED BY <1>2, <1>5, <1>6

LEMMA OnceEndStream ==
    ASSUME OneWayIn, ParInv, OnceInv, NEW w \in Workers, EndStream(w)
    PROVE  OnceInv'
<1> DEFINE p == item[w]
           n == task[w].streamed
           result == StreamingRead(p, DirFault(w), n)
<1>1. AtWork(w) /\ task[w].stage = "stream" BY DEF EndStream, Walking, AtWork
<1>2. UNCHANGED <<specVars, stop>> /\ HaveResult(w, result) BY DEF EndStream
<1>3. n \in Nat /\ Fresh(issued, p.index_path, n) BY <1>1 DEF ParInv, TasksInv, Underway, NoTask
<1>4. issued' = issued /\ item' = item /\ \A v \in Workers : AtWork(v)' <=> AtWork(v)
  BY <1>2, QueueAlone
<1>5. p.value.dir \in Dirs /\ MayBefall(DirFault(w), p.value.dir) BY <1>1, ReadsDirectory
<1> HIDE DEF n
<1>6. Sound(result.list) /\ (n > 0 => result.streamed = n) BY <1>5, StreamingSound
<1>7. LeadsAs(result.list, p.value.dir) BY <1>1, <1>5, Below, StreamingLeads
<1> HIDE DEF result
<1>8. Provided(issued, p, task'[w]) /\ \A v \in Workers \ {w} : task'[v] = task[v]
  BY <1>1, <1>2, <1>3, <1>6, <1>7, OnceResult
<1> QED BY <1>4, <1>8, OnceAlone

LEMMA OnceSendResult ==
    ASSUME ParInv, OnceInv, NEW w \in Workers, SendResult(w)
    PROVE  OnceInv'
<1> DEFINE p == item[w]
           t == task[w]
<1>1. AtWork(w) /\ t.stage = "result" BY DEF SendResult, Walking, AtWork
<1>2. UNCHANGED <<specVars, stop>> BY DEF SendResult, OQ!SendResult
<1>3. \/ task' = [task EXCEPT ![w].stage = "schedule"]
      \/ task' = [task EXCEPT ![w].stage = "schedule", ![w].todo = <<>>]
  BY DEF SendResult
<1>4. DOMAIN task = Workers /\ IsTask(t) BY DEF ParInv, TasksInv
<1>5. Provided(issued, p, t) BY <1>1 DEF OnceInv
<1>6. issued' = issued /\ item' = item /\ \A v \in Workers : AtWork(v)' <=> AtWork(v)
  BY <1>2, QueueAlone
<1>7. /\ \A v \in Workers \ {w} : task'[v] = task[v]
      /\ task'[w].stage = "schedule" /\ (task'[w].todo = t.todo \/ task'[w].todo = <<>>)
  BY <1>3, <1>4 DEF IsTask
<1>8. Provided(issued, p, task'[w])
  <2>1. CASE task'[w].todo = t.todo BY <1>1, <1>5, <1>7, <2>1 DEF Provided
  <2>2. CASE task'[w].todo = <<>>
    <3>1. DOMAIN task'[w].todo = {} BY <2>2
    <3> QED BY <1>7, <3>1 DEF Provided, ChildApart
  <2> QED BY <1>7, <2>1, <2>2
<1> QED BY <1>6, <1>7, <1>8, OnceAlone

\* What a push does to the queue.
LEMMA PushFacts ==
    ASSUME ParInv, NEW w \in Workers, NEW c, PQ!PushCount(w, c)
    PROVE  /\ issued' = issued \cup {c} /\ item' = item
           /\ \A v \in Workers \ {w} : AtWork(v)' <=> AtWork(v)
<1>1. pc \in [Workers -> {"stop", "drain", "pop", "load", "wait", "lock", "walk", "send", "exit"}]
  BY QueueFacts DEF ParInv
<1>2. issued' = issued \cup {c} /\ item' = item /\ \A v \in Workers \ {w} : pc'[v] = pc[v]
  BY <1>1 DEF PQ!PushCount, PQ!Goto
<1> QED BY <1>2 DEF AtWork

LEMMA OnceStreamChild ==
    ASSUME OneWayIn, ParInv, OnceInv, NEW w \in Workers, StreamChild(w)
    PROVE  OnceInv'
<1> DEFINE p == item[w]
           d == p.value.dir
           n == task[w].streamed
           c == StreamedChild(p, n)
<1>1. AtWork(w) /\ task[w].stage = "stream" BY DEF StreamChild, Walking, AtWork
<1>2. /\ n < StreamLimit(d, DirFault(w)) /\ PQ!PushCount(w, c)
      /\ task' = [task EXCEPT ![w].streamed = n + 1]
  BY DEF StreamChild
<1>3. /\ n \in Nat /\ ~TooDeep(Depth(p)) /\ Fresh(issued, p.index_path, n)
      /\ DOMAIN task = Workers /\ IsTask(task[w])
  BY <1>1 DEF ParInv, TasksInv, Underway, NoTask
<1>4. d \in Dirs /\ PushedFrom(p, DirFault(w)) \subseteq SpecSet /\ p \in issued BY <1>1, ReadsDirectory
<1>5. c.index_path = Adding(p.index_path, n) /\ c.value.dir = StreamedDirs(d)[n + 1].dir
  BY DEF StreamedChild, Weighted, ReadDirSpec, AtDepth
<1>6. Provided(issued, p, task[w]) BY <1>1 DEF OnceInv
<1>7. \A s \in issued : \A m \in Nat :
         s.index_path = Adding(p.index_path, m) => m < n /\ s.value.dir = StreamedDirs(d)[m + 1].dir
  BY <1>1, <1>3, <1>6 DEF Provided, Fresh
<1>8. StreamLimit(d, DirFault(w)) \in Nat BY <1>4, StreamLimitNat
<1> HIDE DEF n
<1>9. n \in (0 .. StreamLimit(d, DirFault(w))) \ {StreamLimit(d, DirFault(w))} BY <1>2, <1>3, <1>8
<1>10. c \in SpecSet
  <2>1. c \in PushedFrom(p, DirFault(w)) BY <1>3, <1>9 DEF PushedFrom
  <2> QED BY <1>4, <2>1
<1> HIDE DEF c
<1>11. PICK k \in DOMAIN Listing[d] :
          /\ GoesInto(Listing[d][k]) /\ StreamedDirs(d)[n + 1].dir = Listing[d][k].dir
          /\ \A m \in Nat : m < n =>
                \E j \in DOMAIN Listing[d] :
                   /\ GoesInto(Listing[d][j]) /\ StreamedDirs(d)[m + 1].dir = Listing[d][j].dir
                   /\ j # k
  BY <1>2, <1>3, <1>4, StreamedLead
<1>12. Way(d, c.value.dir) BY <1>5, <1>11 DEF Way
<1>13. \A m \in Nat : m < n => StreamedDirs(d)[m + 1].dir # c.value.dir
  BY <1>4, <1>5, <1>11 DEF OneWayIn
<1>14. \A s \in issued : \A m \in Nat :
          s.index_path = Adding(p.index_path, m) => s.value.dir # c.value.dir
  BY <1>7, <1>13
<1>15. /\ \A v \in Workers \ {w} : task'[v] = task[v]
       /\ task'[w].stage = "stream"
  BY <1>1, <1>2, <1>3 DEF IsTask
<1>16. /\ issued' = issued \cup {c} /\ item' = item
       /\ \A v \in Workers \ {w} : AtWork(v)' <=> AtWork(v)
  BY <1>2, PushFacts
<1>17. Provided(issued', p, task'[w])
  <2>1. p.index_path \in Seq(Nat) BY <1>4 DEF ParInv, PathsInv, Tree, Paths
  <2>2. \A m \in Nat : c.index_path = Adding(p.index_path, m) => m = n
    <3>1. \A a \in Seq(Nat) : \A i, j \in Nat : Adding(a, i) = Adding(a, j) => i = j
      BY AppendInjective DEF Adding
    <3>2. n \in Nat /\ c.index_path = Adding(p.index_path, n) BY <1>3, <1>5
    <3> HIDE DEF p
    <3> QED BY <2>1, <3>1, <3>2
  <2>3. \A s \in issued' : \A m \in Nat :
           s.index_path = Adding(p.index_path, m) => s.value.dir = StreamedDirs(d)[m + 1].dir
    BY <1>5, <1>7, <1>16, <2>2
  <2> QED BY <1>15, <2>3 DEF Provided
<1> QED BY <1>1, <1>3, <1>5, <1>10, <1>12, <1>14, <1>15, <1>16, <1>17, OncePush

LEMMA OnceScheduleChild ==
    ASSUME OneWayIn, ParInv, OnceInv, NEW w \in Workers, ScheduleChild(w)
    PROVE  OnceInv'
<1> DEFINE p == item[w]
           d == p.value.dir
           todo == task[w].todo
           c == Head(todo)
<1>1. AtWork(w) /\ task[w].stage = "schedule" BY DEF ScheduleChild, Walking, AtWork
<1>2. todo # <<>> /\ PQ!PushCount(w, c) /\ task' = [task EXCEPT ![w].todo = Tail(todo)]
  BY DEF ScheduleChild
<1>3. /\ todo \in Seq(SpecSet) /\ DOMAIN task = Workers /\ IsTask(task[w])
      /\ \E m \in Nat : /\ Fresh(issued, p.index_path, m)
                        /\ \A k \in DOMAIN todo : todo[k].index_path = Adding(p.index_path, (m + k) - 1)
  BY <1>1 DEF ParInv, TasksInv, Underway, NoTask
<1>4. /\ \A i \in DOMAIN todo : Way(d, todo[i].value.dir)
      /\ \A i, j \in DOMAIN todo : todo[i].value.dir = todo[j].value.dir => i = j
      /\ \A s \in issued : ChildApart(s, p, todo)
  <2>1. Provided(issued, p, task[w]) BY <1>1 DEF OnceInv
  <2> QED BY <1>1, <2>1 DEF Provided
<1>5. /\ \A v \in Workers \ {w} : task'[v] = task[v]
      /\ task'[w].stage = "schedule" /\ task'[w].todo = Tail(todo)
  BY <1>1, <1>2, <1>3 DEF IsTask
<1>6. /\ issued' = issued \cup {c} /\ item' = item
      /\ \A v \in Workers \ {w} : AtWork(v)' <=> AtWork(v)
  BY <1>2, PushFacts
<1> HIDE DEF todo
<1>7. PICK m \in Nat : \A k \in DOMAIN todo : todo[k].index_path = Adding(p.index_path, (m + k) - 1)
  BY <1>3
<1>8. /\ Len(todo) \in Nat \ {0} /\ DOMAIN todo = 1 .. Len(todo)
      /\ c = todo[1] /\ c \in SpecSet
      /\ Tail(todo) \in Seq(SpecSet) /\ Len(Tail(todo)) = Len(todo) - 1
      /\ \A k \in 1 .. (Len(todo) - 1) : Tail(todo)[k] = todo[k + 1]
  BY <1>2, <1>3, EmptySeq, LenProperties, HeadTailProperties
<1>9. DOMAIN Tail(todo) = 1 .. (Len(todo) - 1) BY <1>8, LenProperties
<1> HIDE DEF c
<1>10. 1 \in DOMAIN todo /\ (m + 1) - 1 = m BY <1>8
<1>11. c.index_path = Adding(p.index_path, m)
  <2>1. todo[1].index_path = Adding(p.index_path, (m + 1) - 1) BY <1>7, <1>10
  <2> QED BY <1>8, <1>10, <2>1
<1>12. Way(d, c.value.dir) BY <1>4, <1>8, <1>10
<1>13. \A s \in issued : \A k \in Nat :
          s.index_path = Adding(p.index_path, k) => s.value.dir # c.value.dir
  BY <1>4, <1>8, <1>10 DEF ChildApart
<1>14. \A k \in DOMAIN Tail(todo) : k + 1 \in DOMAIN todo /\ Tail(todo)[k] = todo[k + 1] /\ k + 1 # 1 /\ k \in Nat
  BY <1>8, <1>9
<1>15. Provided(issued', p, task'[w])
  <2>1. \A i \in DOMAIN Tail(todo) : Way(d, Tail(todo)[i].value.dir) BY <1>4, <1>14
  <2>2. ASSUME NEW i \in DOMAIN Tail(todo), NEW j \in DOMAIN Tail(todo),
               Tail(todo)[i].value.dir = Tail(todo)[j].value.dir
        PROVE  i = j
    <3>1. i + 1 = j + 1 BY <1>4, <1>14, <2>2
    <3> QED BY <1>14, <3>1
  <2>3. \A i \in DOMAIN Tail(todo) : c.value.dir # Tail(todo)[i].value.dir BY <1>4, <1>8, <1>10, <1>14
  <2>4. \A s \in issued' : ChildApart(s, p, Tail(todo))
    BY <1>4, <1>6, <1>14, <2>3 DEF ChildApart
  <2> QED BY <1>5, <2>1, <2>2, <2>4 DEF Provided
<1> QED BY <1>1, <1>5, <1>6, <1>8, <1>11, <1>12, <1>13, <1>15, OncePush

\* Steps of the queue that push nothing.
LEMMA OnceQueue ==
    ASSUME ParInv, OnceInv, NEW w \in Workers,
           \/ (PQ!TakeNext(w) \/ PQ!PushSend(w)) /\ task' = task
           \/ PQ!CompleteItem(w) /\ \A v \in Workers \ {w} : task'[v] = task[v]
    PROVE  OnceInv'
<1>1. /\ pc \in [Workers -> {"stop", "drain", "pop", "load", "wait", "lock", "walk", "send", "exit"}]
      /\ item \in [Workers -> SpecSet \cup {NoSpec}]
  BY QueueFacts DEF ParInv
<1>2. \A v \in Workers : ~AtWork(v) => task[v] = NoTask BY DEF ParInv, TasksInv
<1> USE DEF PQ!Goto
<1>3. CASE PQ!TakeNext(w) /\ task' = task
  <2>1. /\ issued' = issued /\ pc[w] \notin {"walk", "send"}
        /\ \A v \in Workers \ {w} : pc'[v] = pc[v] /\ item'[v] = item[v]
    BY <1>1, <1>3 DEF PQ!TakeNext, PQ!Lock, PQ!CheckStop, PQ!TryRecv, PQ!Pop, PQ!LoadPending,
                      PQ!RecvTimeout, PQ!Disconnected, PQ!Receive
  <2>2. task'[w] = NoTask BY <1>2, <1>3, <2>1 DEF AtWork
  <2>3. \A v \in Workers \ {w} : AtWork(v)' <=> AtWork(v) BY <2>1 DEF AtWork
  <2> QED BY <1>3, <2>1, <2>2, <2>3, NothingProvided, OnceAlone
<1>4. CASE PQ!PushSend(w) /\ task' = task
  <2>1. issued' = issued /\ item' = item /\ pc[w] = "send" /\ \A v \in Workers \ {w} : pc'[v] = pc[v]
    BY <1>1, <1>4 DEF PQ!PushSend
  <2>2. \A v \in Workers : AtWork(v)' => AtWork(v) BY <2>1 DEF AtWork
  <2> QED BY <1>4, <2>1, <2>2, OnceAlone
<1>5. CASE PQ!CompleteItem(w) /\ \A v \in Workers \ {w} : task'[v] = task[v]
  <2>1. /\ issued' = issued /\ pc'[w] = "lock"
        /\ \A v \in Workers \ {w} : pc'[v] = pc[v] /\ item'[v] = item[v]
    BY <1>1, <1>5 DEF PQ!CompleteItem
  <2>2. ~AtWork(w)' /\ \A v \in Workers \ {w} : AtWork(v)' <=> AtWork(v) BY <2>1 DEF AtWork
  <2> QED BY <1>5, <2>1, <2>2, OnceAlone
<1> QED BY <1>3, <1>4, <1>5

LEMMA OnceStep ==
    ASSUME OneWayIn, ParInv, OnceInv, [ParNext]_parVars
    PROVE  OnceInv'
<1>1. ASSUME NEW w \in Workers, Worker(w) PROVE OnceInv'
  <2>1. CASE Queue(w) BY <2>1, OnceQueue DEF Queue
  <2>2. CASE Stopped(w) BY <2>2, OnceQueue DEF Stopped
  <2>3. CASE StartRead(w) BY <2>3, OnceStartRead
  <2>4. CASE StreamChild(w) BY <2>4, OnceStreamChild
  <2>5. CASE EndStream(w) BY <2>5, OnceEndStream
  <2>6. CASE SendResult(w) BY <2>6, OnceSendResult
  <2>7. CASE ScheduleChild(w) BY <2>7, OnceScheduleChild
  <2>8. CASE Finish(w)
    <3>1. DOMAIN task = Workers BY DEF ParInv, TasksInv
    <3>2. PQ!CompleteItem(w) /\ \A v \in Workers \ {w} : task'[v] = task[v]
      BY <2>8, <3>1 DEF Finish
    <3> QED BY <3>2, OnceQueue
  <2> QED BY <1>1, <2>1, <2>2, <2>3, <2>4, <2>5, <2>6, <2>7, <2>8 DEF Worker
<1>2. ASSUME issued' = issued, item' = item, pc' = pc, task' = task PROVE OnceInv'
  <2>1. \A v \in Workers : AtWork(v)' <=> AtWork(v) BY <1>2 DEF AtWork
  <2> QED BY <1>2, <2>1, OnceAlone
<1>3. CASE Aside BY <1>2, <1>3, AsideAlone DEF specVars
<1>4. CASE UNCHANGED parVars BY <1>2, <1>4 DEF parVars, specVars
<1>5. CASE StopJob \/ DropIter BY <1>2, <1>5 DEF StopJob, DropIter, PQ!SetStop
<1> QED BY <1>1, <1>3, <1>4, <1>5 DEF ParNext, TryNew, Aside

\* Where one entry at most leads to a directory, no directory is read twice,
\* whether it is streamed, scheduled after the result or met again by a retry.
THEOREM DirectoriesOnce == ASSUME OneWayIn PROVE Par => []ScheduledOnce
<1>1. ParInv /\ OnceInv /\ [ParNext]_parVars => OnceInv' BY OnceStep
<1>2. OnceInv => ScheduledOnce BY DEF OnceInv, OneEach, ScheduledOnce
<1> QED BY <1>1, <1>2, OnceInit, ParInvariance, PTL DEF Par
==============================================================================

------------------------- MODULE PriorityQueueProofs -------------------------
(***************************************************************************)
(* The counter of the directory queue is exact and the queue never ends a  *)
(* walk early, for any number of workers, any set of specs and any channel *)
(* capacity.                                                               *)
(***************************************************************************)
EXTENDS PriorityQueue, FiniteSetTheorems, TLAPS

(***************************************************************************)
(* The inductive invariant.  CountIsExact needs the sets whose sizes it    *)
(* adds to be finite and a spec entering the heap not to be there already  *)
(* (OnePlace), which rests on a pushed spec never being pushed again: all  *)
(* places hold issued specs only.  NoEarlyEnd follows from CountIsExact    *)
(* and a counter that stays zero once the iterator has ended.              *)
(***************************************************************************)
Slots ==
    /\ \A w \in Workers : pc[w] = "send" <=> sending[w] # NoSpec
    /\ \A w \in Busy : item[w] # NoSpec

AllIssued ==
    /\ \A k \in DOMAIN channel : channel[k] \in issued
    /\ receive_buffer \subseteq issued
    /\ \A w \in Sending : sending[w] \in issued
    /\ \A w \in Busy : item[w] \in issued

EndedAtZero == fused /\ ~stop => pending_count = 0

IInv ==
    /\ TypeOK
    /\ Slots
    /\ AllIssued
    /\ OnePlace
    /\ IsFiniteSet(receive_buffer)
    /\ CountIsExact
    /\ EndedAtZero

------------------------------------------------------------------------------

\* The sets of workers CountIsExact measures are finite.
LEMMA FiniteWorkers ==
    /\ IsFiniteSet(Busy) /\ IsFiniteSet(Sending)
    /\ Cardinality(Busy) \in Nat /\ Cardinality(Sending) \in Nat
<1>1. IsFiniteSet(Workers) BY PQAssumption
<1>2. Busy \in SUBSET Workers /\ Sending \in SUBSET Workers BY DEF Busy, Sending
<1>3. IsFiniteSet(Busy) /\ IsFiniteSet(Sending) BY <1>1, <1>2, FS_Subset
<1> QED BY <1>3, FS_CardinalityType

\* While a worker handles a directory or pushes one, the counter is positive.
LEMMA CountedWhileBusy ==
    ASSUME IInv, Busy # {}
    PROVE  pending_count > 0
<1>1. Cardinality(Busy) # 0 BY FiniteWorkers, FS_EmptySet
<1>2. Len(channel) \in Nat BY DEF IInv, TypeOK
<1>3. Cardinality(receive_buffer) \in Nat BY FS_CardinalityType DEF IInv
<1> QED BY <1>1, <1>2, <1>3, FiniteWorkers DEF IInv, CountIsExact, TypeOK

\* A counter at zero leaves nothing queued, sent or handled.
LEMMA ZeroIsIdle ==
    ASSUME IInv, pending_count = 0
    PROVE  channel = <<>> /\ receive_buffer = {} /\ Busy = {}
<1>1. Busy = {} BY CountedWhileBusy DEF IInv, TypeOK
<1>2. Len(channel) \in Nat /\ channel \in Seq(Specs) BY DEF IInv, TypeOK
<1>3. Cardinality(receive_buffer) \in Nat BY FS_CardinalityType DEF IInv
<1>4. Len(channel) = 0 /\ Cardinality(receive_buffer) = 0
  BY <1>2, <1>3, FiniteWorkers DEF IInv, CountIsExact
<1>5. receive_buffer = {} BY <1>4, FS_EmptySet DEF IInv
<1>6. channel = <<>> BY <1>2, <1>4
<1> QED BY <1>1, <1>5, <1>6

LEMMA InitIInv == Init => IInv
<1> SUFFICES ASSUME Init PROVE IInv OBVIOUS
<1> USE PQAssumption DEF Init
<1>1. Busy = {} /\ Sending = {} BY DEF Busy, Sending
<1>2. /\ pc \in [Workers -> InNext \cup {"lock", "walk", "send", "exit"}]
      /\ item \in [Workers -> Specs \cup {NoSpec}]
      /\ sending \in [Workers -> Specs \cup {NoSpec}]
  OBVIOUS
<1>3. stop \in BOOLEAN /\ fused \in BOOLEAN OBVIOUS
<1>4. /\ channel \in Seq(Specs)
      /\ Len(channel) \in 0 .. 1
      /\ issued \subseteq Specs
      /\ \A k \in DOMAIN channel : channel[k] \in issued
      /\ \A j, k \in DOMAIN channel : j = k
  <2>1. CASE RootSpecs = <<>> BY <2>1
  <2>2. ASSUME NEW s \in Specs, RootSpecs = <<s>> PROVE <1>4 BY <2>2
  <2> QED BY <2>1, <2>2
<1>5. TypeOK BY <1>2, <1>3, <1>4 DEF TypeOK
<1>6. CountIsExact BY <1>1, <1>4, FS_EmptySet DEF CountIsExact
<1>7. Slots /\ AllIssued /\ OnePlace
  BY <1>1, <1>4 DEF Slots, AllIssued, OnePlace
<1>8. IsFiniteSet(receive_buffer) BY FS_EmptySet
<1>9. EndedAtZero BY DEF EndedAtZero
<1> QED BY <1>5, <1>6, <1>7, <1>8, <1>9 DEF IInv

\* Moving the head of the channel into the heap keeps what the two hold.
LEMMA ReceiveStep ==
    ASSUME IInv, Receive
    PROVE  /\ channel' \in Seq(Specs)
           /\ Len(channel') = Len(channel) - 1
           /\ \A k \in DOMAIN channel' : k + 1 \in DOMAIN channel /\ channel'[k] = channel[k + 1]
           /\ 1 \in DOMAIN channel
           /\ receive_buffer' = receive_buffer \cup {channel[1]}
           /\ receive_buffer' \subseteq Specs
           /\ IsFiniteSet(receive_buffer')
           /\ Cardinality(receive_buffer') = Cardinality(receive_buffer) + 1
<1>1. channel \in Seq(Specs) /\ channel # <<>> BY DEF IInv, TypeOK, Receive
<1>2. Len(channel) \in Nat \ {0} /\ 1 \in DOMAIN channel /\ Head(channel) = channel[1]
  BY <1>1
<1>3. /\ channel' \in Seq(Specs)
      /\ Len(channel') = Len(channel) - 1
      /\ \A k \in DOMAIN channel' : k + 1 \in DOMAIN channel /\ channel'[k] = channel[k + 1]
  BY <1>1, <1>2 DEF Receive
<1>4. channel[1] \in Specs BY <1>1, <1>2
<1>5. channel[1] \notin receive_buffer BY <1>2 DEF IInv, OnePlace, InChannel
<1>6. receive_buffer' = receive_buffer \cup {channel[1]} BY <1>2 DEF Receive
<1>7. /\ IsFiniteSet(receive_buffer')
      /\ Cardinality(receive_buffer') = Cardinality(receive_buffer) + 1
  BY <1>5, <1>6, FS_AddElement DEF IInv
<1>8. receive_buffer' \subseteq Specs BY <1>4, <1>6 DEF IInv, TypeOK
<1> QED BY <1>2, <1>3, <1>6, <1>7, <1>8

\* Receiving while the worker stays inside next() preserves the invariant.
LEMMA ReceiveIInv ==
    ASSUME IInv, Receive, NEW w \in Workers, NEW to \in InNext,
           pc[w] \in InNext, Goto(w, to),
           UNCHANGED <<pending_count, stop, fused, item, sending, issued>>
    PROVE  IInv'
<1>1. TypeOK'
  <2>1. Len(channel) <= ChannelCapacity /\ Len(channel) \in Nat BY DEF IInv, TypeOK
  <2>2. Len(channel') <= ChannelCapacity BY <2>1, ReceiveStep, PQAssumption
  <2>3. pc' \in [Workers -> InNext \cup {"lock", "walk", "send", "exit"}]
    BY DEF IInv, TypeOK, Goto
  <2> QED BY <2>2, <2>3, ReceiveStep DEF IInv, TypeOK
<1>2. Busy' = Busy /\ Sending' = Sending
  BY DEF IInv, TypeOK, Goto, Busy, Sending, InNext
<1>3. Slots' 
  <2>1. \A v \in Workers : pc'[v] = "send" <=> pc[v] = "send"
    BY DEF IInv, TypeOK, Goto, InNext
  <2> QED BY <1>2, <2>1 DEF IInv, Slots
<1>4. AllIssued' BY <1>2, ReceiveStep DEF IInv, AllIssued
<1>5. OnePlace'
  <2>0. \A k \in DOMAIN channel' : k + 1 # 1 /\ k \in Int BY ReceiveStep
  <2>1. \A s : InChannel(s)' => InChannel(s) /\ s # channel[1]
    BY <2>0, ReceiveStep DEF IInv, OnePlace, InChannel
  <2>2. InChannel(channel[1]) BY ReceiveStep DEF InChannel
  <2>3. \A j, k \in DOMAIN channel' : channel'[j] = channel'[k] => j = k
    BY <2>0, ReceiveStep DEF IInv, OnePlace
  <2>4. \A s : s \in receive_buffer' => s \in receive_buffer \/ s = channel[1]
    BY ReceiveStep
  <2>5. \A s \in receive_buffer' : ~InChannel(s)' BY <2>1, <2>4 DEF IInv, OnePlace
  <2>6. \A v \in Sending :
          /\ ~InChannel(sending[v])'
          /\ sending[v] \notin receive_buffer'
    BY <2>1, <2>2, <2>4 DEF IInv, OnePlace
  <2>7. \A v \in Busy :
          /\ ~InChannel(item[v])'
          /\ item[v] \notin receive_buffer'
    BY <2>1, <2>2, <2>4 DEF IInv, OnePlace
  <2>8. sending' = sending /\ item' = item OBVIOUS
  <2>9. \A v \in Sending : \A u \in Sending \ {v} : sending[u] # sending[v]
    BY DEF IInv, OnePlace
  <2>10. \A v \in Busy :
          /\ \A u \in Busy : sending[u] # item[v]
          /\ \A u \in Busy \ {v} : item[u] # item[v]
    BY DEF IInv, OnePlace
  <2> QED BY <1>2, <2>3, <2>5, <2>6, <2>7, <2>8, <2>9, <2>10 DEF OnePlace, InChannel
<1>6. CountIsExact'
  <2>1. Len(channel) \in Nat /\ Cardinality(receive_buffer) \in Nat
    BY FS_CardinalityType DEF IInv, TypeOK
  <2>2. /\ Len(channel') = Len(channel) - 1
        /\ Cardinality(receive_buffer') = Cardinality(receive_buffer) + 1
    BY ReceiveStep
  <2>3. pending_count = Len(channel) + Cardinality(receive_buffer)
                        + Cardinality(Busy) + Cardinality(Sending)
    BY DEF IInv, CountIsExact
  <2>4. pending_count' = pending_count OBVIOUS
  <2> QED BY <1>2, <2>1, <2>2, <2>3, <2>4, FiniteWorkers DEF CountIsExact
<1>7. EndedAtZero' BY DEF IInv, EndedAtZero
<1> QED BY <1>1, <1>3, <1>4, <1>5, <1>6, <1>7, ReceiveStep DEF IInv

\* A step of next() that moves no spec preserves the invariant, if it ends
\* the iterator only when it may.
LEMMA QuietIInv ==
    ASSUME IInv, NEW w \in Workers, NEW to \in InNext \cup {"lock", "exit"},
           pc[w] \in InNext \cup {"lock", "exit"}, Goto(w, to),
           UNCHANGED <<channel, receive_buffer, pending_count, stop, item,
                       sending, issued>>,
           fused' \in BOOLEAN, EndedAtZero'
    PROVE  IInv'
<1>1. /\ pc' \in [Workers -> InNext \cup {"lock", "walk", "send", "exit"}]
      /\ \A v \in Workers : pc'[v] = "send" <=> pc[v] = "send"
      /\ Busy' = Busy /\ Sending' = Sending
  BY DEF IInv, TypeOK, Goto, Busy, Sending, InNext
<1>2. TypeOK' BY <1>1 DEF IInv, TypeOK
<1>3. Slots' BY <1>1 DEF IInv, Slots
<1>4. AllIssued' BY <1>1 DEF IInv, AllIssued
<1>5. OnePlace' BY <1>1 DEF IInv, OnePlace, InChannel
<1>6. CountIsExact' BY <1>1 DEF IInv, CountIsExact
<1> QED BY <1>2, <1>3, <1>4, <1>5, <1>6 DEF IInv

\* Taking a spec out of the heap and starting to handle it.
LEMMA TakeIInv ==
    ASSUME IInv, NEW w \in Workers, NEW top \in receive_buffer,
           pc[w] = "pop", Goto(w, "walk"),
           item' = [item EXCEPT ![w] = top],
           receive_buffer' = receive_buffer \ {top},
           UNCHANGED <<channel, pending_count, stop, fused, sending, issued>>
    PROVE  IInv'
<1>1. /\ pc' \in [Workers -> InNext \cup {"lock", "walk", "send", "exit"}]
      /\ \A v \in Workers : pc'[v] = "send" <=> pc[v] = "send"
      /\ Sending' = Sending
      /\ Busy' = Busy \cup {w}
      /\ w \notin Busy
  BY DEF IInv, TypeOK, Goto, Busy, Sending
<1>2. /\ top \in Specs /\ top # NoSpec /\ ~InChannel(top)
      /\ \A v \in Workers : sending[v] # top
      /\ \A v \in Busy : item[v] # top /\ item[v] # NoSpec
      /\ sending[w] = NoSpec
  BY PQAssumption DEF IInv, TypeOK, OnePlace, Slots, Sending
<1>3. /\ item' \in [Workers -> Specs \cup {NoSpec}]
      /\ item'[w] = top
      /\ \A v \in Workers \ {w} : item'[v] = item[v]
  BY <1>2 DEF IInv, TypeOK
<1>4. TypeOK' BY <1>1, <1>3 DEF IInv, TypeOK
<1>5. Slots' BY <1>1, <1>2, <1>3 DEF IInv, Slots, Busy
<1>6. AllIssued' BY <1>1, <1>3 DEF IInv, AllIssued, Busy
<1>7. OnePlace'
  <2>1. \A v \in Busy' :
          /\ ~InChannel(item'[v])
          /\ item'[v] \notin receive_buffer'
          /\ \A u \in Busy' : sending[u] # item'[v]
    BY <1>1, <1>2, <1>3 DEF IInv, OnePlace, Busy
  <2>2. \A v \in Busy' : \A u \in Busy' \ {v} : item'[u] # item'[v]
    BY <1>1, <1>2, <1>3 DEF IInv, OnePlace, Busy
  <2> QED BY <1>1, <2>1, <2>2 DEF IInv, OnePlace, InChannel
<1>8. /\ IsFiniteSet(receive_buffer')
      /\ Cardinality(receive_buffer') = Cardinality(receive_buffer) - 1
  BY FS_RemoveElement DEF IInv
<1>9. CountIsExact'
  <2>1. Len(channel) \in Nat /\ Cardinality(receive_buffer) \in Nat
    BY FS_CardinalityType DEF IInv, TypeOK
  <2>2. Cardinality(Busy') = Cardinality(Busy) + 1
    BY <1>1, FiniteWorkers, FS_AddElement
  <2> QED BY <1>1, <1>8, <2>1, <2>2, FiniteWorkers DEF IInv, CountIsExact
<1>10. EndedAtZero' BY DEF IInv, EndedAtZero
<1> QED BY <1>4, <1>5, <1>6, <1>7, <1>8, <1>9, <1>10 DEF IInv

\* push: the spec is counted before it is sent.
LEMMA PushCountIInv ==
    ASSUME IInv, NEW w \in Workers, NEW spec \in Specs \ issued, PushCount(w, spec)
    PROVE  IInv'
<1> USE DEF PushCount
<1>1. /\ pc' \in [Workers -> InNext \cup {"lock", "walk", "send", "exit"}]
      /\ pc'[w] = "send"
      /\ \A v \in Workers \ {w} : pc'[v] = pc[v]
      /\ Busy' = Busy
      /\ w \in Busy /\ w \notin Sending
      /\ Sending' = Sending \cup {w}
  BY DEF IInv, TypeOK, Goto, Busy, Sending
<1>2. /\ spec # NoSpec /\ ~InChannel(spec) /\ spec \notin receive_buffer
      /\ \A v \in Sending : sending[v] # spec
      /\ \A v \in Busy : item[v] # spec
  BY PQAssumption DEF IInv, AllIssued, InChannel
<1>3. /\ sending' \in [Workers -> Specs \cup {NoSpec}]
      /\ sending'[w] = spec
      /\ \A v \in Workers \ {w} : sending'[v] = sending[v]
  BY DEF IInv, TypeOK
<1>4. pending_count' \in Nat /\ issued' \subseteq Specs BY DEF IInv, TypeOK
<1>5. TypeOK' BY <1>1, <1>3, <1>4 DEF IInv, TypeOK
<1>6. Slots' BY <1>1, <1>2, <1>3 DEF IInv, Slots, Busy
<1>7. AllIssued' BY <1>1, <1>3 DEF IInv, AllIssued, Sending
<1>8. OnePlace'
  <2>1. \A v \in Sending' :
          /\ ~InChannel(sending'[v])
          /\ sending'[v] \notin receive_buffer
          /\ \A u \in Sending' \ {v} : sending'[u] # sending'[v]
    BY <1>1, <1>2, <1>3 DEF IInv, OnePlace, Sending
  <2>2. \A v \in Busy : \A u \in Busy : sending'[u] # item[v]
    BY <1>1, <1>2, <1>3 DEF IInv, OnePlace, Busy
  <2> QED BY <1>1, <2>1, <2>2 DEF IInv, OnePlace, InChannel
<1>9. CountIsExact'
  <2>1. Len(channel) \in Nat /\ Cardinality(receive_buffer) \in Nat
    BY FS_CardinalityType DEF IInv, TypeOK
  <2>2. Cardinality(Sending') = Cardinality(Sending) + 1
    BY <1>1, FiniteWorkers, FS_AddElement
  <2> QED BY <1>1, <2>1, <2>2, FiniteWorkers DEF IInv, CountIsExact
<1>10. EndedAtZero'
  BY <1>1, CountedWhileBusy DEF IInv, EndedAtZero
<1> QED BY <1>5, <1>6, <1>7, <1>8, <1>9, <1>10 DEF IInv

\* push: the send moves the spec from the worker to the end of the channel.
LEMMA PushSendIInv ==
    ASSUME IInv, NEW w \in Workers, PushSend(w)
    PROVE  IInv'
<1> USE DEF PushSend
<1>1. /\ pc' \in [Workers -> InNext \cup {"lock", "walk", "send", "exit"}]
      /\ pc'[w] = "walk"
      /\ \A v \in Workers \ {w} : pc'[v] = pc[v]
      /\ Busy' = Busy
      /\ w \in Busy /\ w \in Sending
      /\ Sending' = Sending \ {w}
  BY DEF IInv, TypeOK, Goto, Busy, Sending
<1>2. sending[w] \in Specs /\ sending[w] \in issued
  BY <1>1 DEF IInv, TypeOK, Slots, AllIssued
<1>3. /\ sending' \in [Workers -> Specs \cup {NoSpec}]
      /\ sending'[w] = NoSpec
      /\ \A v \in Workers \ {w} : sending'[v] = sending[v]
  BY DEF IInv, TypeOK
<1>4. /\ channel' \in Seq(Specs)
      /\ Len(channel') = Len(channel) + 1
      /\ Len(channel') <= ChannelCapacity
      /\ \A k \in DOMAIN channel' : \/ k \in DOMAIN channel /\ channel'[k] = channel[k]
                                    \/ k = Len(channel) + 1 /\ channel'[k] = sending[w]
  BY <1>2, PQAssumption DEF IInv, TypeOK
<1>5. \A s : InChannel(s)' => InChannel(s) \/ s = sending[w] BY <1>4 DEF InChannel
<1>6. TypeOK' BY <1>1, <1>3, <1>4 DEF IInv, TypeOK
<1>7. Slots' BY <1>1, <1>3 DEF IInv, Slots, Busy
<1>8. AllIssued' BY <1>1, <1>2, <1>3, <1>4 DEF IInv, AllIssued, Sending
<1>9. OnePlace'
  <2>1. /\ ~InChannel(sending[w]) /\ sending[w] \notin receive_buffer
        /\ \A v \in Sending \ {w} : sending[v] # sending[w]
        /\ \A v \in Busy : item[v] # sending[w]
    BY <1>1 DEF IInv, OnePlace
  <2>2. \A j, k \in DOMAIN channel' : channel'[j] = channel'[k] => j = k
    BY <1>4, <2>1 DEF IInv, OnePlace, InChannel
  <2>3. \A s \in receive_buffer : ~InChannel(s)' BY <1>5, <2>1 DEF IInv, OnePlace
  <2>4. \A v \in Sending \ {w} :
          /\ ~InChannel(sending[v])
          /\ sending[v] # sending[w]
          /\ sending'[v] = sending[v]
          /\ sending[v] \notin receive_buffer
          /\ \A u \in Sending \ {w, v} : sending[u] # sending[v]
    BY <1>3, <2>1 DEF IInv, OnePlace, Sending
  <2>5. \A v \in Sending' :
          /\ ~(\E k \in DOMAIN channel' : channel'[k] = sending'[v])
          /\ sending'[v] \notin receive_buffer
          /\ \A u \in Sending' \ {v} : sending'[u] # sending'[v]
    BY <1>1, <1>4, <2>4 DEF InChannel
  <2>6. \A v \in Busy :
          /\ ~(\E k \in DOMAIN channel' : channel'[k] = item[v])
          /\ item[v] \notin receive_buffer
          /\ \A u \in Busy : sending'[u] # item[v]
          /\ \A u \in Busy \ {v} : item[u] # item[v]
    <3>1. \A v \in Busy : ~InChannel(item[v]) /\ item[v] # NoSpec
      BY DEF IInv, OnePlace, Slots
    <3> QED BY <1>1, <1>3, <1>4, <2>1, <3>1 DEF IInv, OnePlace, InChannel, Busy
  <2> QED BY <1>1, <2>2, <2>3, <2>5, <2>6 DEF OnePlace, InChannel
<1>10. CountIsExact'
  <2>1. Len(channel) \in Nat /\ Cardinality(receive_buffer) \in Nat
    BY FS_CardinalityType DEF IInv, TypeOK
  <2>2. Cardinality(Sending') = Cardinality(Sending) - 1
    BY <1>1, FiniteWorkers, FS_RemoveElement
  <2> QED BY <1>1, <1>4, <2>1, <2>2, FiniteWorkers DEF IInv, CountIsExact
<1>11. EndedAtZero' BY DEF IInv, EndedAtZero
<1> QED BY <1>6, <1>7, <1>8, <1>9, <1>10, <1>11 DEF IInv

\* complete_item: the worker gives up its spec and its count.
LEMMA CompleteItemIInv ==
    ASSUME IInv, NEW w \in Workers, CompleteItem(w)
    PROVE  IInv'
<1> USE DEF CompleteItem
<1>1. /\ pc' \in [Workers -> InNext \cup {"lock", "walk", "send", "exit"}]
      /\ \A v \in Workers : pc'[v] = "send" <=> pc[v] = "send"
      /\ Sending' = Sending
      /\ w \in Busy
      /\ Busy' = Busy \ {w}
  BY DEF IInv, TypeOK, Goto, Busy, Sending
<1>2. /\ item' \in [Workers -> Specs \cup {NoSpec}]
      /\ \A v \in Busy \ {w} : item'[v] = item[v]
  BY DEF IInv, TypeOK, Busy
<1>3. pending_count' \in Nat BY <1>1, CountedWhileBusy DEF IInv, TypeOK
<1>4. TypeOK' BY <1>1, <1>2, <1>3 DEF IInv, TypeOK
<1>5. Slots' BY <1>1, <1>2 DEF IInv, Slots
<1>6. AllIssued' BY <1>1, <1>2 DEF IInv, AllIssued
<1>7. OnePlace' BY <1>1, <1>2 DEF IInv, OnePlace, InChannel
<1>8. CountIsExact'
  <2>1. Len(channel) \in Nat /\ Cardinality(receive_buffer) \in Nat
    BY FS_CardinalityType DEF IInv, TypeOK
  <2>2. Cardinality(Busy') = Cardinality(Busy) - 1
    BY <1>1, FiniteWorkers, FS_RemoveElement
  <2> QED BY <1>1, <2>1, <2>2, FiniteWorkers DEF IInv, CountIsExact
<1>9. EndedAtZero' BY <1>1, CountedWhileBusy DEF IInv, EndedAtZero
<1> QED BY <1>4, <1>5, <1>6, <1>7, <1>8, <1>9 DEF IInv

LEMMA StutterIInv == IInv /\ UNCHANGED vars => IInv'
<1> SUFFICES ASSUME IInv, UNCHANGED vars PROVE IInv' OBVIOUS
<1>1. Busy' = Busy /\ Sending' = Sending BY DEF vars, Busy, Sending
<1> QED BY <1>1 DEF vars, IInv, TypeOK, EndedAtZero, Slots, AllIssued,
                    OnePlace, InChannel, CountIsExact

LEMMA StepIInv == IInv /\ Next => IInv'
<1> SUFFICES ASSUME IInv, Next PROVE IInv' OBVIOUS
<1>1. ASSUME NEW w \in Workers, Lock(w) PROVE IInv'
  <2>1. EndedAtZero' /\ fused' \in BOOLEAN
    BY <1>1 DEF Lock, IInv, TypeOK, EndedAtZero
  <2>2. CASE fused
    BY <1>1, <2>1, <2>2, QuietIInv DEF Lock
  <2>3. CASE ~fused
    BY <1>1, <2>1, <2>3, QuietIInv DEF Lock, InNext
  <2> QED BY <2>2, <2>3
<1>2. ASSUME NEW w \in Workers, CheckStop(w) PROVE IInv'
  <2>1. CASE stop /\ Disconnected(w)
    <3>1. EndedAtZero' /\ fused' \in BOOLEAN
      BY <1>2, <2>1 DEF CheckStop, Disconnected, EndedAtZero
    <3> QED BY <1>2, <2>1, <3>1, QuietIInv DEF CheckStop, Disconnected, InNext
  <2>2. CASE ~stop /\ Goto(w, "drain") /\ UNCHANGED fused
    <3>1. EndedAtZero' /\ fused' \in BOOLEAN
      BY <1>2, <2>2 DEF CheckStop, IInv, TypeOK, EndedAtZero
    <3> QED BY <1>2, <2>2, <3>1, QuietIInv DEF CheckStop, InNext
  <2> QED BY <1>2, <2>1, <2>2 DEF CheckStop
<1>3. ASSUME NEW w \in Workers, TryRecv(w) PROVE IInv'
  <2>1. CASE Receive /\ UNCHANGED pc
    <3>1. Goto(w, "drain") BY <1>3, <2>1 DEF TryRecv, IInv, TypeOK, Goto
    <3> QED BY <1>3, <2>1, <3>1, ReceiveIInv DEF TryRecv, InNext
  <2>2. CASE Goto(w, "pop") /\ UNCHANGED <<channel, receive_buffer>>
    <3>1. EndedAtZero' /\ fused' \in BOOLEAN
      BY <1>3, <2>2 DEF TryRecv, IInv, TypeOK, EndedAtZero
    <3> QED BY <1>3, <2>2, <3>1, QuietIInv DEF TryRecv, InNext
  <2> QED BY <1>3, <2>1, <2>2 DEF TryRecv
<1>4. ASSUME NEW w \in Workers, Pop(w) PROVE IInv'
  <2>1. ASSUME NEW top \in receive_buffer,
               item' = [item EXCEPT ![w] = top],
               receive_buffer' = receive_buffer \ {top},
               Goto(w, "walk")
        PROVE  IInv'
    BY <1>4, <2>1, TakeIInv DEF Pop
  <2>2. CASE Goto(w, "load") /\ UNCHANGED <<item, receive_buffer>>
    <3>1. EndedAtZero' /\ fused' \in BOOLEAN
      BY <1>4, <2>2 DEF Pop, IInv, TypeOK, EndedAtZero
    <3> QED BY <1>4, <2>2, <3>1, QuietIInv DEF Pop, InNext
  <2> QED BY <1>4, <2>1, <2>2 DEF Pop
<1>5. ASSUME NEW w \in Workers, LoadPending(w) PROVE IInv'
  <2>1. CASE pending_count = 0 /\ Disconnected(w)
    <3>1. EndedAtZero' /\ fused' \in BOOLEAN
      BY <1>5, <2>1 DEF LoadPending, Disconnected, EndedAtZero
    <3> QED BY <1>5, <2>1, <3>1, QuietIInv DEF LoadPending, Disconnected, InNext
  <2>2. CASE Goto(w, "wait") /\ UNCHANGED fused
    <3>1. EndedAtZero' /\ fused' \in BOOLEAN
      BY <1>5, <2>2 DEF LoadPending, IInv, TypeOK, EndedAtZero
    <3> QED BY <1>5, <2>2, <3>1, QuietIInv DEF LoadPending, InNext
  <2> QED BY <1>5, <2>1, <2>2 DEF LoadPending
<1>6. ASSUME NEW w \in Workers, RecvTimeout(w) PROVE IInv'
  <2>1. CASE Receive
    BY <1>6, <2>1, ReceiveIInv DEF RecvTimeout, InNext
  <2>2. CASE UNCHANGED <<channel, receive_buffer>>
    <3>1. EndedAtZero' /\ fused' \in BOOLEAN
      BY <1>6, <2>2 DEF RecvTimeout, IInv, TypeOK, EndedAtZero
    <3> QED BY <1>6, <2>2, <3>1, QuietIInv DEF RecvTimeout, InNext
  <2> QED BY <1>6, <2>1, <2>2 DEF RecvTimeout
<1>7. ASSUME NEW w \in Workers, Handle(w) PROVE IInv'
  BY <1>7, PushCountIInv, PushSendIInv, CompleteItemIInv DEF Handle
<1>8. CASE SetStop
  <2>1. Busy' = Busy /\ Sending' = Sending BY <1>8 DEF SetStop, Busy, Sending
  <2>2. TypeOK' /\ EndedAtZero' BY <1>8 DEF SetStop, IInv, TypeOK, EndedAtZero
  <2>3. Slots' /\ AllIssued' BY <1>8, <2>1 DEF SetStop, IInv, Slots, AllIssued
  <2>4. OnePlace' /\ CountIsExact'
    BY <1>8, <2>1 DEF SetStop, IInv, OnePlace, InChannel, CountIsExact
  <2> QED BY <1>8, <2>2, <2>3, <2>4 DEF SetStop, IInv
<1>9. CASE UNCHANGED vars BY <1>9, StutterIInv
<1> QED BY <1>1, <1>2, <1>3, <1>4, <1>5, <1>6, <1>7, <1>8, <1>9
        DEF Next, TakeNext, Terminated

LEMMA Invariance == Spec => []IInv
BY InitIInv, StepIInv, StutterIInv, PTL DEF Spec

\* The types of the queue's state hold throughout a walk; in particular
\* fetch_sub in complete_item never wraps the counter.
THEOREM TypeCorrect == Spec => []TypeOK
<1>1. IInv => TypeOK BY DEF IInv
<1> QED BY <1>1, Invariance, PTL

\* pending_count is exactly the number of specs queued, in flight or handled,
\* after every step of push, try_next and complete_item.
THEOREM CounterExact == Spec => []CountIsExact
<1>1. IInv => CountIsExact BY DEF IInv
<1> QED BY <1>1, Invariance, PTL

\* Each pushed directory is at one place of the queue or with one worker.
THEOREM EachAtOnePlace == Spec => []OnePlace
<1>1. IInv => OnePlace BY DEF IInv
<1> QED BY <1>1, Invariance, PTL

\* A walk that is not stopped ends only after its last directory: try_next
\* returns Disconnected for pending_count = 0 only when nothing is left.
THEOREM NeverEndsEarly == Spec => []NoEarlyEnd
<1>1. IInv => NoEarlyEnd BY ZeroIsIdle DEF NoEarlyEnd, IInv, EndedAtZero
<1> QED BY <1>1, Invariance, PTL
==============================================================================

---------------------------- MODULE PriorityQueue ----------------------------
(***************************************************************************)
(* The queue of directories still to be read (core/priority_queue.rs), and *)
(* the rayon workers that take from it and push to it.                     *)
(*                                                                         *)
(* Producers push on a bounded channel; one receiver moves what arrives    *)
(* into a heap and pops the heap.  rayon's par_bridge puts the receiver    *)
(* behind a mutex and a Fuse: a worker locks it, calls next(), unlocks it  *)
(* and handles what it got; the first None ends the iterator for everyone. *)
(* Nothing closes the channel while a worker lives, so "no more work" is   *)
(* told by pending_count alone.                                            *)
(*                                                                         *)
(* A worker handling a directory may push any number of specs nobody       *)
(* pushed before: what it pushes, and when, is ParWalk's business.         *)
(***************************************************************************)
EXTENDS IndexPath, FiniteSets

CONSTANTS Workers,          \* the threads par_bridge runs on
          Specs,            \* Weighted<ReadDirSpec>: [value, index_path, weight]
          NoSpec,           \* no spec at hand
          RootSpecs,        \* the specs pushed by ReadDirIter::try_new
          ChannelCapacity   \* WalkDirGeneric::channel_capacity

ASSUME PQAssumption ==
    /\ IsFiniteSet(Workers)
    /\ NoSpec \notin Specs
    /\ RootSpecs = <<>> \/ \E s \in Specs : RootSpecs = <<s>>
    /\ ChannelCapacity \in Nat \ {0}

VARIABLES channel,          \* the bounded crossbeam channel
          receive_buffer,   \* the heap
          pending_count,    \* the shared atomic counter
          stop,             \* the shared stop flag
          fused,            \* the iterator has returned None
          pc,               \* where each worker is
          item,             \* the spec it handles
          sending,          \* the spec its push has counted and not yet sent
          issued            \* history: every spec ever pushed

vars == <<channel, receive_buffer, pending_count, stop, fused, pc, item,
          sending, issued>>

\* The worker is inside next(), holding par_bridge's mutex.
InNext == {"stop", "drain", "pop", "load", "wait"}

Init ==
    /\ channel = RootSpecs
    /\ receive_buffer = {}
    /\ pending_count = Len(RootSpecs)
    /\ stop = FALSE
    /\ fused = FALSE
    /\ pc = [w \in Workers |-> "lock"]
    /\ item = [w \in Workers |-> NoSpec]
    /\ sending = [w \in Workers |-> NoSpec]
    /\ issued = {RootSpecs[k] : k \in DOMAIN RootSpecs}

Goto(w, to) == pc' = [pc EXCEPT ![w] = to]

------------------------------------------------------------------------------
(* Heap order: Ord for Weighted, as a max-heap pops it. *)

PopsFirst(a, b) ==
    \/ a.weight < b.weight
    \/ /\ a.weight = b.weight
       /\ Before(a.index_path, b.index_path)

\* What BinaryHeap::pop may return: nothing in the heap ranks higher.
IsTop(a, heap) == \A b \in heap : ~PopsFirst(b, a)

------------------------------------------------------------------------------
(* par_bridge: take the mutex; a fused iterator answers None at once. *)

Lock(w) ==
    /\ pc[w] = "lock"
    /\ \A v \in Workers : pc[v] \notin InNext
    /\ Goto(w, IF fused THEN "exit" ELSE "stop")
    /\ UNCHANGED <<channel, receive_buffer, pending_count, stop, fused, item,
                   sending, issued>>

------------------------------------------------------------------------------
(* PriorityQueueIter::try_next, one step per access to shared state. *)

\* next() returned None: the Fuse closes and the worker's loop ends.
Disconnected(w) == fused' = TRUE /\ Goto(w, "exit")

CheckStop(w) ==
    /\ pc[w] = "stop"
    /\ \/ stop /\ Disconnected(w)
       \/ ~stop /\ Goto(w, "drain") /\ UNCHANGED fused
    /\ UNCHANGED <<channel, receive_buffer, pending_count, stop, item,
                   sending, issued>>

Receive ==
    /\ channel # <<>>
    /\ channel' = Tail(channel)
    /\ receive_buffer' = receive_buffer \cup {Head(channel)}

TryRecv(w) ==
    /\ pc[w] = "drain"
    /\ \/ Receive /\ UNCHANGED pc
       \/ channel = <<>> /\ Goto(w, "pop") /\ UNCHANGED <<channel, receive_buffer>>
    /\ UNCHANGED <<pending_count, stop, fused, item, sending, issued>>

\* Mutant: the heap's top is handed out but not removed.
PeekOnly(w) ==
    /\ pc[w] = "pop"
    /\ \E top \in receive_buffer : item' = [item EXCEPT ![w] = top]
    /\ Goto(w, "walk")
    /\ UNCHANGED <<channel, receive_buffer, pending_count, stop, fused,
                   sending, issued>>

Pop(w) ==
    /\ pc[w] = "pop"
    /\ \/ /\ \E top \in receive_buffer :
                /\ IsTop(top, receive_buffer)
                /\ item' = [item EXCEPT ![w] = top]
                /\ receive_buffer' = receive_buffer \ {top}
          /\ Goto(w, "walk")
       \/ /\ receive_buffer = {}
          /\ Goto(w, "load")
          /\ UNCHANGED <<item, receive_buffer>>
    /\ UNCHANGED <<channel, pending_count, stop, fused, sending, issued>>

\* Mutant: an empty queue is taken for the end of the walk.
TestEmpty(w) ==
    /\ pc[w] = "load"
    /\ \/ channel = <<>> /\ Disconnected(w)
       \/ channel # <<>> /\ Goto(w, "wait") /\ UNCHANGED fused
    /\ UNCHANGED <<channel, receive_buffer, pending_count, stop, item,
                   sending, issued>>

LoadPending(w) ==
    /\ pc[w] = "load"
    /\ \/ pending_count = 0 /\ Disconnected(w)
       \/ pending_count # 0 /\ Goto(w, "wait") /\ UNCHANGED fused
    /\ UNCHANGED <<channel, receive_buffer, pending_count, stop, item,
                   sending, issued>>

\* recv_timeout: it gives up only after finding the channel empty.
RecvTimeout(w) ==
    /\ pc[w] = "wait"
    /\ \/ Receive
       \/ channel = <<>> /\ UNCHANGED <<channel, receive_buffer>>
    /\ Goto(w, "stop")
    /\ UNCHANGED <<pending_count, stop, fused, item, sending, issued>>

------------------------------------------------------------------------------
(* PriorityQueue::push and complete_item, by a worker handling an item. *)

\* Mutant: push does not count the spec.
PushUncounted(w, spec) ==
    /\ pc[w] = "walk"
    /\ sending' = [sending EXCEPT ![w] = spec]
    /\ issued' = issued \cup {spec}
    /\ Goto(w, "send")
    /\ UNCHANGED <<channel, receive_buffer, pending_count, stop, fused, item>>

PushCount(w, spec) ==
    /\ pc[w] = "walk"
    /\ pending_count' = pending_count + 1
    /\ sending' = [sending EXCEPT ![w] = spec]
    /\ issued' = issued \cup {spec}
    /\ Goto(w, "send")
    /\ UNCHANGED <<channel, receive_buffer, stop, fused, item>>

\* Mutant: try_send, which drops the spec when the channel is nearly full.
PushTrySend(w) ==
    /\ pc[w] = "send"
    /\ channel' = IF Len(channel) < ChannelCapacity - 1
                  THEN Append(channel, sending[w]) ELSE channel
    /\ sending' = [sending EXCEPT ![w] = NoSpec]
    /\ Goto(w, "walk")
    /\ UNCHANGED <<receive_buffer, pending_count, stop, fused, item, issued>>

\* send blocks while the channel is full.
PushSend(w) ==
    /\ pc[w] = "send"
    /\ Len(channel) < ChannelCapacity
    /\ channel' = Append(channel, sending[w])
    /\ sending' = [sending EXCEPT ![w] = NoSpec]
    /\ Goto(w, "walk")
    /\ UNCHANGED <<receive_buffer, pending_count, stop, fused, item, issued>>

\* Mutant: the handled spec stays counted.
CompleteUncounted(w) ==
    /\ pc[w] = "walk"
    /\ item' = [item EXCEPT ![w] = NoSpec]
    /\ Goto(w, "lock")
    /\ UNCHANGED <<channel, receive_buffer, pending_count, stop, fused,
                   sending, issued>>

CompleteItem(w) ==
    /\ pc[w] = "walk"
    /\ pending_count' = pending_count - 1
    /\ item' = [item EXCEPT ![w] = NoSpec]
    /\ Goto(w, "lock")
    /\ UNCHANGED <<channel, receive_buffer, stop, fused, sending, issued>>

\* DirEntryIter is dropped, or the busy timeout expires.
SetStop ==
    /\ ~stop
    /\ stop' = TRUE
    /\ UNCHANGED <<channel, receive_buffer, pending_count, fused, pc, item,
                   sending, issued>>

------------------------------------------------------------------------------

TakeNext(w) ==
    Lock(w) \/ CheckStop(w) \/ TryRecv(w) \/ Pop(w) \/ LoadPending(w)
            \/ RecvTimeout(w)

Handle(w) ==
    \/ \E spec \in Specs \ issued : PushCount(w, spec)
    \/ PushSend(w)
    \/ CompleteItem(w)

Exited == \A w \in Workers : pc[w] = "exit"

\* Every worker has left: nothing moves any more.
Terminated == Exited /\ UNCHANGED vars

Next ==
    \/ \E w \in Workers : TakeNext(w) \/ Handle(w)
    \/ SetStop
    \/ Terminated

Spec == Init /\ [][Next]_vars

(***************************************************************************)
(* Every worker thread keeps running.  The stop flag is the caller's, who  *)
(* need never set it.                                                      *)
(***************************************************************************)
FairSpec == Spec /\ \A w \in Workers : WF_vars(TakeNext(w) \/ Handle(w))

------------------------------------------------------------------------------
(* Properties *)

Sending == {w \in Workers : pc[w] = "send"}
Busy == {w \in Workers : pc[w] \in {"walk", "send"}}

\* Types of the state; the counter never wraps below zero (the claim of the
\* comment in complete_item).
TypeOK ==
    /\ channel \in Seq(Specs)
    /\ Len(channel) <= ChannelCapacity
    /\ receive_buffer \subseteq Specs
    /\ pending_count \in Nat
    /\ stop \in BOOLEAN
    /\ fused \in BOOLEAN
    /\ pc \in [Workers -> InNext \cup {"lock", "walk", "send", "exit"}]
    /\ item \in [Workers -> Specs \cup {NoSpec}]
    /\ sending \in [Workers -> Specs \cup {NoSpec}]
    /\ issued \subseteq Specs

\* pending_count counts exactly the specs in the channel, in the heap, being
\* pushed and being handled: push counts before it sends, complete_item
\* uncounts only what was handled.
CountIsExact ==
    pending_count = Len(channel) + Cardinality(receive_buffer)
                    + Cardinality(Busy) + Cardinality(Sending)

\* A walk that was not stopped ends only when no directory is queued, in
\* flight or being read: try_next never takes a moment without ready specs
\* for the end of the walk.
NoEarlyEnd ==
    fused /\ ~stop =>
        /\ channel = <<>>
        /\ receive_buffer = {}
        /\ Busy = {}

InChannel(s) == \E k \in DOMAIN channel : channel[k] = s

\* A spec is at one place only: no directory waits twice, waits while it is
\* read, or is read by two workers.
OnePlace ==
    /\ \A j, k \in DOMAIN channel : channel[j] = channel[k] => j = k
    /\ \A s \in receive_buffer : ~InChannel(s)
    /\ \A w \in Sending :
          /\ ~InChannel(sending[w])
          /\ sending[w] \notin receive_buffer
          /\ \A v \in Sending \ {w} : sending[v] # sending[w]
    /\ \A w \in Busy :
          /\ ~InChannel(item[w])
          /\ item[w] \notin receive_buffer
          /\ \A v \in Busy : sending[v] # item[w]
          /\ \A v \in Busy \ {w} : item[v] # item[w]

\* While the walk is not stopped, a push waits for room in the channel only
\* for a while (the doc comment of WalkDirGeneric::channel_capacity: a small
\* one blocks producers briefly).
PushGoesThrough == \A w \in Workers : pc[w] = "send" ~> (pc[w] = "walk" \/ stop)
==============================================================================

---------------------------- MODULE OrderedQueue -----------------------------
(***************************************************************************)
(* The queue of directory results (core/ordered_queue.rs): workers send    *)
(* results in the order they finish, the consumer takes them in depth-     *)
(* first order.  The consumer buffers what it receives in a heap and       *)
(* returns only the result whose index path is looking_for, which the      *)
(* matcher computes from the child counts of the results returned so far.  *)
(*                                                                         *)
(* The operations only: OrderedResults runs them over a fixed set of       *)
(* results, ParWalk over the results its workers produce.  A result is an  *)
(* Ordered<Result<ReadDir>>: [value, index_path, child_count].             *)
(***************************************************************************)
EXTENDS OrderedMatcher, FiniteSets

CONSTANTS ResultCapacity,        \* channel_capacity
          MaxReceiveBufferSize   \* max_receive_buffer_size

ASSUME OQAssumption ==
    /\ ResultCapacity \in Nat \ {0}
    /\ MaxReceiveBufferSize \in Nat

VARIABLES result_channel,      \* the bounded crossbeam channel
          result_buffer,       \* receive_buffer, the heap
          looking_for,         \* OrderedMatcher: the path to return next
          child_count_stack,   \*   and the results left at each of its levels
          connected,           \* some sender is alive
          stopped,             \* the stop flag
          at,                  \* where the consumer is in next()
          sent,                \* history: the results sent
          returned             \* history: the results next() returned

oqvars == <<result_channel, result_buffer, looking_for, child_count_stack,
            connected, stopped, at, sent, returned>>

OQInit ==
    /\ result_channel = <<>>
    /\ result_buffer = {}
    /\ looking_for = <<0>>
    /\ child_count_stack = <<1>>
    /\ connected = TRUE
    /\ stopped = FALSE
    /\ at = "idle"
    /\ sent = {}
    /\ returned = <<>>

------------------------------------------------------------------------------
(* OrderedMatcher::advance_past *)

AdvancePast(result) ==
    /\ looking_for' = AdvancePath(looking_for, child_count_stack, result.child_count)
    /\ child_count_stack' = AdvanceStack(child_count_stack, result.child_count)

------------------------------------------------------------------------------
(* Producers *)

\* OrderedQueue::push blocks while the channel is full.
SendResult(result) ==
    /\ Len(result_channel) < ResultCapacity
    /\ result_channel' = Append(result_channel, result)
    /\ sent' = sent \cup {result}
    /\ UNCHANGED <<result_buffer, looking_for, child_count_stack, connected,
                   stopped, at, returned>>

\* The last sender is dropped.
DropSenders ==
    /\ connected
    /\ connected' = FALSE
    /\ UNCHANGED <<result_channel, result_buffer, looking_for,
                   child_count_stack, stopped, at, sent, returned>>

RaiseStop ==
    /\ ~stopped
    /\ stopped' = TRUE
    /\ UNCHANGED <<result_channel, result_buffer, looking_for,
                   child_count_stack, connected, at, sent, returned>>

------------------------------------------------------------------------------
(* OrderedQueueIter::next and try_next_strict, one step per access to      *)
(* shared state.  A try that times out returns Empty, and next() tries     *)
(* again: from "wait" back to "loop".                                      *)

\* peek() of the heap: Ord for Ordered makes the least path its top.
IsPeek(top) == \A r \in result_buffer : ~Before(r.index_path, top.index_path)

TopMatches ==
    \E top \in result_buffer : IsPeek(top) /\ top.index_path = looking_for

TakeResult ==
    /\ result_channel # <<>>
    /\ result_channel' = Tail(result_channel)
    /\ result_buffer' = result_buffer \cup {Head(result_channel)}

CallNext ==
    /\ at = "idle"
    /\ at' = "loop"
    /\ UNCHANGED <<result_channel, result_buffer, looking_for,
                   child_count_stack, connected, stopped, sent, returned>>

\* The stop check, and whether the channel is worth draining.
StartTry ==
    /\ at = "loop"
    /\ at' = IF stopped THEN "end" ELSE IF TopMatches THEN "match" ELSE "drain"
    /\ UNCHANGED <<result_channel, result_buffer, looking_for,
                   child_count_stack, connected, stopped, sent, returned>>

\* drain_channel: one try_recv, while the buffer is below its limit.
DrainResult ==
    /\ at = "drain"
    /\ \/ /\ Cardinality(result_buffer) < MaxReceiveBufferSize
          /\ TakeResult
          /\ UNCHANGED at
       \/ /\ \/ Cardinality(result_buffer) >= MaxReceiveBufferSize
             \/ result_channel = <<>>
          /\ at' = "match"
          /\ UNCHANGED <<result_channel, result_buffer>>
    /\ UNCHANGED <<looking_for, child_count_stack, connected, stopped, sent,
                   returned>>

Return(result) ==
    /\ result_buffer' = result_buffer \ {result}
    /\ returned' = Append(returned, result)
    /\ at' = "idle"

\* Mutant: the heap's top is returned whether or not it is looked for.
ReturnTop(result) ==
    /\ at = "match"
    /\ result \in result_buffer
    /\ IsPeek(result)
    /\ Return(result)
    /\ AdvancePast(result)
    /\ UNCHANGED <<result_channel, connected, stopped, sent>>

\* The buffer holds the result looked for: next() returns it.
ReturnMatch(result) ==
    /\ at = "match"
    /\ result \in result_buffer
    /\ IsPeek(result)
    /\ result.index_path = looking_for
    /\ Return(result)
    /\ AdvancePast(result)
    /\ UNCHANGED <<result_channel, connected, stopped, sent>>

\* It does not: the walk is over, or next() waits for more.
NoMatch ==
    /\ at = "match"
    /\ ~TopMatches
    /\ at' = IF looking_for = <<>> THEN "end" ELSE "wait"
    /\ UNCHANGED <<result_channel, result_buffer, looking_for,
                   child_count_stack, connected, stopped, sent, returned>>

\* recv_timeout: a result arrives (whatever the buffer holds), or none does.
WaitResult ==
    /\ at = "wait"
    /\ \/ TakeResult
       \/ result_channel = <<>> /\ connected /\ UNCHANGED <<result_channel, result_buffer>>
    /\ at' = "loop"
    /\ UNCHANGED <<looking_for, child_count_stack, connected, stopped, sent,
                   returned>>

\* recv_timeout found the channel empty and closed: the heap's top is
\* returned even if it is not the result looked for.
ReturnRest(result) ==
    /\ at = "wait"
    /\ result_channel = <<>> /\ ~connected
    /\ result \in result_buffer
    /\ IsPeek(result)
    /\ Return(result)
    /\ IF result.index_path = looking_for
       THEN AdvancePast(result)
       ELSE UNCHANGED <<looking_for, child_count_stack>>
    /\ UNCHANGED <<result_channel, connected, stopped, sent>>

\* Mutants: a closed channel ends the walk whatever the heap holds; a closed
\* channel is taken for one more timeout.
EndWithRest ==
    /\ at = "wait"
    /\ result_channel = <<>> /\ ~connected
    /\ at' = "end"
    /\ UNCHANGED <<result_channel, result_buffer, looking_for,
                   child_count_stack, connected, stopped, sent, returned>>

RetryWhenClosed ==
    /\ at = "wait"
    /\ result_channel = <<>> /\ ~connected
    /\ at' = "loop"
    /\ UNCHANGED <<result_channel, result_buffer, looking_for,
                   child_count_stack, connected, stopped, sent, returned>>

NothingRests ==
    /\ at = "wait"
    /\ result_channel = <<>> /\ ~connected
    /\ result_buffer = {}
    /\ at' = "end"
    /\ UNCHANGED <<result_channel, result_buffer, looking_for,
                   child_count_stack, connected, stopped, sent, returned>>
==============================================================================

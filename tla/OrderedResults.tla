--------------------------- MODULE OrderedResults ----------------------------
(***************************************************************************)
(* The OrderedQueue under any producers: the results of a tree are sent in *)
(* any order (a streamed child may be sent before its parent), by senders  *)
(* that may vanish before all are sent: a worker that panics takes its     *)
(* result with it.                                                         *)
(***************************************************************************)
EXTENDS OrderedQueue

CONSTANT Results   \* one per directory of the tree

ASSUME TreeAssumption == ResultTree(Results)

------------------------------------------------------------------------------

Producer ==
    \/ connected /\ \E r \in Results \ sent : SendResult(r)
    \/ DropSenders

Consumer ==
    \/ CallNext
    \/ StartTry
    \/ DrainResult
    \/ \E r \in Results : ReturnMatch(r) \/ ReturnRest(r)
    \/ NoMatch
    \/ WaitResult
    \/ NothingRests

\* next() has returned None: the walk is over.
Over == at = "end" /\ UNCHANGED oqvars

OQNext == Producer \/ Consumer \/ RaiseStop \/ Over

OQSpec == OQInit /\ [][OQNext]_oqvars

(***************************************************************************)
(* The caller keeps calling next(), the workers keep sending and leave.    *)
(***************************************************************************)
OQFairSpec == OQSpec /\ WF_oqvars(Consumer) /\ WF_oqvars(Producer)

------------------------------------------------------------------------------
(* Properties *)

OQTypeOK ==
    /\ result_channel \in Seq(Results)
    /\ Len(result_channel) <= ResultCapacity
    /\ result_buffer \subseteq Results
    /\ looking_for \in Paths
    /\ child_count_stack \in Paths
    /\ Len(child_count_stack) = Len(looking_for)
    /\ connected \in BOOLEAN
    /\ stopped \in BOOLEAN
    /\ at \in {"idle", "loop", "drain", "match", "wait", "end"}
    /\ sent \subseteq Results
    /\ returned \in Seq(Results)

\* next() returns results in strict depth-first order, however they arrive,
\* and even when the senders vanish and the rest of the heap is flushed.
DepthFirst ==
    \A i, j \in DOMAIN returned :
        i < j => Before(returned[i].index_path, returned[j].index_path)

WasReturned(r) == \E i \in DOMAIN returned : returned[i] = r

\* A walk that was not stopped ends only when every result that was sent has
\* been returned: matcher, fallback and buffer limit lose none.
AllSentReturned == at = "end" /\ ~stopped => \A r \in sent : WasReturned(r)

\* While all results are sent, none is passed over: the matcher moves to the
\* immediate successor, so what has been returned is an initial part of the
\* depth-first order.
NoGap ==
    connected \/ sent = Results => \A r \in Results : \A i \in DOMAIN returned :
        Before(r.index_path, returned[i].index_path) => WasReturned(r)

\* The consumer gets to the end of the walk.
ConsumerEnds == <>(at = "end")

\* The consumer holds at most max_receive_buffer_size results (the doc
\* comment of WalkDirGeneric::max_receive_buffer_size).
BufferBounded == Cardinality(result_buffer) <= MaxReceiveBufferSize
==============================================================================

------------------------------- MODULE ParWalk -------------------------------
(***************************************************************************)
(* The parallel walk (core/read_dir_iter.rs): rayon workers take directory *)
(* specs from the PriorityQueue, read the directories, send the results to *)
(* the OrderedQueue and push specs for the subdirectories; the caller's    *)
(* DirEntryIter takes the results in depth-first order, and may be dropped *)
(* at any time between two calls of next().                                *)
(*                                                                         *)
(* A worker reads a directory either in one go and pushes its children     *)
(* after the result, or, streaming, pushes each subdirectory the moment    *)
(* the enumeration meets it, before the result.                            *)
(***************************************************************************)
EXTENDS DirEntryIter, FiniteSets

CONSTANTS Workers, NoSpec, ChannelCapacity, MaxReceiveBufferSize,
          StreamingModes, \* the values of use_streaming a run considers
          TimeoutModes,   \* the values of busy_timeout a run considers
          SpecSet,        \* bound: the Weighted specs of the instance
          FaultCases      \* what may go wrong: functions from Dirs to Faults

VARIABLES faults,
          use_streaming,   \* neither sorting nor a process_read_dir callback
          busy_timeout,    \* the Parallelism has a busy timeout
          job,             \* the closure spawned on the pool: "queued", "started"
                           \* or "dropped" (it returned at once)
          \* the PriorityQueue of specs
          channel, receive_buffer, pending_count, stop, fused, pc, item,
          sending, issued,
          \* the OrderedQueue of results
          result_channel, result_buffer, looking_for, child_count_stack,
          connected, at, sent, returned,
          \* multi_threaded_walk_dir, per worker
          task,
          \* the caller: in try_new ("starting", "expired", "closing",
          \* "refusing"), with a DirEntryIter that has no ReadDirIter
          \* ("refused") or has one ("alive"), dropping it ("dropping", "gone")
          iter

config == <<faults, use_streaming, busy_timeout>>
specVars == <<channel, receive_buffer, pending_count, fused, pc, item,
              sending, issued>>
resultVars == <<result_channel, result_buffer, looking_for, child_count_stack,
                connected, at, sent, returned>>
parVars == <<read_dir_results_stack, output, config, job, specVars, stop,
             resultVars, task, iter>>

\* ROOT_WEIGHT, half the range of usize: the origin weights are counted from.
RootWeight == 0

RootSpec == Weighted(ReadDirSpec(RootDirEntry), <<0>>, RootWeight)

(***************************************************************************)
(* The specs that reading the directory of parent may push: one for each   *)
(* subdirectory it streams or, if it streams none, for each one in the     *)
(* listing.                                                                *)
(***************************************************************************)
PushedFrom(parent, fault) ==
    LET limit    == StreamLimit(parent.value.dir, fault)
        streamed == IF TooDeep(Depth(parent)) THEN {} ELSE 0 .. limit
        results  == {CoreReadDir(parent.value, Depth(parent), fault)}
                       \cup {StreamingRead(parent, fault, n) : n \in streamed}
        lists    == {result.list : result \in {r \in results : r.ok /\ r.streamed = 0}}
    IN  {StreamedChild(parent, n) : n \in streamed \ {limit}}
           \cup UNION {{WeightedChildren(list, parent)[n] : n \in 1 .. Len(ReadChildren(list))} :
                       list \in lists}

ASSUME ParAssumption ==
    /\ IsFiniteSet(Workers) /\ Workers # {}   \* a rayon pool has a thread
    /\ ChannelCapacity \in Nat \ {0}
    /\ StreamingModes \subseteq BOOLEAN
    /\ NoSpec \notin SpecSet
    /\ ReadsChildren(RootDirEntry) => RootSpec \in SpecSet
    /\ \A f \in FaultCases :
          /\ f \in [Dirs -> Faults]
          /\ \A d \in Dirs : f[d].after <= Len(Listing[d])
          /\ \A parent \in SpecSet :
                parent.value.dir \in Dirs /\ PushedFrom(parent, f[parent.value.dir]) \subseteq SpecSet

PQ == INSTANCE PriorityQueue WITH
          Specs <- SpecSet,
          RootSpecs <- IF ReadsChildren(RootDirEntry) THEN <<RootSpec>> ELSE <<>>

OQ == INSTANCE OrderedQueue WITH
          ResultCapacity <- ChannelCapacity, stopped <- stop

NoTask == [stage |-> "start", streamed |-> 0, result |-> ReadErr, todo |-> <<>>]

ParInit ==
    /\ IterInit
    /\ faults \in FaultCases
    /\ use_streaming \in StreamingModes
    /\ busy_timeout \in TimeoutModes
    /\ job = "queued"
    /\ PQ!Init
    /\ OQ!OQInit
    /\ task = [w \in Workers |-> NoTask]
    /\ iter = IF busy_timeout THEN "starting" ELSE "alive"

------------------------------------------------------------------------------
(* ReadDirIter::try_new after Parallelism::spawn: with a busy timeout the  *)
(* caller waits for the closure's startup message.                         *)

\* The pool gets to the closure.  Its startup message finds no receiver once
\* the caller has given up.
StartJob ==
    /\ job = "queued"
    /\ job' = IF iter \in {"closing", "refusing", "refused"} THEN "dropped" ELSE "started"
    /\ UNCHANGED <<iterVars, config, specVars, stop, resultVars, task, iter>>

CallerGoes(from, to) == iter = from /\ iter' = to

\* recv_timeout returns the message, or gives up having found none.
AwaitStart ==
    /\ \/ job = "started" /\ CallerGoes("starting", "alive")
       \/ job # "started" /\ CallerGoes("starting", "expired")
    /\ UNCHANGED <<iterVars, config, job, specVars, stop, resultVars, task>>

\* Giving up: the startup receiver is dropped, stop is set, and the receiver
\* of results is dropped.
CloseStartup ==
    /\ CallerGoes("expired", "closing")
    /\ UNCHANGED <<iterVars, config, job, specVars, stop, resultVars, task>>

StopJob ==
    /\ CallerGoes("closing", "refusing")
    /\ PQ!SetStop
    /\ UNCHANGED <<iterVars, config, job, resultVars, task>>

Refuse ==
    /\ CallerGoes("refusing", "refused")
    /\ UNCHANGED <<iterVars, config, job, specVars, stop, resultVars, task>>

TryNew == AwaitStart \/ CloseStartup \/ StopJob \/ Refuse

ReceiverGone == iter \in {"refused", "gone"}

------------------------------------------------------------------------------
(* multi_threaded_walk_dir, by worker w on item[w] *)

Walking(w, stage) == pc[w] = "walk" /\ task[w].stage = stage

DirFault(w) == faults[item[w].value.dir]

\* Mutant: children are scheduled even if they were streamed.
HaveResultAlways(w, result) ==
    task' = [task EXCEPT ![w].stage = "result",
                         ![w].result = result,
                         ![w].todo = WeightedChildren(result.list, item[w])]

\* The read is over.  Children are scheduled after the result only if none
\* was streamed.
HaveResult(w, result) ==
    task' = [task EXCEPT ![w].stage = "result",
                         ![w].result = result,
                         ![w].todo = IF result.ok /\ result.streamed = 0
                                     THEN WeightedChildren(result.list, item[w])
                                     ELSE <<>>]

\* Mutant: a stopped worker returns without complete_item.
StoppedUncompleted(w) ==
    /\ Walking(w, "start")
    /\ stop
    /\ PQ!CompleteUncounted(w)
    /\ UNCHANGED <<iterVars, config, resultVars, task, iter>>

Stopped(w) ==
    /\ Walking(w, "start")
    /\ stop
    /\ PQ!CompleteItem(w)
    /\ UNCHANGED <<iterVars, config, resultVars, task, iter>>

StartRead(w) ==
    /\ Walking(w, "start")
    /\ ~stop
    /\ IF use_streaming /\ ~TooDeep(Depth(item[w]))
       THEN task' = [task EXCEPT ![w].stage = "stream"]
       ELSE HaveResult(w, CoreReadDir(item[w].value, Depth(item[w]), DirFault(w)))
    /\ UNCHANGED <<iterVars, config, specVars, stop, resultVars, iter>>

\* The enumeration meets a subdirectory: the on_subdir callback pushes it.
StreamChild(w) ==
    /\ Walking(w, "stream")
    /\ ~stop
    /\ task[w].streamed < StreamLimit(item[w].value.dir, DirFault(w))
    /\ PQ!PushCount(w, StreamedChild(item[w], task[w].streamed))
    /\ task' = [task EXCEPT ![w].streamed = @ + 1]
    /\ UNCHANGED <<iterVars, config, resultVars, iter>>

\* Once stop is set the callback pushes nothing more.
EndStream(w) ==
    /\ Walking(w, "stream")
    /\ stop \/ task[w].streamed = StreamLimit(item[w].value.dir, DirFault(w))
    /\ HaveResult(w, StreamingRead(item[w], DirFault(w), task[w].streamed))
    /\ UNCHANGED <<iterVars, config, specVars, stop, resultVars, iter>>

\* Mutant: the streamed children are not counted.
OrderedUnstreamed(w) ==
    [value |-> [dir |-> item[w].value.dir, ok |-> task[w].result.ok, list |-> task[w].result.list],
     index_path |-> item[w].index_path,
     child_count |-> Len(task[w].todo)]

\* Ordered<Result<ReadDir>>; value.dir names the directory that was read.
OrderedResult(w) ==
    [value |-> [dir |-> item[w].value.dir, ok |-> task[w].result.ok, list |-> task[w].result.list],
     index_path |-> item[w].index_path,
     child_count |-> task[w].result.streamed + Len(task[w].todo)]

SendResult(w) ==
    /\ Walking(w, "result")
    /\ \/ /\ ~ReceiverGone
          /\ OQ!SendResult(OrderedResult(w))
          /\ task' = [task EXCEPT ![w].stage = "schedule"]
       \/ /\ ReceiverGone   \* send fails, and nothing is scheduled
          /\ task' = [task EXCEPT ![w].stage = "schedule", ![w].todo = <<>>]
          /\ UNCHANGED <<resultVars, stop>>
    /\ UNCHANGED <<iterVars, config, specVars, iter>>

ScheduleChild(w) ==
    /\ Walking(w, "schedule")
    /\ task[w].todo # <<>>
    /\ PQ!PushCount(w, Head(task[w].todo))
    /\ task' = [task EXCEPT ![w].todo = Tail(@)]
    /\ UNCHANGED <<iterVars, config, resultVars, iter>>

Finish(w) ==
    /\ Walking(w, "schedule")
    /\ task[w].todo = <<>>
    /\ PQ!CompleteItem(w)
    /\ task' = [task EXCEPT ![w] = NoTask]
    /\ UNCHANGED <<iterVars, config, resultVars, iter>>

\* The steps of the PriorityQueue itself.
Queue(w) ==
    /\ PQ!TakeNext(w) \/ PQ!PushSend(w)
    /\ UNCHANGED <<iterVars, config, resultVars, task, iter>>

Worker(w) ==
    /\ job = "started"
    /\ \/ Queue(w)
       \/ Stopped(w)
       \/ StartRead(w)
       \/ StreamChild(w)
       \/ EndStream(w)
       \/ SendResult(w)
       \/ ScheduleChild(w)
       \/ Finish(w)
    /\ UNCHANGED job

JobDone == PQ!Exited \/ job = "dropped"

\* The last worker drops the last run context, and with it the senders.
LastWorker ==
    /\ JobDone
    /\ OQ!DropSenders
    /\ UNCHANGED <<iterVars, config, job, specVars, task, iter>>

------------------------------------------------------------------------------
(* The caller's thread: DirEntryIter::next over ReadDirIter::ParWalk *)

\* A turn of the loop that needs no result.
LocalTurn ==
    /\ iter \in {"alive", "refused"} /\ at = "idle"
    /\ PopList \/ YieldEntry
    /\ UNCHANGED <<config, job, specVars, stop, resultVars, task, iter>>

RefusedTurn ==
    /\ iter = "refused"
    /\ YieldBusy
    /\ UNCHANGED <<config, job, specVars, stop, resultVars, task, iter>>

\* At a directory: OrderedQueueIter::next runs until it returns.
WaitForResult ==
    /\ iter = "alive"
    /\ AtDirectory
    /\ \/ OQ!CallNext
       \/ OQ!StartTry
       \/ OQ!DrainResult
       \/ OQ!NoMatch
       \/ OQ!WaitResult
       \/ OQ!NothingRests
    /\ UNCHANGED <<iterVars, config, job, specVars, task, iter>>

GetResult(result) ==
    /\ iter = "alive"
    /\ OQ!ReturnMatch(result) \/ OQ!ReturnRest(result)
    /\ YieldDirectory(result.value)
    /\ UNCHANGED <<config, job, specVars, task, iter>>

\* OrderedQueueIter::next returned None.
GetNone ==
    /\ iter = "alive"
    /\ at = "end"
    /\ YieldDirectory(ReadErr)
    /\ at' = "idle"
    /\ UNCHANGED <<config, job, specVars, stop, result_channel, result_buffer,
                   looking_for, child_count_stack, connected, sent, returned,
                   task, iter>>

Consumer ==
    \/ LocalTurn
    \/ RefusedTurn
    \/ WaitForResult
    \/ \E result \in result_buffer : GetResult(result)
    \/ GetNone

\* Drop for DirEntryIter sets stop; then its fields, the receiver among them,
\* are dropped.
DropIter ==
    /\ iter = "alive" /\ at = "idle"
    /\ iter' = "dropping"
    /\ PQ!SetStop
    /\ UNCHANGED <<iterVars, config, job, resultVars, task>>

DropReceiver ==
    /\ iter = "dropping"
    /\ iter' = "gone"
    /\ UNCHANGED <<iterVars, config, job, specVars, stop, resultVars, task>>

------------------------------------------------------------------------------

Terminated ==
    /\ JobDone
    /\ iter = "gone" \/ Exhausted
    /\ UNCHANGED parVars

ParNext ==
    \/ StartJob
    \/ TryNew
    \/ \E w \in Workers : Worker(w)
    \/ LastWorker
    \/ Consumer
    \/ DropIter
    \/ DropReceiver
    \/ Terminated

Par == ParInit /\ [][ParNext]_parVars

(***************************************************************************)
(* Worker threads keep running, and the caller keeps calling next() until  *)
(* it drops the iterator, which it need not do.  A pool that is used       *)
(* without a busy timeout has a free thread; one with a timeout may never  *)
(* get to the closure.                                                     *)
(***************************************************************************)
FairPar ==
    /\ Par
    /\ WF_parVars(~busy_timeout /\ StartJob)
    /\ WF_parVars(TryNew)
    /\ \A w \in Workers : WF_parVars(Worker(w))
    /\ WF_parVars(LastWorker)
    /\ WF_parVars(Consumer)
    /\ WF_parVars(DropReceiver)

------------------------------------------------------------------------------
(* Properties *)

Abstract == INSTANCE WalkSpec

\* However the workers interleave, the caller is given what WalkSpec promises
\* and what the serial walk gives.
KeepsPromise == Abstract!Walk

\* The walk drives the directory queue as PriorityQueue says, on every path
\* through multi_threaded_walk_dir, so that what is proved of it holds here.
UsesQueue == PQ!Spec

\* A directory is pushed once: whether streamed, scheduled after the result or
\* read again after a transient error.
ScheduledOnce == \A s, t \in issued : s.value = t.value => s = t

\* No two directories get the same index path, so that their results have one
\* order: the numbers come from the streaming callback's counter or from the
\* listing, and never from both for one directory.
OwnPaths == \A s, t \in issued : s.index_path = t.index_path => s = t

\* When the caller has seen everything, no result is left over.
NothingLeft ==
    iter = "alive" /\ Exhausted => result_channel = <<>> /\ result_buffer = {}

\* The caller gets to the end, unless it drops the iterator; with a busy
\* timeout, even if the pool never gets to the walk.
WalkEnds == <>(Exhausted \/ iter \in {"dropping", "gone"})

\* The workers are given back to the pool: after the walk, after a drop, and
\* after a startup the caller no longer waits for.
WorkersFreed == job = "started" ~> PQ!Exited

\* An entry is followed by the contents of its own directory (the module
\* documentation: results are returned in strict depth first order).
OwnContents ==
    [][\A result \in result_buffer :
          GetResult(result) => result.value.dir = NextEntry.dir]_parVars

(***************************************************************************)
(* What streaming needs.  Without it (sorting, or a process_read_dir       *)
(* callback) a walk needs nothing.  The children streamed from a directory *)
(* are the ones the walk goes into only if it has no links, and no         *)
(* directories of unknown type, beside those it streams; a listing that    *)
(* breaks off after some of them were streamed is replaced by an error,    *)
(* and the reader of other builds does not stream.                         *)
(***************************************************************************)
StreamsCleanly ==
    TRUE \in StreamingModes =>
        /\ Platform # "other"
        /\ \A d \in Dirs :
              (\E n \in DOMAIN Listing[d] : IsStreamed(Listing[d][n])) =>
                  \A n \in DOMAIN Listing[d] : GoesInto(Listing[d][n]) => Listing[d][n].type = "dir"
        /\ \A f \in FaultCases, d \in Dirs :
              f[d].times > 0 => \A n \in DOMAIN Listing[d] : n <= f[d].after => ~IsStreamed(Listing[d][n])
==============================================================================

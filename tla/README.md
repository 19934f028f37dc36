# jwalk-meta: models, checks and proofs

jwalk-meta walks a directory tree in parallel and yields its entries in the
order a serial walk would. These modules model how it does so: the queue of
directories to read, the rayon workers, the queue that puts results back in
order, the iterator the caller sees, and the reading of one directory on each
platform, with its retries, its streaming of subdirectories and its batches of
metadata requests. Paths below are relative to the
repository root's `src/`.

## The system

| Part | State | Operations | Correct if |
| --- | --- | --- | --- |
| `core/index_path.rs` | a vector of indices | `adding`, `increment_last`, order | the order is depth-first preorder |
| `core/priority_queue.rs`, `core/weighted.rs` | bounded channel, heap, `pending_count`, `stop` | `push`, `complete_item`, `next` | the end is seen exactly when no work is left; no spec is lost or doubled; a push gets through |
| `core/ordered_queue.rs`, `core/ordered.rs` | bounded channel, heap, `OrderedMatcher` | `push`, `next` | results leave in depth-first order, none lost, the consumer never waits for what cannot come |
| `core/read_dir_iter.rs`, `core/run_context.rs` | the two queues, a startup channel, or the serial stack | `try_new`, `next`, `multi_threaded_walk_dir` | each directory is scheduled once and counted once; workers leave |
| `core/dir_entry_iter.rs` | stack of listings | `next`, `drop` | each directory is followed by its own contents |
| `lib.rs`, `core/unix_dir_enum.rs`, `core/read_dir.rs`, `core/dir_entry.rs`, `core/error.rs` | none (a call reads one directory) | read callback, retries, streaming enumeration, children's specs | a retried or broken enumeration does not disturb the walk |
| `core/nt_dir_enum.rs`, `core/unix_dir_enum.rs` | a thread's buffer | open, query, parse, stream | what a query left in the buffer is never taken for an entry |
| `core/linux_io_uring.rs`, `core/fs_detect.rs`, `core/metadata.rs` | a ring and its buffers, a strategy cache, a probe result | detect, submit, wait, harvest, drop | each entry has its own metadata, as a call for it alone would give; buffers outlive requests |

How they meet. The caller's thread owns `DirEntryIter`, which pulls one result
from `ReadDirIter` for every directory it yields. In a parallel walk that result
comes from the `OrderedQueue`, filled by workers that take specs from the
`PriorityQueue` through rayon's `par_bridge` (one mutex around the receiver; the
first `None` ends it for all). A worker pushes specs for subdirectories either
while it enumerates (streaming, only without sorting and without a
`process_read_dir` callback) or after it has sent the result. A shared `stop`
flag, set on drop or when the startup times out, makes everyone leave.

What is hard: the end of the walk is inferred from a counter; the workers are
the only receivers of the channel they push to; results come in any order; the
result a directory is given is identified by order alone; an enumeration that
fails or is retried has side effects that stay; the kernel answers batched
requests in any order; buffers and caches outlive a reading; the iterator is dropped, or the
startup timeout expires, at any moment. `PROJECT.json` lists each of these
hazards at its line.

## Modules

| Module | Models |
| --- | --- |
| `IndexPath` | index paths and their order |
| `PriorityQueue` | the spec queue and the workers' loop around it; what a worker pushes is left open |
| `OrderedMatcher` | the matcher that advances from one index path to the next |
| `OrderedQueue` | the operations of the result queue |
| `OrderedResults` | the result queue under arbitrary producers over a tree of results |
| `ReadDir` | reading one directory as one step, on Linux, Windows or elsewhere: the error tables, faults, retries, depth limit, streaming, links, children's specs |
| `DirReader` | a thread reading directories step by step, shown to come to what `ReadDir` says |
| `DirEntryIter` | the caller's iterator |
| `WalkSpec` | abstract: what a walk promises its caller |
| `SerialWalk` | `Parallelism::Serial`, shown to implement `WalkSpec` |
| `ParWalk` | the whole parallel walk, shown to implement `WalkSpec` and to use the spec queue as `PriorityQueue` allows |
| `Positions` | selecting items of a sequence in order (`Iterator::filter`) |
| `*Proofs` | the theorems about the module of that name; `OrderProofs` is about `IndexPath`, `Positions` and `OrderedMatcher`, `ReadDirProofs` has lemmas only |
| `ParPromiseProofs` | the parallel walk implements `WalkSpec` |
| `MC*`, `MCTrees` | small instances |

`DirReader` is below `ReadDir`: it instantiates it (`R`) and its invariant
`AsReadDir` compares each finished reading with the operator the walks use.
`ParWalk` composes the components with `PQ == INSTANCE PriorityQueue` and
`OQ == INSTANCE OrderedQueue`: its worker and caller actions conjoin theirs.

Steps. One action per access to shared state: a lock, a `try_recv`, a heap pop
together with the decision that follows it on thread-local data, an atomic
load, a blocked `send` becoming possible. So `push` is two steps (count, send)
and `try_next` five. All atomics are acquire/release and each decision reads
one of them, so interleaving semantics is adequate.

State and code. `channel`, `receive_buffer`, `pending_count`, `stop` are the
fields of `PriorityQueue(Iter)`; `fused` is `par_bridge`'s `Fuse`; `pc[w]`,
`item[w]`, `sending[w]` are where worker `w` is, what it handles and what it
has counted but not sent; `issued` is history. `result_channel`,
`result_buffer`, `looking_for`, `child_count_stack` are those of
`OrderedQueueIter`; `connected` says a sender lives; `at` is where the consumer
is; `sent` and `returned` are history. `task[w]` in `ParWalk` holds the locals
of `multi_threaded_walk_dir`; `job` is the closure given to the pool; `iter`
the caller's progress through `try_new`, the iterator's life and its drop.
`output` is the history of what `next()` yielded. In `DirReader`, `stage` is
where the thread is in `retry_transient_io`, the enumeration, the batch or the
making of entries; `buffer` is `TLS_BUFFER`, whose records name the directory
and position they were written for, so that a stale one is recognisable;
`strategies` is `IO_STRATEGY_CACHE`, `ring` the ring, its requests in flight,
its completions and whether the buffers live; `prefetched` says whose `statx`
(Windows: link count) an entry was given; `scheduled` is history.

Abstractions. A directory is a model name. For the walks a listing is what is
left after hidden-file filtering, sorting and the client's callback, and has no
metadata; `DirReader` has all four. An entry is a directory, a directory of
unknown type, a link to a directory, a broken link, or a file. The tree does not
change; links may lead back to a directory that is being walked. A directory is
identified by its name and a link by its own, as `(dev, ino)` of `lstat` does;
`MaxDepth` stands for the kernel's limit on links where a loop is not noticed.
A fault says for how many attempts a reading fails, with which error, and
whether when opening or after how many entries. Errors are the numbers and kinds
`is_transient_io_error` looks at. Weights are offsets from `ROOT_WEIGHT`, which
is half of `usize`'s range and is only added to with saturation. Durations are
left out: a timeout may expire whenever what it waits for is not there.

In `DirReader` the options for metadata, extended metadata and hard links are
one; metadata is where it comes from and whose it is. `statx` batched succeeds
only where `statx` alone does. Names hold no NUL (they come from the kernel). A
kernel call may return as few records as it likes. A wait interrupted by a
signal after the requests were handed over returns, as `io_uring_enter` does,
the number submitted. A root that is a broken link is an error from the start,
and so is one that does not exist. An entry of unknown type is, for the walks,
one that turns out to be a directory; one that is no directory, or whose `stat`
fails, becomes a file in the code and is a file here. `DirReader` has the asking
and its failure (`MadeType`).

## Runs

| Run | Instance | Result |
| --- | --- | --- |
| `pq_safety` | 3 workers, 4 specs, capacity 1 | holds: `TypeOK`, `CountIsExact`, `NoEarlyEnd`, `OnePlace` |
| `pq_blocked` | 2 workers, 5 specs, capacity 1 | `PushGoesThrough` fails: every worker may wait for room that only workers make |
| `oq_order` | a tree of 6 results, capacity 2, buffer limit 2 | holds: `OQTypeOK`, `DepthFirst`, `AllSentReturned`, `NoGap`, `ConsumerEnds` |
| `oq_bound` | the same | `BufferBounded` fails: `recv_timeout` adds beyond the limit |
| `serial` | 6 directories, a link across and links back to the root and to a directory above it, `std::fs::read_dir` platform, every assignment of 4 faults to the directories | holds: `StacksAgree`, `NothingTwice`, `KeepsPromise`, `SerialEnds` |
| `serial_loop` | a link to a directory that holds a link to itself | `NothingTwice` fails: the loop is not noticed |
| `pw_walk` | 5 directories with a link and an unknown type, 2 workers, capacity 2, buffer 2, 3 fault cases, streaming and not, busy timeout | holds: `NothingLeft`, `ScheduledOnce`, `OwnPaths`, `OwnContents`, `KeepsPromise`, `UsesQueue` |
| `pw_live` | 5 directories, a link beside a directory, 2 workers, capacity 2, buffer 1, streaming and not, busy timeout | holds: `WalkEnds`, `WorkersFreed` |
| `pw_break` | a listing that breaks off after a streamed subdirectory | `OwnContents` fails |
| `pw_mixed` | a directory and a followed link side by side, streaming | `OwnContents` fails |
| `read_dir` | one thread, two readings out of four directories on three file systems, three platforms, five option sets, six faults | holds: `DRTypeOK`, `AsReadDir`, `Reported`, `StreamedMatch`, `SameAsLocalSync`, `OnlyNetwork`, `ReadEnds` |
| `uring_buffers` | the same on Linux, one reading | `BuffersAlive` fails: a signal ends a wait, and buffers of requests in flight are freed |

Why the bounds are enough. Three workers on one slot allow one to receive while
two push, and all to push at once; four specs give equal and different weights
and a second generation. The results of `oq_order` need a return over two
levels, siblings on two levels, and a buffer limit below the number of results
that can be out of order. The tree of `serial` is one level deeper than that of
`pw_walk`, so that entries behind a link to the root would come within
`MaxDepth` 3. The tree of `pw_walk` gives both ways of scheduling, a depth at
the limit (`MaxDepth` 2) and below `MinDepth`, and one directory for each kind
of entry. `SpecSet` in `MCParWalk` is all specs such a tree can give.

`read_dir` reads twice, so that the second reading finds the buffer, the cached
strategy and the probe result of the first. Two records fit the buffer
(`BufferRecords`) where a listing with its dots has four or five: every listing
takes several queries and every query may leave stale records behind. Two
requests fit the ring (`RingSize`) where a listing has three entries: a full
chunk in which answers can be swapped, and a last one that is not full.
`MinBatch` 2 lets a listing that broke off stay below it. `MaxRetries` 2 with
faults of one, two and three attempts gives a retry that heals, one that heals
last, and one too few. Its thread stops after `MaxReads`, so deadlock is not
checked; `ReadEnds` says that no reading stops half way.

`pq_safety` and `pq_blocked` do not check for deadlock, because the queue has
one (that is what `pq_blocked` shows). `pw_walk` and `pw_live` do, with a
channel large enough for their trees: the passing liveness results are to be
read with that in mind. With one slot, and a tree with three subdirectories in
one directory, a drop leaves a worker in `push` for ever.

`pw_walk`'s fault cases let a listing break off only where no subdirectory of
known type is in it, and its tree puts no link beside a directory: the two
situations of `pw_break` and `pw_mixed`, where the promise is not kept.
`pw_live`'s tree has such a link on purpose: the caller then asks for one result
too many, is told there is none, and still gets to the end.

Fairness. Worker threads keep running and the caller keeps calling `next()`
(weak fairness of each worker, of the consumer, and of `try_new`'s steps). No
fairness is assumed of the caller dropping the iterator or of `stop`. The pool
is assumed to get to the closure only if no busy timeout is set: that is the
case the options' documentation leaves to the user; with a timeout `WalkEnds`
holds even if it never does. In `read_dir` the thread keeps running and the
kernel answers every request; nothing is assumed of signals, of `stop` or of a
next reading.

### Findings

1. `core/priority_queue.rs:70`: pushes can block for ever (`pq_blocked`).
2. `core/ordered_queue.rs:157`: the buffer exceeds its limit (`oq_bound`).
3. `lib.rs:1403`: after a broken streaming enumeration the streamed children's
   results are given to other directories (`pw_break`).
4. `lib.rs:1365`: a followed link, or an entry of unknown type, beside a
   streamed directory is given that directory's contents (`pw_mixed`).
   Windows has the mirror image at `lib.rs:1036`: links and junctions to
   directories are streamed although the walk does not go into them, and their
   contents go to the next directory (the same instance with
   `Platform = "windows"` and `FollowLinks = FALSE`).
5. `core/metadata.rs:149`: an ancestor entered through a link is remembered as
   the link, so a link back to it is not seen to close a loop (`serial_loop`).
6. `core/linux_io_uring.rs:194`: `submit_and_wait` returns early when a signal
   ends it after the requests were handed over, and the buffers, declared after
   the ring, are freed before it with requests in flight (`uring_buffers`),
   against the module's own rule at lines 11 to 13. Metadata stays right
   (`SameAsLocalSync`): what was not harvested is asked for again.

Noticed while modelling, without a run of their own:

* `core/weighted.rs:41`: lower weights pop first, against the comments at lines
  7 and 40. The models have the code's order; no property depends on it.
* `core/error.rs:277`: `ESTALE` is 116 on Linux, not 150, and error kinds count
  only for errors without a number, so an interrupted call is not retried.
* `lib.rs:769`: the comment says that errors keep their order when entries are
  sorted; the sort is `sort_unstable_by`, which promises nothing of equal items.
  `DirReader` allows every order the comparison allows (`Sortings`).
* `lib.rs:1524`: on Linux an entry of unknown type whose `stat` fails becomes a
  regular file; on other systems it is an error, before its name is checked for
  being hidden.
* `IoStrategy::SkipNlinks` makes no difference on Linux, and the fallback path
  of the Windows `make_metadata_ext` is never given.

## Proofs

Every theorem holds for all values of the constants that satisfy the
assumptions of the modules, which TLC evaluates on each instance. The
assumptions ask for no more than what the code relies on:

* `PQAssumption`, `OQAssumption`: capacities of at least one, finitely many
  workers, at most one root spec.
* `TreeAssumption`: the results of a walk form a tree, each with the children it
  counts.
* `ListingAssumption`, `FaultAssumption`, `DRAssumption`: entries that lead
  somewhere lead to a directory of the instance, listings are sequences, and a
  fault strikes within the listing.
* `ParAssumption`: these, at least one worker, and `SpecSet` holds the root's
  spec and what can be pushed below it.

Some theorems have a hypothesis on the tree besides: `OneWayIn`,
`StreamsCleanly` and `TreeBesidesLoops`, explained below. None is without
instances: `MCParWalk` and `MCSerialWalk` have TLC evaluate `StreamsCleanly` on
`pw_walk`'s tree and faults, and `IsTree`, with the subtrees written out, on
`serial`'s.

| Theorem | States | Module |
| --- | --- | --- |
| `TypeCorrect`, `CounterExact`, `EachAtOnePlace`, `NeverEndsEarly` | `TypeOK`, `CountIsExact`, `OnePlace`, `NoEarlyEnd` of `PriorityQueue` | `PriorityQueueProofs` |
| `PathsAreOrdered` | the order of index paths is strict and total | `OrderProofs` |
| `OQTypeCorrect`, `ReturnsDepthFirst`, `LosesNone`, `LeavesNoGap` | `OQTypeOK`, `DepthFirst`, `AllSentReturned`, `NoGap` of `OrderedResults` | `OrderedResultsProofs` |
| `SerialKeepsPromise`, `SerialStacksAgree` | `KeepsPromise` (the serial walk implements `WalkSpec`), `StacksAgree` | `SerialWalkProofs` |
| `YieldsNothingTwice` | `NothingTwice`, on trees with `TreeBesidesLoops` | `SerialWalkProofs` |
| `ParUsesQueue` | `UsesQueue` (the parallel walk implements `PriorityQueue!Spec`) | `ParWalkProofs` |
| `WalkNeverEndsEarly`, `PathsAreOwn` | `PQ!NoEarlyEnd` of the whole walk, `OwnPaths` | `ParWalkProofs` |
| `DirectoriesOnce` | `ScheduledOnce`, on trees with `OneWayIn` | `ParWalkProofs` |
| `ParKeepsPromise`, `LeavesNothing`, `GivesOwnContents` | `KeepsPromise` (the parallel walk implements `WalkSpec`), `NothingLeft`, `OwnContents`, where `StreamsCleanly` holds | `ParPromiseProofs` |
| `ReaderTypes`, `StreamedAreReported`, `StreamedInOrder`, `BatchesChangeNothing`, `RingsForNetworkOnly` | `DRTypeOK`, `Reported`, `StreamedMatch`, `SameAsLocalSync`, `OnlyNetwork` of `DirReader` | `DirReaderProofs` |
| `ReadsAsOneStep` | `AsReadDir`: reading step by step comes to what `ReadDir` says | `DirReaderProofs` |

**The spec queue.** The inductive invariant `IInv` adds to the four properties
what they rest on. `CountIsExact` adds the sizes of four collections, so they
must be finite, and a spec that enters the heap must not be there already: that
is `OnePlace`, which in turn needs that a spec is never pushed twice
(`AllIssued`: every place holds issued specs only) and that a worker has a spec
to send exactly while it sends (`Slots`). `NoEarlyEnd` is not inductive as it
stands; `EndedAtZero` (the counter is zero once the iterator has ended without a
stop) is, and together with `CountIsExact` it gives `NoEarlyEnd` (lemma
`ZeroIsIdle`). It is preserved because a counter can only grow by a busy
worker's push, and with a zero count nobody is busy. The mutex of `par_bridge`
is not needed for any of the four.

**The result queue.** `OQInv` has two phases. In the first (`Tracking`)
everything not returned is at or after `looking_for` and after everything
returned; `Matched` says what the stack counts: at each level, the children of
the result above it that are still to come. When the matcher climbs, the path it
comes to is the next one in depth-first order (the lemmas on the matcher, by the
least level that is not used up). The second phase (`Flushing`) begins when the
senders are gone and a result is returned that was not looked for: the one
looked for can never come, and the heap is emptied in its order. `Places` says
that a result sent is in one place, which is what `LosesNone` needs.

**The serial walk.** Two stacks are kept separately, of listings and of specs;
the refinement needs that the spec on top is that of the directory the iterator
is at. `Aligned` says it: the specs correspond one to one, in order, to the
entries still ahead that lead to a directory, an entry being named by its level
and its distance from the end of its listing, which does not change as the
listing is consumed. `StacksAgree` says the same by counting what is still
ahead, and follows.

`NothingTwice` is about the tree as much as about the walk: `serial_loop` has a
tree of which it is false. `TreeBesidesLoops` says that the ways into
directories form a tree once the links to ancestors are left out: there are
`under[d]`, the items the walk may yield below `d`, and `up[d]`, identities that
every way to `d` passes, such that names in a listing differ, two entries lead
to disjoint sets of items, and a link out of `d` leads to a directory of `up[d]`
or counts as a way. In `serial_loop`'s tree the directory entered through a link
is not in any `up`, because its ancestors hold the link. The invariant
`OnceInv` says that the entries on the stack claim different items (`Apart`) and
that no item yielded is claimed any more (`Yielded`). Going into a directory
splits its claim among the entries of its listing (`EntriesOnce`; `ReadOnce` for
a listing that breaks off); this is where `up` is needed, since the entry must
know the ancestors for `follow_symlink` to make an error of the link.

**The parallel walk.** `ParInv` carries the invariant of the spec queue (through
a second instance, `Q == INSTANCE PriorityQueueProofs`, whose lemmas are cited
for the walk), and says of the index paths that they form a tree (`Tree`), that
a spec that waits has no child yet (`Fresh`), and that a worker's spec has only
the children the worker gave it (`Underway`). So a push is always of a new spec,
which is the one condition `PriorityQueue` puts on it, and `UsesQueue` follows
step by step; with it everything proved of the queue holds of the walk.
`OnceInv` adds where specs come from: a second spec for a directory would come
from the same entry of the same parent, hence be one its worker still had or had
given already. Its hypothesis `OneWayIn` (one entry at most leads to a
directory, none to the root) is true of every file system as long as no link to
a directory is followed, or on Windows streamed, because directories have no
second hard link; it is true of the trees of `pw_live`, `pw_break` and
`pw_mixed`. With followed links a directory may rightly be read once for each
way to it.

**The promise of the parallel walk.** Every directory of a walk has one path of
numbers in the tree that the faults chosen at the start determine (`TreePaths`),
and one result, that of reading it at once (`ResultAt`). `PromiseInv` relates
the four parts of the walk to this tree.

* The workers: a spec pushed, or still to be pushed, is that of a path of the
  tree (`WorkInv`, `TaskInv`), and a result that was sent is the `ResultAt` of
  its path, sent when all its children's specs are known (`SentInv`). Streaming
  decides on children before the result is there, so this is where
  `StreamsCleanly` is needed.
* The channel: a result sent is at one place (`PlaceInv`).
* The matcher: its counters are those of `looking_for`'s ancestors (`Tracks`),
  and exactly the results before `looking_for` were returned (`MatchInv`).
  `OrderedResults` assumes senders that may vanish at any time and so has a
  second phase; here a worker leaves only when the iterator has answered None
  (`Leaves`), which by `NoEarlyEnd` is when nothing is left to read. Hence once
  the senders are gone every result of the tree was sent, and the one looked for
  is in the buffer: `ReturnRest` never skips.
* The caller: what it has still to go into on each level of its stack is what
  the matcher expects there (`Follows`). So the directory it is at is the one
  whose result `looking_for` names, and when its stack is empty so is
  `looking_for`, all was returned, and by `PlaceInv` nothing is left.

A root that is no directory has no tree (`EmptyInv`), and after a stop nothing
is claimed but that the caller is at its end (`CallerInv`).

`StreamsCleanly` says nothing of a walk that does not stream. For one that does
it asks for a build whose reader streams (Linux or Windows), and that a listing
with streamed directories has no other way in and does not break off after one.
Both conditions on listings are needed: `pw_mixed` breaks the first, `pw_break`
the second, and each refutes `OwnContents`.

**Reading a directory.** `ReaderInv` is a conjunction along the stages.
`ReadInv`: the entries met so far are the first ones of the listing, because the
slots parsed are those the last query filled and nothing older. `StrategyInv`:
the cached answers are those of their devices. `RingInv`: a ring is
open only while a chunk is fetched, and the chunks stay within the entries. `ScheduleInv`: what was handed to the queue is
distinct and counted. `FetchInv`: an entry was given its own metadata or none.
`StreamInv`: what was scheduled is what parsing wanted, in order, and an attempt
that is repeated had scheduled nothing. `OutcomeInv`: the result is one of three
kinds. `AsReadDir`, `SameAsLocalSync` and `StreamedMatch` follow from the
finished state alone.

How the provers are helped. They have no induction, so orders, positions and
counts are handled by least numbers, ranks and cardinalities. A filter is
`ItemsAt(seq, positions)` of `Positions`, the items at some positions in order,
defined by what it is instead of by recursion; `OrderProofs` has what it
selects, and that two such selections of equally many items agree.
`ReadDirProofs` has the facts about `ReadDir` that both walks need: results are
listings, children's paths are numbered, every entry gone into leads where the
entry at its position does.

Only model-checked is all liveness (`ConsumerEnds`, `SerialEnds`, `WalkEnds`,
`WorkersFreed`, `ReadEnds`), which is outside what the prover supports. Every
invariant and every other property of the passing runs has its theorem.

## Not modelled

* `RayonNewPool`'s thread-local pool; panics in client callbacks; a
  `channel_capacity` of 0, with which `into_iter` itself blocks.
* The builder's setters, `Error`'s accessors and `Display`, conversions of times
  and attributes, volume serial numbers, the layout of kernel records: data
  without control.
* Changes of the tree during a walk, and remounts that reuse a device number.
* The examples and benchmarks, among them `examples/class77_poc.rs`.

## Plan

1. Done: the spec queue, the result queue, both walks, the startup handshake,
   symbolic links, the error table, reading a directory on each platform,
   io_uring batches, the strategy cache; the theorems above.
2. Left: the panics, the zero capacity and the kept pools of the last section,
   should the code come to promise something of them. Once findings 3 and 4
   are settled `StreamsCleanly` should no longer be needed, and once finding 5
   is, `TreeBesidesLoops` should hold of trees such as `serial_loop`'s, with
   `up` the directories above instead of the links.

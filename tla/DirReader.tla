------------------------------ MODULE DirReader ------------------------------
(***************************************************************************)
(* How one worker thread reads directories, step by step: the attempts of  *)
(* retry_transient_io, the enumeration through the thread's buffer on each *)
(* platform, the streaming of subdirectories, the choice of a strategy for *)
(* metadata, the batches of statx requests a second actor, the kernel,     *)
(* answers in any order, and the making of the listing.  ReadDir has what  *)
(* the walk sees of all this, in one step.                                 *)
(*                                                                         *)
(* The depth limit is checked before all this (ReadDir!TooDeep).           *)
(***************************************************************************)
EXTENDS Integers, Functions, Positions

CONSTANTS Dirs, Listing, FollowLinks, MaxDepth, MaxRetries,   \* see ReadDir; an
                         \* entry also has hidden and stat, the best call that works
                         \* on it; names are numbers in the order of the strings
          Device,        \* the device of each directory
          FileSystem,    \* of each device: "local", "network" or "fat"
          Platforms,     \* the builds a run considers
          OptionCases,   \* the options a run considers
          FaultCases,    \* what may go wrong in one reading
          MaxReads,      \* bound: how many directories the thread reads
          BufferRecords, \* how many records TLS_BUFFER has room for
          RingSize,      \* RING_SIZE
          MinBatch       \* MIN_BATCH_FOR_IO_URING

ASSUME DRAssumption ==
    /\ MaxDepth \in Nat \ {0}
    /\ MaxRetries \in Nat
    /\ FollowLinks \in BOOLEAN
    /\ BufferRecords \in Nat \ {0}
    /\ RingSize \in Nat \ {0}
    /\ MinBatch \in Nat
    /\ Platforms \subseteq {"linux", "windows", "other"}
    /\ Device \in [Dirs -> DOMAIN FileSystem]
    /\ \A d \in Dirs :
          /\ Listing[d] \in Seq({Listing[d][n] : n \in DOMAIN Listing[d]})
          /\ \A n \in DOMAIN Listing[d] :
                Listing[d][n] \in [name : Nat, dir : Nat, hidden : BOOLEAN,
                                   type : {"dir", "unknown", "link", "broken", "file"},
                                   stat : {"statx", "fstatat", "none"}]
          /\ \A m, n \in DOMAIN Listing[d] : Listing[d][m].name = Listing[d][n].name => m = n
          /\ \A f \in FaultCases :
                /\ f.after \in 0 .. Len(Listing[d])
                /\ f.times \in Nat
                /\ ~f.opened => f.after = 0

VARIABLES platform,
          options,        \* [streaming, sort, skip_hidden, process, metadata]
          stop,           \* the walk's stop flag
          stage,          \* where the thread is; "idle" between readings
          \* the reading
          reads, dir, fault, attempt, streaming_ctx, result,
          scheduled,      \* history: the names handed to on_subdir's schedule
          \* the attempt
          use_streaming, streamed_count, cursor, loaded, slot, entries,
          prefetched,     \* of each entry: whose statx, or link count, was fetched
          \* the thread
          buffer,         \* TLS_BUFFER
          strategies,     \* IO_STRATEGY_CACHE
          strategy, uring_available,
          \* the batch
          chunk_start, ring

fixed == <<platform, options>>
reading == <<reads, dir, fault>>
tries == <<attempt, streaming_ctx>>
listing == <<use_streaming, streamed_count, cursor, loaded, slot, entries, scheduled, buffer>>
detection == <<strategies, strategy, uring_available>>
batch == <<prefetched, chunk_start, ring>>
readerVars == <<fixed, stop, stage, reading, tries, result, listing, detection, batch>>

R == INSTANCE ReadDir WITH
         Platform <- platform,
         RootEntry <- [name |-> 0, type |-> "dir", dir |-> 0]

NotFetched == 0
NotCached == "none"
NoResult == [ok |-> FALSE, list |-> <<>>, streamed |-> 0]
NoRing == [open |-> FALSE, buffers |-> "freed", inflight |-> {}, completions |-> <<>>,
           submitted |-> 0, failed |-> FALSE]
Blank == [dir |-> 0, pos |-> 0, next |-> FALSE]

ReaderInit ==
    /\ platform \in Platforms
    /\ options \in OptionCases
    /\ stop = FALSE
    /\ stage = "idle"
    /\ reads = 0 /\ dir = 0 /\ fault = R!NoFault /\ attempt = 0
    /\ streaming_ctx = FALSE /\ use_streaming = FALSE
    /\ result = NoResult
    /\ scheduled = <<>> /\ streamed_count = 0 /\ cursor = 0 /\ loaded = 0 /\ slot = 0
    /\ entries = <<>> /\ prefetched = <<>>
    /\ buffer = [i \in 1 .. BufferRecords |-> Blank]
    /\ strategies = [d \in DOMAIN FileSystem |-> NotCached]
    /\ strategy = "LocalSync"
    /\ uring_available = "unset"
    /\ chunk_start = 0
    /\ ring = NoRing

Lesser(a, b) == IF a < b THEN a ELSE b

Goes(from, to) == stage = from /\ stage' = to

Finish(read) ==
    /\ stage' = "idle"
    /\ result' = read

------------------------------------------------------------------------------
(* The read callback and retry_transient_io *)

\* A listing the build can meet: NT always says what an entry is.
CanMeet(d) ==
    platform = "windows" => \A n \in DOMAIN Listing[d] : Listing[d][n].type # "unknown"

\* A reading starts with fresh locals; the buffer and the caches stay.
Take(d, f) ==
    /\ Goes("idle", "open")
    /\ reads < MaxReads
    /\ CanMeet(d)
    /\ reads' = reads + 1
    /\ dir' = d
    /\ fault' = f
    /\ attempt' = 0
    /\ streaming_ctx' = options.streaming
    /\ scheduled' = <<>>
    /\ use_streaming' = FALSE /\ streamed_count' = 0
    /\ cursor' = 0 /\ loaded' = 0 /\ slot' = 0
    /\ entries' = <<>> /\ prefetched' = <<>> /\ chunk_start' = 0
    /\ strategy' = "LocalSync"
    /\ result' = NoResult
    /\ UNCHANGED <<fixed, stop, buffer, strategies, uring_available, ring>>

Fails == R!AttemptFails(fault, attempt)

\* Mutant: streaming although the listing is sorted.
StreamsSorted(ctx) == ctx /\ ~options.process /\ platform # "other"

\* use_streaming; std::fs::read_dir is not streamed.
Streams(ctx) == ctx /\ ~options.sort /\ ~options.process /\ platform # "other"

\* open_dir_fd, CreateFileW, or fs::read_dir.  The attempt takes the context.
Open ==
    /\ Goes("open", IF Fails /\ ~fault.opened THEN "failed" ELSE "query")
    /\ streaming_ctx' = FALSE
    /\ use_streaming' = Streams(streaming_ctx)
    /\ streamed_count' = 0
    /\ cursor' = 0
    /\ entries' = <<>>
    /\ UNCHANGED <<fixed, stop, reading, attempt, result, loaded, slot, scheduled, buffer,
                   detection, batch>>

\* Mutant: what was scheduled does not keep an attempt from being repeated.
RetryAnyway ==
    /\ stage = "failed"
    /\ IF attempt < MaxRetries /\ R!IsTransientIoError(fault.error)
       THEN stage' = "open" /\ attempt' = attempt + 1 /\ UNCHANGED result
       ELSE Finish(R!ReadErr) /\ UNCHANGED attempt
    /\ UNCHANGED <<fixed, stop, reading, streaming_ctx, listing, detection, batch>>

\* Mutant: the number of retries is not looked at.
RetryForever ==
    /\ stage = "failed"
    /\ IF R!IsTransientIoError(fault.error)
       THEN stage' = "open" /\ attempt' = attempt + 1 /\ UNCHANGED result
       ELSE Finish(R!ReadErr) /\ UNCHANGED attempt
    /\ UNCHANGED <<fixed, stop, reading, streaming_ctx, listing, detection, batch>>

\* The attempt ended with an error: an item of the listing, a listing of its
\* own that says what was scheduled, a further attempt, or the outcome.
AttemptFailed ==
    /\ stage = "failed"
    /\ IF platform = "other" /\ fault.opened
       THEN stage' = "make" /\ UNCHANGED <<attempt, result>>
       ELSE IF streamed_count > 0
       THEN Finish(R!ReadOk(<<[entry |-> R!ErrorEntry(dir), meta |-> <<>>]>>, streamed_count))
            /\ UNCHANGED attempt
       ELSE IF attempt < MaxRetries /\ R!IsTransientIoError(fault.error)
       THEN stage' = "open" /\ attempt' = attempt + 1 /\ UNCHANGED result
       ELSE Finish(R!ReadErr) /\ UNCHANGED attempt
    /\ UNCHANGED <<fixed, stop, reading, streaming_ctx, listing, detection, batch>>

------------------------------------------------------------------------------
(* The enumeration.  A record of the buffer is the pos-th of a directory;  *)
(* the first two are "." and "..".  What a query leaves of the buffer      *)
(* keeps the records of earlier queries.                                   *)

Dots == 2

\* How many records an attempt gets to see.
Available == Dots + (IF Fails THEN fault.after ELSE Len(Listing[dir]))

AfterListing ==
    CASE platform = "linux" -> "detect"
      [] platform = "windows" -> "nlinks"
      [] platform = "other" -> "make"

\* getdents64 or NtQueryDirectoryFileEx: some records, an error, or the end.
Query ==
    /\ stage = "query"
    /\ \/ /\ stage' = "parse"
          /\ \E n \in 1 .. Lesser(BufferRecords, Available - cursor) :
                /\ buffer' = [i \in 1 .. BufferRecords |->
                                 IF i <= n THEN [dir |-> dir, pos |-> cursor + i, next |-> i < n]
                                           ELSE buffer[i]]
                /\ loaded' = n
                /\ cursor' = cursor + n
          /\ slot' = 1
          /\ UNCHANGED prefetched
       \/ /\ cursor = Available
          /\ stage' = IF Fails THEN "failed" ELSE AfterListing
          /\ prefetched' = [i \in DOMAIN entries |-> NotFetched]
          /\ UNCHANGED <<buffer, loaded, cursor, slot>>
    /\ UNCHANGED <<fixed, stop, reading, tries, result, use_streaming, streamed_count,
                   entries, scheduled, detection, chunk_start, ring>>

\* Mutant: the whole buffer is parsed.
MoreStale == slot < BufferRecords

\* parse_dirents goes to the length the call returned, parse_buffer_entries to
\* the record without a NextEntryOffset.
MoreRecords == IF platform = "windows" THEN buffer[slot].next ELSE slot < loaded

Hidden(entry) == options.skip_hidden /\ entry.hidden

\* The on_subdir callback; schedule refuses once stop is set.
Schedules(entry) == use_streaming /\ R!IsStreamed(entry) /\ ~Hidden(entry) /\ ~stop

Parse ==
    LET record == buffer[slot]
        entry == Listing[record.dir][record.pos - Dots]
        isEntry == record.pos > Dots
        schedules == isEntry /\ Schedules(entry)
    IN  /\ Goes("parse", IF MoreRecords THEN "parse" ELSE "query")
        /\ entries' = IF isEntry THEN Append(entries, entry) ELSE entries
        /\ scheduled' = IF schedules THEN Append(scheduled, entry.name) ELSE scheduled
        /\ streamed_count' = IF schedules THEN streamed_count + 1 ELSE streamed_count
        /\ slot' = slot + 1
        /\ UNCHANGED <<fixed, stop, reading, tries, result, use_streaming, cursor, loaded,
                       buffer, detection, batch>>

------------------------------------------------------------------------------
(* Linux: the strategy for metadata *)

\* What statfs_strategy may answer: statfs or the probe of the latency may
\* fail, and the latency of a network file system may be low.
StatfsStrategies(fs) ==
    {"LocalSync"} \cup CASE fs = "network" -> {"NetworkAsync"}
                         [] fs = "fat" -> {"SkipNlinks"}
                         [] OTHER -> {}

\* Mutant: the device is not looked at.
DetectOnce ==
    /\ Goes("detect", "dispatch")
    /\ LET known == {d \in DOMAIN strategies : strategies[d] # NotCached}
       IN  \/ /\ known # {}
              /\ strategy' = strategies[CHOOSE d \in known : TRUE]
              /\ UNCHANGED strategies
           \/ /\ known = {}
              /\ strategy' \in StatfsStrategies(FileSystem[Device[dir]])
              /\ strategies' = [strategies EXCEPT ![Device[dir]] = strategy']
    /\ UNCHANGED <<fixed, stop, reading, tries, result, listing, uring_available, batch>>

\* IoStrategyCache::detect.  Without a device number nothing is cached.
Detect ==
    /\ Goes("detect", "dispatch")
    /\ \/ strategy' = "LocalSync" /\ UNCHANGED strategies
       \/ /\ strategies[Device[dir]] # NotCached
          /\ strategy' = strategies[Device[dir]]
          /\ UNCHANGED strategies
       \/ /\ strategies[Device[dir]] = NotCached
          /\ strategy' \in StatfsStrategies(FileSystem[Device[dir]])
          /\ strategies' = [strategies EXCEPT ![Device[dir]] = strategy']
    /\ UNCHANGED <<fixed, stop, reading, tries, result, listing, uring_available, batch>>

NeedMetaOrType == options.metadata \/ \E i \in DOMAIN entries : entries[i].type = "unknown"

\* io_uring_enabled: IO_URING_AVAILABLE is found out once.
Dispatch ==
    /\ stage = "dispatch"
    /\ \/ strategy # "NetworkAsync" /\ stage' = "make" /\ UNCHANGED uring_available
       \/ /\ strategy = "NetworkAsync"
          /\ uring_available' \in IF uring_available = "unset" THEN {"yes", "no"}
                                  ELSE {uring_available}
          /\ stage' = IF uring_available' = "yes" /\ NeedMetaOrType /\ Len(entries) >= MinBatch
                      THEN "ring" ELSE "make"
    /\ chunk_start' = 0
    /\ UNCHANGED <<fixed, stop, reading, tries, result, listing, strategies, strategy,
                   prefetched, ring>>

------------------------------------------------------------------------------
(* Linux: batch_statx_via_io_uring, a ring for each chunk of the entries   *)

ChunkLen == Lesser(RingSize, Len(entries) - chunk_start)

\* The ring may not be had; the error is ignored.
BuildRing ==
    /\ stage = "ring"
    /\ \/ stage' = "make" /\ UNCHANGED ring
       \/ stage' = "submit" /\ ring' = [NoRing EXCEPT !.open = TRUE, !.buffers = "live"]
    /\ UNCHANGED <<fixed, stop, reading, tries, result, listing, detection, prefetched,
                   chunk_start>>

\* submit_and_wait hands over the requests, one per entry of the chunk (names
\* from getdents64 hold no NUL), or fails.
Submit ==
    /\ stage = "submit"
    /\ \/ stage' = "wait" /\ ring' = [ring EXCEPT !.submitted = ChunkLen,
                                                  !.inflight = 1 .. ChunkLen]
       \/ stage' = "free" /\ ring' = [ring EXCEPT !.failed = TRUE]
    /\ UNCHANGED <<fixed, stop, reading, tries, result, listing, detection, prefetched,
                   chunk_start>>

\* The kernel answers a request, in any order, also while nobody waits for it.
Complete(i, ok) ==
    /\ i \in ring.inflight
    /\ ok => entries[chunk_start + i].stat = "statx"
    /\ ring' = [ring EXCEPT !.inflight = @ \ {i},
                            !.completions = Append(@, [user_data |-> i, ok |-> ok])]
    /\ UNCHANGED <<fixed, stop, stage, reading, tries, result, listing, detection,
                   prefetched, chunk_start>>

WaitForAll ==
    /\ Goes("wait", "harvest")
    /\ Len(ring.completions) >= ring.submitted
    /\ UNCHANGED <<fixed, stop, reading, tries, result, listing, detection, batch>>

\* A signal ends the system call early: with requests handed over it returns
\* as if nothing had happened.
Interrupted ==
    /\ Goes("wait", "harvest")
    /\ ring.inflight # {}
    /\ UNCHANGED <<fixed, stop, reading, tries, result, listing, detection, batch>>

Harvested == {k \in DOMAIN ring.completions : ring.completions[k].ok}

\* Mutant: the answers are taken to be in the order of the requests.
HarvestInOrder ==
    /\ Goes("harvest", "free")
    /\ prefetched' = [n \in DOMAIN entries |->
          IF \E k \in Harvested : chunk_start + k = n
          THEN entries[chunk_start + ring.completions[n - chunk_start].user_data].name
          ELSE prefetched[n]]
    /\ UNCHANGED <<fixed, stop, reading, tries, result, listing, detection, chunk_start, ring>>

\* The answers go to the entries their user_data names; failed ones nowhere.
Harvest ==
    /\ Goes("harvest", "free")
    /\ prefetched' = [n \in DOMAIN entries |->
          IF \E k \in Harvested : chunk_start + ring.completions[k].user_data = n
          THEN entries[n].name
          ELSE prefetched[n]]
    /\ UNCHANGED <<fixed, stop, reading, tries, result, listing, detection, chunk_start, ring>>

\* The locals are dropped, those declared last first: the buffers, then the
\* ring, with which the kernel gives up what is still in flight.
FreeBuffers ==
    /\ Goes("free", "close")
    /\ ring' = [ring EXCEPT !.buffers = "freed"]
    /\ UNCHANGED <<fixed, stop, reading, tries, result, listing, detection, prefetched,
                   chunk_start>>

\* Mutant: the same chunk again.
CloseRingHere ==
    /\ Goes("close", IF ring.failed \/ chunk_start + RingSize >= Len(entries)
                     THEN "make" ELSE "ring")
    /\ ring' = NoRing
    /\ UNCHANGED <<fixed, stop, reading, tries, result, listing, detection, prefetched,
                   chunk_start>>

CloseRing ==
    /\ Goes("close", IF ring.failed \/ chunk_start + RingSize >= Len(entries)
                     THEN "make" ELSE "ring")
    /\ ring' = NoRing
    /\ chunk_start' = chunk_start + RingSize
    /\ UNCHANGED <<fixed, stop, reading, tries, result, listing, detection, prefetched>>

------------------------------------------------------------------------------
(* Windows: the link counts *)

\* Without the volume's information its file system is unknown.
FsTypes == {"unknown", FileSystem[Device[dir]]}

\* On FAT all are known; elsewhere each is asked for, and any may be refused
\* (all on an old system).
LinkCounts(fs) == IF fs = "fat" THEN {DOMAIN entries} ELSE SUBSET DOMAIN entries

QueryNlinks ==
    /\ Goes("nlinks", "make")
    /\ \E known \in IF options.metadata THEN UNION {LinkCounts(fs) : fs \in FsTypes} ELSE {{}} :
          prefetched' = [n \in DOMAIN entries |->
                            IF n \in known THEN entries[n].name ELSE NotFetched]
    /\ UNCHANGED <<fixed, stop, reading, tries, result, listing, detection, chunk_start, ring>>

------------------------------------------------------------------------------
(* The listing: make_dir_entry_linux, make_dir_entry, or from_entry *)

Spec(d) == [dir |-> d, identity |-> d, follow_link_ancestors |-> {}]

\* The type of an entry, found out if the enumeration did not say.
MadeType(entry, got) ==
    IF entry.type # "unknown" THEN entry.type
    ELSE IF got # NotFetched \/ entry.stat # "none" THEN "dir"
    ELSE IF platform = "linux" THEN "file"
    ELSE "error"

\* Where the metadata comes from, and whose it is.
MadeMeta(entry, got) ==
    LET own == IF platform = "windows" THEN <<"listing", entry.name>>
               ELSE IF entry.stat # "none" THEN <<entry.stat, entry.name>>
               ELSE IF platform = "linux" THEN <<>>
               ELSE <<"file_type", entry.name>>
    IN  IF ~options.metadata THEN <<>>
        ELSE IF got = NotFetched THEN own
        ELSE IF platform = "linux" THEN <<"statx", got>>
        ELSE <<"listing", got>>

\* A link that is followed gets the metadata of where it leads, if it had any.
FollowedMeta(entry, meta) ==
    IF FollowLinks /\ entry.type = "link" /\ meta # <<>> THEN <<"metadata", entry.dir>>
    ELSE meta

MakeDirEntry(entry, got) ==
    [entry |-> R!FollowSymlink(R!AtDepth([entry EXCEPT !.type = MadeType(entry, got)], 1,
                                         R!Ancestors(Spec(dir)))),
     meta |-> FollowedMeta(entry, MadeMeta(entry, got))]

\* sort_dir_entries_by_name: entries by name, errors last.
SortsBefore(a, b) ==
    \/ a.entry.type # "error" /\ b.entry.type = "error"
    \/ a.entry.type # "error" /\ b.entry.type # "error" /\ a.entry.name < b.entry.name

\* What sort_unstable_by may make of a listing: errors come in any order.
Sortings(list) ==
    LET Sorts(order) == \A j, k \in DOMAIN list :
                            j < k => ~SortsBefore(list[order[k]], list[order[j]])
    IN  IF options.sort
        THEN {[k \in DOMAIN list |-> list[order[k]]] :
                 order \in {o \in Bijection(DOMAIN list, DOMAIN list) : Sorts(o)}}
        ELSE {list}

\* An entry that cannot be made on "other" is an error before its name is
\* looked at.
Shown(n) ==
    \/ ~Hidden(entries[n])
    \/ platform = "other" /\ MadeType(entries[n], NotFetched) = "error"

\* The entries that are shown, and the error that ended the listing.
MadeEntries ==
    ItemsAt([n \in DOMAIN entries |-> MakeDirEntry(entries[n], prefetched[n])],
            {n \in DOMAIN entries : Shown(n)})
      \o IF Fails
         THEN <<[entry |-> R!AtDepth(R!ErrorEntry(dir), 1, {}), meta |-> <<>>]>>
         ELSE <<>>

\* A process_read_dir callback may remove items.
Make ==
    /\ stage = "make"
    /\ \E list \in Sortings(MadeEntries) :
          \E kept \in IF options.process THEN SUBSET DOMAIN list ELSE {DOMAIN list} :
              Finish(R!ReadOk(ItemsAt(list, kept), streamed_count))
    /\ UNCHANGED <<fixed, stop, reading, tries, listing, detection, batch>>

------------------------------------------------------------------------------

\* The caller drops the iterator.
RaiseStop ==
    /\ ~stop
    /\ stop' = TRUE
    /\ UNCHANGED <<fixed, stage, reading, tries, result, listing, detection, batch>>

Thread ==
    \/ Open \/ Query \/ Parse \/ AttemptFailed
    \/ Detect \/ Dispatch
    \/ BuildRing \/ Submit \/ WaitForAll \/ Harvest \/ FreeBuffers \/ CloseRing
    \/ QueryNlinks
    \/ Make

ReaderNext ==
    \/ \E d \in Dirs, f \in FaultCases : Take(d, f)
    \/ Thread
    \/ \E i \in 1 .. RingSize, ok \in BOOLEAN : Complete(i, ok)
    \/ Interrupted
    \/ RaiseStop

Reader == ReaderInit /\ [][ReaderNext]_readerVars

\* The thread keeps running, and the kernel answers every request.
FairReader ==
    /\ Reader
    /\ WF_readerVars(Thread)
    /\ \A i \in 1 .. RingSize : WF_readerVars(\E ok \in BOOLEAN : Complete(i, ok))

------------------------------------------------------------------------------
(* Properties *)

\* The stages, counters and records of a reading; attempts stay within
\* MaxRetries, and no more is parsed than a query returned.
DRTypeOK ==
    /\ stage \in {"idle", "open", "query", "parse", "failed", "detect", "dispatch", "ring",
                  "submit", "wait", "harvest", "free", "close", "nlinks", "make"}
    /\ attempt \in 0 .. MaxRetries
    /\ stage \in {"query", "parse"} => cursor \in 0 .. Available
    /\ stage = "parse" => slot \in 1 .. loaded
    /\ strategies \in [DOMAIN FileSystem -> {NotCached, "LocalSync", "NetworkAsync", "SkipNlinks"}]
    /\ uring_available \in {"unset", "yes", "no"}
    /\ ring.inflight \subseteq 1 .. RingSize

Done == stage = "idle" /\ reads > 0

Entry(name) == CHOOSE entry \in {Listing[dir][n] : n \in DOMAIN Listing[dir]} : entry.name = name

\* What ReadDir says of the reading that is over.
Atomic ==
    IF Streams(options.streaming)
    THEN R!StreamingRead(R!Weighted(Spec(dir), <<0>>, 0), fault, Len(scheduled))
    ELSE R!CoreReadDir(Spec(dir), 0, fault)

\* The entry of a listing, its type found out.
Resolved(entry) ==
    IF entry.type = "unknown"
    THEN [entry EXCEPT !.type = MadeType(Entry(entry.name), NotFetched)] ELSE entry

\* Through all retries, short reads and reuse of the thread's buffer, and
\* whatever becomes of the batches, a directory reads as the one step ReadDir
\* has for it: as a success or an error, with the same entries in the same
\* order, and with the same number of scheduled subdirectories.
AsReadDir ==
    Done /\ ~options.sort /\ ~options.skip_hidden /\ ~options.process =>
        /\ result.ok = Atomic.ok
        /\ result.streamed = Atomic.streamed
        /\ [n \in DOMAIN result.list |-> result.list[n].entry]
             = [n \in DOMAIN Atomic.list |-> Resolved(Atomic.list[n])]
        /\ Streams(options.streaming) /\ ~stop => Len(scheduled) = R!StreamLimit(dir, fault)

\* A subdirectory handed to the queue is never handed to it again, and is
\* always in the count that goes with the result: an error must not hide it.
Reported ==
    Done => /\ Len(scheduled) = IF result.ok THEN result.streamed ELSE 0
            /\ Cardinality({scheduled[n] : n \in DOMAIN scheduled}) = Len(scheduled)

\* In a complete listing of directories and files the caller meets the
\* streamed subdirectories in the order in which they were scheduled, whatever
\* is hidden, sorted or removed by a callback.
StreamedMatch ==
    (/\ Done /\ result.ok /\ result.streamed > 0
     /\ ~stop /\ ~R!AttemptFails(fault, 0)
     /\ \A n \in DOMAIN Listing[dir] : Listing[dir][n].type \in {"dir", "file"})
    => LET children == ItemsAt(result.list, {n \in DOMAIN result.list :
                                                R!ReadsChildren(result.list[n].entry)})
       IN  [n \in DOMAIN children |-> children[n].entry.name] = scheduled

\* An entry has its own metadata, the same a call for it alone would give,
\* whether its request was batched, failed, was interrupted or never made
\* (lib.rs:1448: the fallback behaves like LocalSync).
SameAsLocalSync ==
    Done => \A n \in DOMAIN result.list :
        LET item == result.list[n]
        IN  item.entry.type # "error" =>
                item = MakeDirEntry(Entry(item.entry.name), NotFetched)

\* Batches are used on network file systems only, where the kernel has
\* io_uring, over all directories a thread reads (linux_io_uring.rs:3).
OnlyNetwork ==
    ring.open => FileSystem[Device[dir]] = "network" /\ uring_available = "yes"

\* The buffers of a chunk live until every request that points to them was
\* answered (linux_io_uring.rs:11-13, and :211 where they are dropped).
\* A wait that a signal ends returns sooner.
BuffersAlive == ring.open /\ ring.buffers = "freed" => ring.inflight = {}

\* A reading comes to an end.
ReadEnds == stage # "idle" ~> stage = "idle"
==============================================================================

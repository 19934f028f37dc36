---------------------------- MODULE DirEntryIter -----------------------------
(***************************************************************************)
(* The iterator the caller sees (core/dir_entry_iter.rs): a stack of       *)
(* partly consumed listings, and what next() has yielded.  Each operation  *)
(* is one turn of next()'s loop.                                           *)
(***************************************************************************)
EXTENDS ReadDir

CONSTANT MinDepth   \* WalkDirGeneric::min_depth

(***************************************************************************)
(* Listings are sequences, and what the walk goes into is a directory.     *)
(***************************************************************************)
LeadsToDir(entry) == entry.type \in {"dir", "unknown", "link"} => entry.dir \in Dirs

ASSUME ListingAssumption ==
    /\ LeadsToDir(RootEntry)
    /\ \A d \in Dirs :
          /\ Listing[d] \in Seq({Listing[d][n] : n \in DOMAIN Listing[d]})
          /\ \A n \in DOMAIN Listing[d] : LeadsToDir(Listing[d][n])

VARIABLES read_dir_results_stack,   \* the rests of the listings being walked
          output                    \* history: [name, error] of each item yielded

iterVars == <<read_dir_results_stack, output>>

IterInit ==
    /\ read_dir_results_stack = <<<<RootDirEntry>>>>
    /\ output = <<>>

TopList == read_dir_results_stack[Len(read_dir_results_stack)]

HasEntry == read_dir_results_stack # <<>> /\ TopList # <<>>

NextEntry == Head(TopList)

Consumed == [read_dir_results_stack EXCEPT ![Len(read_dir_results_stack)] = Tail(@)]

\* Err items are always yielded, entries from MinDepth on.
Yield(entry, error) ==
    output' = IF entry.type = "error" \/ entry.depth >= MinDepth
              THEN Append(output, [name |-> entry.name, error |-> error])
              ELSE output

\* Mutant: a used-up listing stays on the stack.
KeepList ==
    /\ read_dir_results_stack # <<>>
    /\ TopList = <<>>
    /\ UNCHANGED <<read_dir_results_stack, output>>

\* The top listing is used up.
PopList ==
    /\ read_dir_results_stack # <<>>
    /\ TopList = <<>>
    /\ read_dir_results_stack' =
          SubSeq(read_dir_results_stack, 1, Len(read_dir_results_stack) - 1)
    /\ UNCHANGED output

\* An Err, or an entry the walk does not go into.
YieldEntry ==
    /\ HasEntry
    /\ ~ReadsChildren(NextEntry)
    /\ read_dir_results_stack' = Consumed
    /\ Yield(NextEntry, NextEntry.type = "error")

AtDirectory == HasEntry /\ ReadsChildren(NextEntry)

\* A directory, with the result the ReadDirIter gave for it: its listing goes
\* on the stack, an Err (or None) becomes the entry's read_children_error.
YieldDirectory(result) ==
    /\ AtDirectory
    /\ read_dir_results_stack' =
          IF result.ok THEN Append(Consumed, result.list) ELSE Consumed
    /\ Yield(NextEntry, ~result.ok)

\* A directory when there is no ReadDirIter: an Err takes its place.
YieldBusy ==
    /\ AtDirectory
    /\ read_dir_results_stack' = Consumed
    /\ output' = Append(output, [name |-> "busy", error |-> TRUE])

Exhausted == read_dir_results_stack = <<>>
==============================================================================

------------------------------- MODULE ReadDir -------------------------------
(***************************************************************************)
(* Reading one directory: the file tree, what an attempt to read one of    *)
(* its directories gives, the retries, and the specs for its children      *)
(* (core/read_dir.rs and the read callback of lib.rs).                     *)
(*                                                                         *)
(* The file system does not change during a walk.  An entry's type is what *)
(* getdents says: "dir" (DT_DIR), "unknown" (a directory on a file system  *)
(* that gives no d_type), "link" (a symbolic link to a directory),         *)
(* "broken" (one to nothing), "file"; "error" marks an Err in a listing,   *)
(* or the root when it does not exist.  An entry without d_type that is no *)
(* directory, or cannot be asked for its type, becomes a file, and is one  *)
(* here from the start; DirReader has the asking.                          *)
(***************************************************************************)
EXTENDS IndexPath, Positions

CONSTANTS Dirs,            \* the directories
          Listing,         \* their entries: [name, type, dir], dir where they lead
                           \* to; names are unique, and identify links
          RootEntry,       \* the entry the walk starts from
          Platform,        \* the build: "linux" (getdents), "windows" (NT), or
                           \* "other" (std::fs::read_dir)
          FollowLinks,     \* WalkDirGeneric::follow_links
          MaxDepth,        \* WalkDirGeneric::max_depth
          MaxRetries       \* WalkDirGeneric::max_retries

ASSUME RDAssumption ==
    /\ Platform \in {"linux", "windows", "other"}
    /\ FollowLinks \in BOOLEAN
    /\ MaxDepth \in Nat
    /\ MaxRetries \in Nat

(***************************************************************************)
(* Errors, as is_transient_io_error looks at them: the error number if the *)
(* system gave one, and otherwise the kind.  The numbers mean these errors *)
(* on their own system only.                                               *)
(***************************************************************************)
NoCode == 0

EAGAIN == [code |-> 11, kind |-> "WouldBlock"]
EIO == [code |-> 5, kind |-> "Other"]
ESTALE == [code |-> 116, kind |-> "Other"]   \* NFS; its number on Linux
SharingViolation == [code |-> 32, kind |-> "Other"]
NulInName == [code |-> NoCode, kind |-> "InvalidInput"]

Errors == {EAGAIN, EIO, ESTALE, SharingViolation, NulInName}

TransientCodes == IF Platform = "windows" THEN {32, 33, 54, 121, 1237} ELSE {11, 16, 150}

IsTransientIoError(err) ==
    IF err.code # NoCode THEN err.code \in TransientCodes
    ELSE err.kind \in {"TimedOut", "Interrupted", "WouldBlock", "ConnectionReset",
                       "ConnectionAborted"}

(***************************************************************************)
(* How reading a directory goes wrong: the first attempts fail, when they  *)
(* open it, or after having listed some of its entries.                    *)
(***************************************************************************)
Fault(opened, after, error, times) ==
    [opened |-> opened, after |-> after, error |-> error, times |-> times]

NoFault == Fault(TRUE, 0, EIO, 0)

Faults == [opened : BOOLEAN, after : Nat, error : Errors, times : 0 .. MaxRetries + 1]

\* The DirEntry of an entry found at the given depth.
AtDepth(entry, depth, ancestors) ==
    [name |-> entry.name, type |-> entry.type, dir |-> entry.dir, depth |-> depth,
     follow_link_ancestors |-> ancestors]

\* AncestorIdentity::from_path: lstat, so a link is identified, not its target.
Identity(entry) == IF entry.type = "link" THEN entry.name ELSE entry.dir

\* read_children_path is set: the walk goes into the DirEntry.  A link given
\* as the root is always followed.
ReadsChildren(entry) ==
    \/ entry.type \in {"dir", "unknown"}
    \/ entry.type = "link" /\ (FollowLinks \/ entry.depth = 0)

\* read_children_spec: the path to read, as where it leads and what lstat says
\* of it, and the ancestors of the entry.
ReadDirSpec(entry) ==
    [dir |-> entry.dir, identity |-> Identity(entry),
     follow_link_ancestors |-> entry.follow_link_ancestors]

\* What the walk starts with: from_path and process_dir_entry_result.  The
\* target of a link given as the root is looked at whether links are followed
\* or not; there is an Err for one that leads nowhere.
RootDirEntry ==
    LET root == AtDepth(RootEntry, 0, IF FollowLinks THEN {Identity(RootEntry)} ELSE {})
    IN  IF RootEntry.type = "broken" THEN [root EXCEPT !.type = "error"] ELSE root

\* The ancestors given to the entries of a directory.
Ancestors(spec) ==
    IF FollowLinks THEN spec.follow_link_ancestors \cup {spec.identity} ELSE {}

\* Mutant: the target of a link is not compared with the ancestors.
FollowBlindly(entry) == entry

\* follow_symlink: a link to an ancestor becomes Err(Error::from_loop(..)), a
\* broken one the error of from_path.
FollowSymlink(entry) ==
    IF /\ FollowLinks
       /\ \/ entry.type = "broken"
          \/ entry.type = "link" /\ entry.dir \in entry.follow_link_ancestors
    THEN [entry EXCEPT !.type = "error"]
    ELSE entry

Entries(spec, depth) ==
    [n \in 1 .. Len(Listing[spec.dir]) |->
        FollowSymlink(AtDepth(Listing[spec.dir][n], depth, Ancestors(spec)))]

\* Err(Error::from_path(0, path, err)) as an item of a listing.
ErrorEntry(dir) ==
    AtDepth([name |-> dir, type |-> "error", dir |-> dir], 0, {})

ReadOk(list, streamed) == [ok |-> TRUE, list |-> list, streamed |-> streamed]

ReadErr == [ok |-> FALSE, list |-> <<>>, streamed |-> 0]

AttemptFails(fault, attempt) == attempt < fault.times

\* std::fs::read_dir hands out an error that comes after the opening as the
\* last item of a listing that counts as read.
Partial(spec, depth, fault) ==
    ReadOk(SubSeq(Entries(spec, depth), 1, fault.after)
              \o <<AtDepth(ErrorEntry(spec.dir), depth, {})>>, 0)

\* retry_transient_io around attempts that stream nothing, from the given one
\* on: MaxRetries more after the first, as long as the error is transient.
RetryTransientIo(spec, depth, fault, first) ==
    IF Platform = "other" /\ fault.opened /\ AttemptFails(fault, first)
    THEN Partial(spec, depth + 1, fault)
    ELSE IF \E attempt \in first .. MaxRetries :
              /\ ~AttemptFails(fault, attempt)
              /\ attempt > first => IsTransientIoError(fault.error)
    THEN ReadOk(Entries(spec, depth + 1), 0)
    ELSE ReadErr

\* The depth limit: the directory counts as read, and empty.
TooDeep(depth) == depth + 1 > MaxDepth

\* The read callback without a streaming context.
CoreReadDir(spec, depth, fault) ==
    IF TooDeep(depth) THEN ReadOk(<<>>, 0) ELSE RetryTransientIo(spec, depth, fault, 0)

\* read_children_specs: the entries the walk goes into, in listing order.
ReadChildren(list) == ItemsAt(list, {n \in DOMAIN list : ReadsChildren(list[n])})

\* Weighted<ReadDirSpec>; its depth is that of its index path.
Weighted(spec, path, weight) == [value |-> spec, index_path |-> path, weight |-> weight]

Depth(weighted) == Len(weighted.index_path) - 1

\* weighted_children_specs of a result that streamed nothing.
WeightedChildren(list, parent) ==
    [n \in 1 .. Len(ReadChildren(list)) |->
        Weighted(ReadDirSpec(ReadChildren(list)[n]), Adding(parent.index_path, n - 1),
                 parent.weight + Len(list))]

\* The entries the streaming enumeration schedules: DT_DIR on Linux; on
\* Windows whatever has FILE_ATTRIBUTE_DIRECTORY, reparse points included.
StreamedTypes == IF Platform = "windows" THEN {"dir", "link"} ELSE {"dir"}

IsStreamed(entry) == entry.type \in StreamedTypes

\* The entries the walk may go into, or stream.
GoesInto(entry) ==
    \/ entry.type \in {"dir", "unknown"}
    \/ entry.type = "link" /\ (FollowLinks \/ Platform = "windows")

StreamedDirs(dir) ==
    ItemsAt(Listing[dir], {n \in DOMAIN Listing[dir] : IsStreamed(Listing[dir][n])})

StreamedChild(parent, n) ==
    LET found == StreamedDirs(parent.value.dir)[n + 1]
    IN  Weighted(ReadDirSpec(AtDepth(found, Depth(parent) + 1, Ancestors(parent.value))),
                 Adding(parent.index_path, n), parent.weight + 1)

\* How many of them it meets before the listing ends or breaks off.
StreamLimit(dir, fault) ==
    Cardinality({n \in DOMAIN Listing[dir] :
                    /\ AttemptFails(fault, 0) => n <= fault.after
                    /\ IsStreamed(Listing[dir][n])})

\* Mutant: a transient error of the streaming attempt is final.
StreamingReadOnce(parent, fault, n) ==
    IF ~AttemptFails(fault, 0) THEN ReadOk(Entries(parent.value, Depth(parent) + 1), n)
    ELSE IF n > 0 THEN ReadOk(<<ErrorEntry(parent.value.dir)>>, n)
    ELSE ReadErr

\* What a streaming attempt that scheduled n subdirectories comes to: after
\* an error it is final if n > 0; if n = 0 a transient error is retried,
\* without the streaming context the first attempt took.
StreamingRead(parent, fault, n) ==
    IF ~AttemptFails(fault, 0) THEN ReadOk(Entries(parent.value, Depth(parent) + 1), n)
    ELSE IF n > 0 THEN ReadOk(<<ErrorEntry(parent.value.dir)>>, n)
    ELSE IF IsTransientIoError(fault.error)
    THEN RetryTransientIo(parent.value, Depth(parent), fault, 1)
    ELSE ReadErr
==============================================================================

------------------------------ MODULE WalkSpec -------------------------------
(***************************************************************************)
(* What a walk promises its caller: the entries in depth-first order, each *)
(* directory followed by its own contents, and an error for each directory *)
(* that cannot be read; or, if the thread pool is too busy, one error.     *)
(* No queues, no workers, no order of reading.                             *)
(***************************************************************************)
EXTENDS DirEntryIter

VARIABLE faults   \* what goes wrong with each directory

\* The results a directory may be given: that of reading it or, if the
\* listing breaks off, an empty listing with the error in it.
Promised(entry) ==
    {CoreReadDir(ReadDirSpec(entry), entry.depth, faults[entry.dir])}
    \cup IF faults[entry.dir].times > 0 /\ faults[entry.dir].after > 0
         THEN {ReadOk(<<ErrorEntry(entry.dir)>>, 0)} ELSE {}

WalkInit == IterInit /\ faults \in [Dirs -> Faults]

WalkNext ==
    /\ \/ PopList
       \/ YieldEntry
       \/ AtDirectory /\ NextEntry.depth = 0 /\ YieldBusy   \* refused as a whole
       \/ AtDirectory /\ \E result \in Promised(NextEntry) : YieldDirectory(result)
    /\ UNCHANGED faults

Walk == WalkInit /\ [][WalkNext]_<<read_dir_results_stack, output, faults>>
==============================================================================

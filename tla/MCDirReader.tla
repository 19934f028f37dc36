---------------------------- MODULE MCDirReader ------------------------------
(* Small instances of DirReader for TLC.  Names, and directories, are numbers. *)
EXTENDS DirReader

MCEntry(name, type, leads_to, hidden, stat) ==
    [name |-> name, type |-> type, dir |-> leads_to, hidden |-> hidden, stat |-> stat]

\* 10 is on a network file system and mixes everything; 20, on FAT, has
\* directories only; in 30, on a local file system, nothing can be had; in 40
\* there is a loop.
MCDirs == {10, 20, 30, 40}
MCListing ==
    [d \in MCDirs |->
       CASE d = 10 -> <<MCEntry(3, "dir", 20, FALSE, "statx"),
                        MCEntry(1, "unknown", 30, FALSE, "fstatat"),
                        MCEntry(4, "link", 20, FALSE, "statx")>>
         [] d = 20 -> <<MCEntry(5, "dir", 30, TRUE, "statx"), MCEntry(7, "dir", 40, FALSE, "none"),
                        MCEntry(6, "dir", 50, FALSE, "statx")>>
         [] d = 30 -> <<MCEntry(8, "unknown", 40, TRUE, "none"), MCEntry(9, "broken", 0, FALSE, "statx")>>
         [] d = 40 -> <<MCEntry(12, "link", 20, FALSE, "none"), MCEntry(11, "link", 40, FALSE, "statx")>>]

MCDevice == [d \in MCDirs |-> CASE d = 10 -> 1 [] d = 20 -> 2 [] d \in {30, 40} -> 3]
MCFileSystem == <<"network", "fat", "local">>

MCOption(streaming, sort, skip_hidden, process, metadata) ==
    [streaming |-> streaming, sort |-> sort, skip_hidden |-> skip_hidden,
     process |-> process, metadata |-> metadata]

MCOptions ==
    {MCOption(TRUE, FALSE, FALSE, FALSE, TRUE), MCOption(TRUE, FALSE, TRUE, FALSE, FALSE),
     MCOption(TRUE, TRUE, FALSE, FALSE, TRUE), MCOption(TRUE, FALSE, FALSE, TRUE, FALSE),
     MCOption(FALSE, FALSE, FALSE, FALSE, FALSE)}

\* Nothing; a transient error the last retry heals, and one it does not; one
\* that is not in the table, and one without a number; one in the middle of a
\* listing.
MCFaults ==
    {R!NoFault, R!Fault(FALSE, 0, R!EAGAIN, MaxRetries),
     R!Fault(TRUE, 0, R!SharingViolation, MaxRetries + 1),
     R!Fault(FALSE, 0, R!ESTALE, 1),
     R!Fault(FALSE, 0, R!NulInName, MaxRetries + 1), R!Fault(TRUE, 1, R!EAGAIN, 1)}
==============================================================================

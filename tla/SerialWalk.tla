----------------------------- MODULE SerialWalk ------------------------------
(***************************************************************************)
(* The walk with Parallelism::Serial: ReadDirIter::Walk keeps a stack of   *)
(* directories to read, and DirEntryIter asks it for one more result at    *)
(* every directory it yields.  Nothing but the two stacks' agreement makes *)
(* the result belong to that directory.                                    *)
(***************************************************************************)
EXTENDS DirEntryIter, SequencesExt

CONSTANT FaultCases   \* what may go wrong: functions from Dirs to Faults

\* A listing breaks off after some of its entries.
ASSUME FaultAssumption ==
    \A f \in FaultCases :
        f \in [Dirs -> Faults] /\ \A d \in Dirs : f[d].after <= Len(Listing[d])

VARIABLES faults,
          read_dir_spec_stack   \* the directories to read

serialVars == <<read_dir_results_stack, output, faults, read_dir_spec_stack>>

SerialSpec(entry) == [spec |-> ReadDirSpec(entry), depth |-> entry.depth]

\* DirEntryIter::new gathers the specs of the root entries.
SerialInit ==
    /\ IterInit
    /\ faults \in FaultCases
    /\ read_dir_spec_stack =
          [n \in 1 .. Len(ReadChildren(TopList)) |-> SerialSpec(ReadChildren(TopList)[n])]

\* Mutant: the specs are pushed in listing order.
ChildSpecsForward(list) ==
    [n \in 1 .. Len(ReadChildren(list)) |-> SerialSpec(ReadChildren(list)[n])]

\* The specs of a listing, last first.
ChildSpecs(list) ==
    Reverse([n \in 1 .. Len(ReadChildren(list)) |-> SerialSpec(ReadChildren(list)[n])])

\* ReadDirIter::next: pop a spec, read it, push its children.  An empty stack
\* gives None, which DirEntryIter turns into Error::busy.
ReadNext ==
    /\ AtDirectory
    /\ LET top    == Last(read_dir_spec_stack)
           result == IF read_dir_spec_stack = <<>> THEN ReadErr
                     ELSE CoreReadDir(top.spec, top.depth, faults[top.spec.dir])
       IN  /\ YieldDirectory(result)
           /\ read_dir_spec_stack' = Front(read_dir_spec_stack) \o ChildSpecs(result.list)
    /\ UNCHANGED faults

SerialStep ==
    \/ (PopList \/ YieldEntry) /\ UNCHANGED <<faults, read_dir_spec_stack>>
    \/ ReadNext

SerialNext == SerialStep \/ (Exhausted /\ UNCHANGED serialVars)

\* The caller calls next() until it gets None.
Serial == SerialInit /\ [][SerialNext]_serialVars /\ WF_serialVars(SerialStep)

------------------------------------------------------------------------------
(* Properties *)

Abstract == INSTANCE WalkSpec

\* The serial walk keeps the promise of WalkSpec.
KeepsPromise == Abstract!Walk

\* The directories still ahead in the listings on the stack, as positions of
\* a listing and of an entry in it.
StillAhead ==
    {place \in UNION {{n} \X DOMAIN read_dir_results_stack[n] : n \in DOMAIN read_dir_results_stack} :
        ReadsChildren(read_dir_results_stack[place[1]][place[2]])}

\* Those the walk comes to after the one at this place.
ReadAfter(place) ==
    {q \in StillAhead : q[1] < place[1] \/ (q[1] = place[1] /\ q[2] > place[2])}

\* The stack of specs holds exactly the directories still ahead in the
\* listings on the stack, the next one on top.
StacksAgree ==
    /\ Len(read_dir_spec_stack) = Cardinality(StillAhead)
    /\ \A place \in StillAhead :
          read_dir_spec_stack[Cardinality(ReadAfter(place)) + 1]
             = SerialSpec(read_dir_results_stack[place[1]][place[2]])

\* No entry is yielded twice, though links lead back to directories being
\* walked: a link that closes a loop is an error (the doc comment of
\* WalkDirGeneric::follow_links).
NothingTwice == \A i, j \in DOMAIN output : output[i] = output[j] => i = j

\* The n-th entry of d is a way into another directory.  A link to one of the
\* directories of up[d] is none: they are among the ancestors, and it closes
\* a loop.
IsWay(up, d, n) ==
    \/ Listing[d][n].type \in {"dir", "unknown"}
    \/ Listing[d][n].type = "link" /\ FollowLinks /\ Listing[d][n].dir \notin up[d]

(***************************************************************************)
(* But for links that close a loop the directories are a tree: under[d] is *)
(* what the walk may yield for the contents of d, the error of a listing   *)
(* that breaks off included, and up[d] some of the identities above d.     *)
(***************************************************************************)
IsTree(under, up) ==
    /\ [name |-> RootEntry.name, error |-> FALSE] \notin under[RootEntry.dir]
    /\ up[RootEntry.dir] \subseteq {Identity(RootEntry)}
    /\ \A d \in Dirs :
          /\ [name |-> d, error |-> TRUE] \in under[d]
          /\ \A n \in DOMAIN Listing[d] : \A e \in BOOLEAN :
                /\ [name |-> Listing[d][n].name, error |-> e] \in under[d]
                /\ Listing[d][n].name # d
          /\ \A n, m \in DOMAIN Listing[d] : Listing[d][n].name = Listing[d][m].name => n = m
          /\ \A n \in DOMAIN Listing[d] : IsWay(up, d, n) =>
                /\ under[Listing[d][n].dir] \subseteq under[d]
                /\ up[Listing[d][n].dir] \subseteq up[d] \cup {Identity(Listing[d][n])}
                /\ [name |-> d, error |-> TRUE] \notin under[Listing[d][n].dir]
                /\ \A m \in DOMAIN Listing[d] : \A e \in BOOLEAN :
                      [name |-> Listing[d][m].name, error |-> e] \in under[Listing[d][n].dir] => m = n /\ e
                /\ \A m \in DOMAIN Listing[d] : IsWay(up, d, m) /\ m # n =>
                      under[Listing[d][n].dir] \cap under[Listing[d][m].dir] = {}

TreeBesidesLoops == \E under, up : IsTree(under, up)

\* The walk comes to its end.
SerialEnds == <>Exhausted
==============================================================================

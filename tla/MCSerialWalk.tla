---------------------------- MODULE MCSerialWalk -----------------------------
(* Small instances of SerialWalk for TLC. *)
EXTENDS SerialWalk, MCTrees

\* Nothing, an error that the last retry heals, one that is not retried, and a
\* listing that breaks off.
AnyFaults ==
    [DeepDirs -> {NoFault, Fault(FALSE, 0, EAGAIN, MaxRetries), Fault(FALSE, 0, EIO, 1),
                  Fault(TRUE, 1, EAGAIN, MaxRetries + 1)}]

LoopNoFault == {[d \in LoopDirs |-> NoFault]}

\* DeepTree is a tree besides its two loops: the directories of each subtree,
\* and the items the walk may yield for it.
DeepWithin ==
    [d \in DeepDirs |-> CASE d = "r" -> DeepDirs
                          [] d = "a" -> {"a", "c"}
                          [] d = "b" -> {"b", "e", "k"}
                          [] d = "e" -> {"e", "k"}
                          [] OTHER -> {d}]

DeepUnder ==
    [d \in DeepDirs |->
        UNION {{[name |-> x, error |-> TRUE]}
                  \cup [name : {DeepTree[x][n].name : n \in DOMAIN DeepTree[x]}, error : BOOLEAN] :
               x \in DeepWithin[d]}]

DeepUp ==
    [d \in DeepDirs |-> CASE d = "r" -> {"r"}
                          [] d \in {"a", "c"} -> {"r", "a"}
                          [] OTHER -> {"r", "b"}]

ASSUME DeepIsTree == Listing = DeepTree => IsTree(DeepUnder, DeepUp)
==============================================================================

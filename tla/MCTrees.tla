------------------------------- MODULE MCTrees -------------------------------
(* File trees shared by the instances for TLC. *)
EXTENDS Integers, Sequences

MCFile(name) == [name |-> name, type |-> "file", dir |-> "none"]
MCDir(name) == [name |-> name, type |-> "dir", dir |-> name]
MCUnknown(name) == [name |-> name, type |-> "unknown", dir |-> name]
MCBroken(name) == [name |-> name, type |-> "broken", dir |-> "none"]
MCLink(name, dir) == [name |-> name, type |-> "link", dir |-> dir]

MCRootEntry == MCDir("r")

\* r holds a and b; b holds a directory c and a link e beside it.
SmallDirs == {"r", "a", "b", "c", "e"}
SmallTree ==
    [d \in SmallDirs |->
       CASE d = "r" -> <<MCDir("a"), MCDir("b")>>
         [] d = "a" -> <<MCFile("f")>>
         [] d = "b" -> <<MCDir("c"), MCLink("le", "e")>>
         [] d \in {"c", "e"} -> <<>>]

\* A link to a directory, a directory of unknown type, and a link back up.
LinkedDirs == {"r", "a", "b", "c", "e"}
LinkedTree ==
    [d \in LinkedDirs |->
       CASE d = "r" -> <<MCDir("a"), MCFile("f"), MCDir("b")>>
         [] d = "a" -> <<MCLink("lc", "c"), MCFile("h")>>
         [] d = "b" -> <<MCUnknown("e"), MCLink("up", "r")>>
         [] d = "c" -> <<MCFile("g")>>
         [] d = "e" -> <<>>]

\* The same, with a broken link and a second link back up behind a link, and a
\* directory k at the depth where MaxDepth = 3 ends the walk.
DeepDirs == LinkedDirs \cup {"k"}
DeepTree ==
    [d \in DeepDirs |->
       CASE d = "c" -> <<MCBroken("lost"), MCLink("again", "a"), MCFile("g")>>
         [] d = "e" -> <<MCDir("k")>>
         [] d = "k" -> <<MCFile("m")>>
         [] OTHER -> LinkedTree[d]]

\* r holds a, with two subdirectories, and b: a's listing may break off.
BreakDirs == {"r", "a", "b", "c", "e"}
BreakTree ==
    [d \in BreakDirs |->
       CASE d = "r" -> <<MCDir("a"), MCDir("b")>>
         [] d = "a" -> <<MCDir("c"), MCDir("e")>>
         [] d = "b" -> <<MCFile("g")>>
         [] d \in {"c", "e"} -> <<>>]

\* A directory and a link to a directory side by side.
MixedDirs == {"r", "a", "b"}
MixedTree ==
    [d \in MixedDirs |->
       CASE d = "r" -> <<MCLink("la", "a"), MCDir("b")>>
         [] d = "a" -> <<MCFile("f")>>
         [] d = "b" -> <<MCFile("g")>>]

\* A link to a directory that holds a link to itself.
LoopDirs == {"r", "x"}
LoopTree ==
    [d \in LoopDirs |->
       CASE d = "r" -> <<MCLink("l", "x")>>
         [] d = "x" -> <<MCFile("f"), MCLink("s", "x")>>]
==============================================================================

--------------------------- MODULE MCPriorityQueue ---------------------------
(* Small instances of PriorityQueue for TLC. *)
EXTENDS PriorityQueue

MCSpec(path, weight) == [value |-> path, index_path |-> path, weight |-> weight]

MCRoot == MCSpec(<<0>>, 3)

\* Children streamed by the root (weight + 1) and scheduled by a child after
\* its listing of two or more entries: equal and different weights.
MCSpecs == {MCRoot, MCSpec(<<0, 0>>, 4), MCSpec(<<0, 1>>, 4), MCSpec(<<0, 0, 0>>, 6)}

\* Enough for two workers to push at once with the channel full.
MCManySpecs == MCSpecs \cup {MCSpec(<<0, 1, 0>>, 6)}

MCRootSpecs == <<MCRoot>>
==============================================================================

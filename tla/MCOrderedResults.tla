--------------------------- MODULE MCOrderedResults --------------------------
(* Small instances of OrderedResults for TLC. *)
EXTENDS OrderedResults

MCResult(path, children) ==
    [value |-> path, index_path |-> path, child_count |-> children]

\* Two levels of siblings and a return over two levels at once.
MCResults == {MCResult(<<0>>, 3), MCResult(<<0, 0>>, 0), MCResult(<<0, 1>>, 2),
              MCResult(<<0, 1, 0>>, 0), MCResult(<<0, 1, 1>>, 0), MCResult(<<0, 2>>, 0)}
==============================================================================

------------------------------ MODULE IndexPath ------------------------------
(***************************************************************************)
(* Index paths (core/index_path.rs): the position of a directory in the    *)
(* walk, as the sequence of its ancestors' numbers among the directories   *)
(* their parent schedules.  The root directory is <<0>>.                   *)
(***************************************************************************)
EXTENDS Integers, Sequences

Paths == Seq(Nat)

Adding(path, index) == Append(path, index)

IncrementLast(path) == [path EXCEPT ![Len(path)] = @ + 1]

(***************************************************************************)
(* The derived order of the index vectors: lexicographic, a proper prefix  *)
(* first.  It is the depth-first preorder of the tree.  IndexPath's own    *)
(* Ord is this one reversed, so that a max-heap pops the least path.       *)
(***************************************************************************)
Before(p, q) ==
    \/ /\ Len(p) < Len(q)
       /\ \A j \in 1 .. Len(p) : p[j] = q[j]
    \/ \E k \in 1 .. Len(p) :
          /\ k <= Len(q)
          /\ p[k] < q[k]
          /\ \A j \in 1 .. (k - 1) : p[j] = q[j]
==============================================================================
